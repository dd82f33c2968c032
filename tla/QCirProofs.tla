----------------------------- MODULE QCirProofs ------------------------------
(***************************************************************************)
(* Proofs about QCir: for every set of operations, every sequence of       *)
(* edits, compositions and copies, the four maps of links agree with one   *)
(* list of gates for each qubit, and each operation changes these lists as *)
(* WireLists says.                                                         *)
(***************************************************************************)
EXTENDS QCir, CircuitProofs

-----------------------------------------------------------------------------
(* Lines                                                                   *)

\* The member at i, if there is one
Entry(s, i) == IF i \in DOMAIN s THEN s[i] ELSE NoGate

Place(s, g) == CHOOSE i \in DOMAIN s : s[i] = g

\* The gate k places behind g
Beside(s, g, k) == Entry(s, Place(s, g) + k)

\* A line on which every gate is at most once
LineOf(ids) == {s \in Seq(ids) : IsInjective(s)}

\* The place of a gate of the line
LEMMA PlaceOnLine ==
    ASSUME NEW ids, NEW s \in LineOf(ids)
    PROVE  /\ Len(s) \in Nat /\ DOMAIN s = 1 .. Len(s)
           /\ \A i \in DOMAIN s : s[i] \in ids /\ Place(s, s[i]) = i
           /\ \A g : g \in ToSet(s) <=> \E i \in DOMAIN s : s[i] = g
           /\ \A g \in ToSet(s) : Place(s, g) \in DOMAIN s /\ s[Place(s, g)] = g
<1>1. s \in Seq(ids) /\ \A i, j \in DOMAIN s : s[i] = s[j] => i = j
  BY DEF LineOf, IsInjective
<1>2. \A g : g \in ToSet(s) <=> \E i \in DOMAIN s : s[i] = g
  BY DEF ToSet
<1>3. \A i \in DOMAIN s : Place(s, s[i]) = i
  BY <1>1 DEF Place
<1>4. \A g \in ToSet(s) : Place(s, g) \in DOMAIN s /\ s[Place(s, g)] = g
  BY <1>2, Zenon DEF Place
<1>. QED
  BY <1>1, <1>2, <1>3, <1>4

\* t is the line s with g at its end.
Lengthened(ids, s, g, t) ==
    /\ t \in LineOf(ids \cup {g})
    /\ ToSet(t) = ToSet(s) \cup {g}
    /\ Entry(t, Len(t)) = g
    /\ Entry(t, 1) = IF Entry(s, 1) = NoGate THEN g ELSE Entry(s, 1)
    /\ Beside(t, g, 1) = NoGate
    /\ Beside(t, g, -1) = Entry(s, Len(s))
    /\ \A h \in ToSet(s) :
          /\ Beside(t, h, 1) =
                 IF Entry(s, Len(s)) = h THEN g ELSE Beside(s, h, 1)
          /\ Beside(t, h, -1) = Beside(s, h, -1)

\* A line grows at its end by a gate that is not on it.
LEMMA LineAppended ==
    ASSUME NEW ids, NoGate \notin ids, NEW s \in LineOf(ids), NEW g, g \notin ToSet(s),
           NEW t, t = Append(s, g)
    PROVE  Lengthened(ids, s, g, t)
<1>1. /\ Len(s) \in Nat /\ DOMAIN s = 1 .. Len(s)
      /\ \A i \in DOMAIN s : s[i] \in ids /\ Place(s, s[i]) = i
      /\ \A h : h \in ToSet(s) <=> \E i \in DOMAIN s : s[i] = h
      /\ \A h \in ToSet(s) : Place(s, h) \in DOMAIN s /\ s[Place(s, h)] = h
  BY PlaceOnLine
<1>2. s \in Seq(ids) /\ \A i, j \in DOMAIN s : s[i] = s[j] => i = j
  BY DEF LineOf, IsInjective
<1>3. PICK n \in Nat : n = Len(s)
  BY <1>1
<1>4. t = Append(s, g)
  OBVIOUS
<1>5. /\ t \in Seq(ids \cup {g}) /\ Len(t) = n + 1 /\ DOMAIN t = 1 .. n + 1 /\ t[n + 1] = g
      /\ \A i \in 1 .. n : t[i] = s[i]
  BY <1>2, <1>3, <1>4
<1>6. \A i \in 1 .. n : t[i] # g /\ t[i] # NoGate /\ t[i] \in ids
  BY <1>1, <1>3, <1>5
<1>7. \A i, j \in 1 .. n + 1 : t[i] = t[j] => i = j
  <2>1. SUFFICES ASSUME NEW i \in 1 .. n + 1, NEW j \in 1 .. n + 1, t[i] = t[j]
                 PROVE  i = j
    OBVIOUS
  <2>2. CASE i = n + 1 \/ j = n + 1
    BY <1>5, <1>6, <2>1, <2>2
  <2>3. CASE i \in 1 .. n /\ j \in 1 .. n
    BY <1>1, <1>2, <1>3, <1>5, <2>1, <2>3
  <2>. QED
    BY <2>2, <2>3
<1>8. t \in LineOf(ids \cup {g})
  BY <1>5, <1>7 DEF LineOf, IsInjective
<1>9. \A i \in 1 .. n + 1 : Place(t, t[i]) = i
  BY <1>5, <1>7 DEF Place
<1>10. ToSet(t) = ToSet(s) \cup {g}
  <2>1. \A x : x \in ToSet(t) <=> \E i \in 1 .. n + 1 : t[i] = x
    BY <1>5 DEF ToSet
  <2>2. \A i \in 1 .. n + 1 : i = n + 1 \/ i \in 1 .. n
    OBVIOUS
  <2>3. n + 1 \in 1 .. n + 1 /\ \A i \in 1 .. n : i \in 1 .. n + 1
    OBVIOUS
  <2>4. \A x : x \in ToSet(s) <=> \E i \in 1 .. n : s[i] = x
    BY <1>1, <1>3
  <2>. QED
    BY <1>5, <2>1, <2>2, <2>3, <2>4
<1>11. Entry(t, Len(t)) = g
  BY <1>5 DEF Entry
<1>12. Entry(t, 1) = IF Entry(s, 1) = NoGate THEN g ELSE Entry(s, 1)
  <2>1. CASE n = 0
    BY <1>1, <1>3, <1>5, <2>1 DEF Entry
  <2>2. CASE n # 0
    BY <1>1, <1>3, <1>5, <1>6, <2>2 DEF Entry
  <2>. QED
    BY <2>1, <2>2
<1>13. Beside(t, g, 1) = NoGate /\ Beside(t, g, -1) = Entry(s, Len(s))
  <2>1. Place(t, g) = n + 1
    BY <1>5, <1>9
  <2>. QED
    BY <1>1, <1>3, <1>5, <2>1 DEF Beside, Entry
<1>14. /\ \A k \in Int : Entry(t, k) = IF k \in 1 .. n + 1 THEN t[k] ELSE NoGate
       /\ \A k \in Int : Entry(s, k) = IF k \in 1 .. n THEN s[k] ELSE NoGate
  BY <1>1, <1>3, <1>5 DEF Entry
<1>15. ASSUME NEW h \in ToSet(s)
       PROVE  /\ Beside(t, h, 1) = IF Entry(s, Len(s)) = h THEN g ELSE Beside(s, h, 1)
              /\ Beside(t, h, -1) = Beside(s, h, -1)
  <2>1. PICK i \in 1 .. n : s[i] = h /\ Place(s, h) = i /\ Place(t, h) = i
    BY <1>1, <1>3, <1>5, <1>9
  <2>2. Entry(s, Len(s)) = h <=> i = n
    BY <1>1, <1>2, <1>3, <2>1 DEF Entry
  <2>3. /\ Beside(t, h, 1) = Entry(t, i + 1) /\ Beside(t, h, -1) = Entry(t, i + -1)
        /\ Beside(s, h, 1) = Entry(s, i + 1) /\ Beside(s, h, -1) = Entry(s, i + -1)
    BY <2>1 DEF Beside
  <2>4. CASE i = n
    BY <1>5, <1>14, <2>1, <2>2, <2>3, <2>4
  <2>5. CASE i # n
    BY <1>5, <1>14, <2>1, <2>2, <2>3, <2>5
  <2>. QED
    BY <2>4, <2>5
<1>. QED
  BY <1>8, <1>10, <1>11, <1>12, <1>13, <1>15, Zenon DEF Lengthened

\* t is the line s from its end.
Turned(ids, s, t) ==
    /\ t \in LineOf(ids) /\ ToSet(t) = ToSet(s) /\ Len(t) = Len(s)
    /\ \A i \in DOMAIN s : Len(s) - i + 1 \in DOMAIN t /\ t[Len(s) - i + 1] = s[i]
    /\ Entry(t, 1) = Entry(s, Len(s)) /\ Entry(t, Len(t)) = Entry(s, 1)
    /\ \A h \in ToSet(s) : /\ Beside(t, h, 1) = Beside(s, h, -1)
                           /\ Beside(t, h, -1) = Beside(s, h, 1)
    /\ Reverse(t) = s

\* A line read from its end
LEMMA LineReversed ==
    ASSUME NEW ids, NEW s \in LineOf(ids), NEW t, t = Reverse(s)
    PROVE  Turned(ids, s, t)
<1>1. /\ Len(s) \in Nat /\ DOMAIN s = 1 .. Len(s)
      /\ \A i \in DOMAIN s : s[i] \in ids /\ Place(s, s[i]) = i
      /\ \A h : h \in ToSet(s) <=> \E i \in DOMAIN s : s[i] = h
  BY PlaceOnLine
<1>2. s \in Seq(ids) /\ \A i, j \in DOMAIN s : s[i] = s[j] => i = j
  BY DEF LineOf, IsInjective
<1>3. PICK n \in Nat : n = Len(s)
  BY <1>1
<1>4. /\ t \in Seq(ids) /\ Len(t) = n /\ DOMAIN t = 1 .. n
      /\ \A i \in 1 .. n : t[i] = s[n - i + 1]
  BY <1>1, <1>2, <1>3 DEF Reverse
<1>5. \A i \in 1 .. n : n - i + 1 \in 1 .. n /\ n - (n - i + 1) + 1 = i
  OBVIOUS
<1>6. \A i \in 1 .. n : t[n - i + 1] = s[i]
  BY <1>4, <1>5
<1>7. \A i, j \in 1 .. n : t[i] = t[j] => i = j
  <2>1. SUFFICES ASSUME NEW i \in 1 .. n, NEW j \in 1 .. n, t[i] = t[j] PROVE i = j
    OBVIOUS
  <2>2. n - i + 1 = n - j + 1
    BY <1>1, <1>2, <1>3, <1>4, <1>5, <2>1
  <2>. QED
    BY <2>2
<1>8. t \in LineOf(ids)
  BY <1>4, <1>7 DEF LineOf, IsInjective
<1>9. ToSet(t) = ToSet(s)
  <2>1. \A x : x \in ToSet(t) <=> \E i \in 1 .. n : t[i] = x
    BY <1>4 DEF ToSet
  <2>2. \A x : x \in ToSet(s) <=> \E i \in 1 .. n : s[i] = x
    BY <1>1, <1>3
  <2>3. ASSUME NEW i \in 1 .. n
        PROVE  (\E j \in 1 .. n : s[j] = t[i]) /\ \E j \in 1 .. n : t[j] = s[i]
    BY <1>4, <1>5, <1>6
  <2>. QED
    BY <2>1, <2>2, <2>3, Zenon
<1>10. /\ \A k \in Int : Entry(t, k) = IF k \in 1 .. n THEN t[k] ELSE NoGate
       /\ \A k \in Int : Entry(s, k) = IF k \in 1 .. n THEN s[k] ELSE NoGate
  BY <1>1, <1>3, <1>4 DEF Entry
<1>11. \A k \in Int : Entry(t, n - k + 1) = Entry(s, k)
  <2>1. SUFFICES ASSUME NEW k \in Int PROVE Entry(t, n - k + 1) = Entry(s, k)
    OBVIOUS
  <2>2. n - k + 1 \in Int /\ (n - k + 1 \in 1 .. n <=> k \in 1 .. n)
    OBVIOUS
  <2>. QED
    BY <1>6, <1>10, <2>2
<1>12. Entry(t, 1) = Entry(s, Len(s)) /\ Entry(t, Len(t)) = Entry(s, 1)
  <2>1. n - n + 1 = 1 /\ n - 1 + 1 = n
    OBVIOUS
  <2>2. Entry(t, n - n + 1) = Entry(s, n) /\ Entry(t, n - 1 + 1) = Entry(s, 1)
    BY <1>11
  <2>. QED
    BY <1>3, <1>4, <2>1, <2>2
<1>13. ASSUME NEW h \in ToSet(s)
       PROVE  Beside(t, h, 1) = Beside(s, h, -1) /\ Beside(t, h, -1) = Beside(s, h, 1)
  <2>1. PICK i \in 1 .. n : s[i] = h /\ Place(s, h) = i
    BY <1>1, <1>3
  <2>2. Place(t, h) = n - i + 1
    BY <1>4, <1>5, <1>6, <1>7, <2>1 DEF Place
  <2>3. /\ n - i + 1 + 1 = n - (i + -1) + 1 /\ n - i + 1 + -1 = n - (i + 1) + 1
        /\ i + 1 \in Int /\ i + -1 \in Int
    OBVIOUS
  <2>4. /\ Entry(t, n - (i + -1) + 1) = Entry(s, i + -1)
        /\ Entry(t, n - (i + 1) + 1) = Entry(s, i + 1)
    BY <1>11, <2>3
  <2>. QED
    BY <2>1, <2>2, <2>3, <2>4, Zenon DEF Beside
<1>14. Reverse(t) = s
  BY <1>1, <1>2, <1>3, <1>4, <1>5, <1>6 DEF Reverse
<1>. QED
  BY <1>1, <1>3, <1>4, <1>5, <1>6, <1>8, <1>9, <1>12, <1>13, <1>14, Zenon DEF Turned

\* t is the line s with g at its start.
Headed(ids, s, g, t) ==
    /\ t \in LineOf(ids \cup {g})
    /\ ToSet(t) = ToSet(s) \cup {g}
    /\ Reverse(t) = Append(Reverse(s), g)
    /\ Entry(t, 1) = g
    /\ Entry(t, Len(t)) = IF Entry(s, Len(s)) = NoGate THEN g ELSE Entry(s, Len(s))
    /\ Beside(t, g, -1) = NoGate
    /\ Beside(t, g, 1) = Entry(s, 1)
    /\ \A h \in ToSet(s) :
          /\ Beside(t, h, -1) = IF Entry(s, 1) = h THEN g ELSE Beside(s, h, -1)
          /\ Beside(t, h, 1) = Beside(s, h, 1)

\* A line grows at its start.
LEMMA LinePrepended ==
    ASSUME NEW ids, NoGate \notin ids, NEW s \in LineOf(ids), NEW g, g \notin ToSet(s),
           NEW t, t = <<g>> \o s
    PROVE  Headed(ids, s, g, t)
<1>1. PICK u, v : u = Reverse(s) /\ v = Append(u, g)
  OBVIOUS
<1>2. Turned(ids, s, u)
  BY <1>1, LineReversed
<1>3. Lengthened(ids, u, g, v)
  <2>1. u \in LineOf(ids) /\ g \notin ToSet(u)
    BY <1>2 DEF Turned
  <2>. QED
    BY <1>1, <2>1, LineAppended
<1>4. t = Reverse(v)
  <2>1. s \in Seq(ids)
    BY DEF LineOf
  <2>2. PICK n \in Nat : n = Len(s) /\ DOMAIN s = 1 .. n
    BY <2>1
  <2>3. u \in Seq(ids) /\ Len(u) = n /\ \A i \in 1 .. n : u[i] = s[n - i + 1]
    BY <1>1, <2>1, <2>2 DEF Reverse
  <2>4. /\ v \in Seq(ids \cup {g}) /\ Len(v) = n + 1 /\ v[n + 1] = g
        /\ \A i \in 1 .. n : v[i] = s[n - i + 1]
    BY <1>1, <2>3
  <2>5. /\ t \in Seq(ids \cup {g}) /\ Len(t) = n + 1 /\ DOMAIN t = 1 .. n + 1 /\ t[1] = g
        /\ \A i \in 2 .. n + 1 : t[i] = s[i - 1]
    BY <2>1, <2>2
  <2>6. PICK w : w = Reverse(v)
    OBVIOUS
  <2>7. w = [i \in 1 .. n + 1 |-> v[n + 1 - i + 1]]
    BY <2>4, <2>6 DEF Reverse
  <2>8. \A i \in 1 .. n + 1 : t[i] = w[i]
    <3>1. SUFFICES ASSUME NEW i \in 1 .. n + 1 PROVE t[i] = w[i]
      OBVIOUS
    <3>2. CASE i = 1
      BY <2>4, <2>5, <2>7, <3>2
    <3>3. CASE i # 1
      <4>1. i \in 2 .. n + 1 /\ n + 1 - i + 1 \in 1 .. n /\ n - (n + 1 - i + 1) + 1 = i - 1
        BY <3>3
      <4>. QED
        BY <2>4, <2>5, <2>7, <4>1
    <3>. QED
      BY <3>2, <3>3
  <2>9. t = [i \in 1 .. n + 1 |-> t[i]]
    BY <2>5
  <2>. QED
    BY <2>6, <2>7, <2>8, <2>9
<1>5. Turned(ids \cup {g}, v, t)
  <2>1. v \in LineOf(ids \cup {g})
    BY <1>3 DEF Lengthened
  <2>. QED
    BY <1>4, <2>1, LineReversed
<1>6. u \in LineOf(ids) /\ ToSet(u) = ToSet(s) /\ g \notin ToSet(u) /\ g \in ToSet(v)
  BY <1>2, <1>3 DEF Turned, Lengthened
<1>7. ASSUME NEW h \in ToSet(s)
      PROVE  /\ Beside(t, h, -1) = IF Entry(s, 1) = h THEN g ELSE Beside(s, h, -1)
             /\ Beside(t, h, 1) = Beside(s, h, 1)
  <2>1. h \in ToSet(u) /\ h \in ToSet(v)
    BY <1>3, <1>6 DEF Lengthened
  <2>2. Beside(t, h, -1) = Beside(v, h, 1) /\ Beside(t, h, 1) = Beside(v, h, -1)
    BY <1>5, <2>1 DEF Turned
  <2>3. /\ Beside(v, h, 1) = IF Entry(u, Len(u)) = h THEN g ELSE Beside(u, h, 1)
        /\ Beside(v, h, -1) = Beside(u, h, -1)
    BY <1>3, <2>1 DEF Lengthened
  <2>4. Beside(u, h, 1) = Beside(s, h, -1) /\ Beside(u, h, -1) = Beside(s, h, 1)
    BY <1>2 DEF Turned
  <2>5. Entry(u, Len(u)) = Entry(s, 1)
    BY <1>2 DEF Turned
  <2>. QED
    BY <2>2, <2>3, <2>4, <2>5
<1>8. t \in LineOf(ids \cup {g}) /\ ToSet(t) = ToSet(s) \cup {g} /\ Reverse(t) = v
  BY <1>3, <1>5, <1>6 DEF Turned, Lengthened
<1>9. Entry(t, 1) = Entry(v, Len(v)) /\ Entry(t, Len(t)) = Entry(v, 1)
  BY <1>5 DEF Turned
<1>10. Entry(v, Len(v)) = g /\ Entry(v, 1) = IF Entry(u, 1) = NoGate THEN g ELSE Entry(u, 1)
  BY <1>3 DEF Lengthened
<1>11. Entry(u, 1) = Entry(s, Len(s)) /\ Entry(u, Len(u)) = Entry(s, 1)
  BY <1>2 DEF Turned
<1>12. Beside(t, g, -1) = Beside(v, g, 1) /\ Beside(t, g, 1) = Beside(v, g, -1)
  BY <1>5, <1>6 DEF Turned
<1>13. Beside(v, g, 1) = NoGate /\ Beside(v, g, -1) = Entry(u, Len(u))
  BY <1>3 DEF Lengthened
<1>. QED
  BY <1>1, <1>7, <1>8, <1>9, <1>10, <1>11, <1>12, <1>13 DEF Headed

\* t is the line s without g.
Shortened(ids, s, g, t) ==
    /\ t \in LineOf(ids \ {g})
    /\ ToSet(t) = ToSet(s) \ {g}
    /\ Entry(t, 1) = IF Beside(s, g, -1) = NoGate THEN Beside(s, g, 1) ELSE Entry(s, 1)
    /\ Entry(t, Len(t)) =
           IF Beside(s, g, 1) = NoGate THEN Beside(s, g, -1) ELSE Entry(s, Len(s))
    /\ \A h \in ToSet(s) \ {g} :
          /\ Beside(t, h, 1) = IF Beside(s, g, -1) = h THEN Beside(s, g, 1) ELSE Beside(s, h, 1)
          /\ Beside(t, h, -1) = IF Beside(s, g, 1) = h THEN Beside(s, g, -1) ELSE Beside(s, h, -1)
    /\ \A i, j \in DOMAIN t : i < j => \E a, b \in DOMAIN s : a < b /\ s[a] = t[i] /\ s[b] = t[j]

\* A line loses a gate.
LEMMA LineWithout ==
    ASSUME NEW ids, NoGate \notin ids, NEW s \in LineOf(ids), NEW g \in ToSet(s),
           NEW t, t = RemoveAt(s, Place(s, g))
    PROVE  Shortened(ids, s, g, t)
<1>1. /\ Len(s) \in Nat /\ DOMAIN s = 1 .. Len(s)
      /\ \A i \in DOMAIN s : s[i] \in ids /\ Place(s, s[i]) = i
      /\ \A h : h \in ToSet(s) <=> \E i \in DOMAIN s : s[i] = h
      /\ Place(s, g) \in DOMAIN s /\ s[Place(s, g)] = g
  BY PlaceOnLine
<1>2. s \in Seq(ids) /\ \A i, j \in DOMAIN s : s[i] = s[j] => i = j
  BY DEF LineOf, IsInjective
<1>3. PICK m \in Nat : Len(s) = m + 1 /\ DOMAIN s = 1 .. m + 1
  <2>1. PICK k : k = Len(s)
    OBVIOUS
  <2>2. k \in Nat /\ DOMAIN s = 1 .. k
    BY <1>2, <2>1
  <2>3. k # 0
    BY <1>1, <2>1, <2>2
  <2>4. k - 1 \in Nat /\ k = k - 1 + 1
    BY <2>2, <2>3
  <2>. QED
    BY <2>1, <2>2, <2>4
<1>4. PICK p \in 1 .. m + 1 : p = Place(s, g) /\ s[p] = g
  BY <1>1, <1>3
<1>5. /\ t \in Seq(ids) /\ Len(t) = m /\ DOMAIN t = 1 .. m
      /\ \A i \in 1 .. m : t[i] = IF i < p THEN s[i] ELSE s[i + 1]
  <2>1. PICK u, v : u = SubSeq(s, 1, p - 1) /\ v = SubSeq(s, p + 1, m + 1)
    OBVIOUS
  <2>2. /\ u \in Seq(ids) /\ Len(u) = p - 1
        /\ \A i \in 1 .. p - 1 : u[i] = s[i]
    BY <1>2, <1>3, <2>1
  <2>3. /\ v \in Seq(ids) /\ Len(v) = m + 1 - p
        /\ \A i \in 1 .. m + 1 - p : v[i] = s[p + i]
    BY <1>2, <1>3, <2>1
  <2>4. t = u \o v
    BY <1>3, <1>4, <2>1 DEF RemoveAt
  <2>5. t \in Seq(ids) /\ Len(t) = m
    <3>1. t \in Seq(ids) /\ Len(t) = Len(u) + Len(v)
      <4>1. u \in Seq(ids) /\ v \in Seq(ids)
        BY <2>2, <2>3
      <4>. QED
        BY <2>4, <4>1
    <3>2. (p - 1) + (m + 1 - p) = m
      OBVIOUS
    <3>. QED
      BY <2>2, <2>3, <3>1, <3>2
  <2>6. ASSUME NEW i \in 1 .. m PROVE t[i] = IF i < p THEN s[i] ELSE s[i + 1]
    <3>1. CASE i < p
      BY <2>2, <2>3, <2>4, <3>1
    <3>2. CASE ~(i < p)
      <4>1. i - (p - 1) \in 1 .. m + 1 - p /\ p + (i - (p - 1)) = i + 1
        BY <3>2
      <4>2. t[i] = v[i - (p - 1)]
        BY <2>2, <2>3, <2>4, <3>2
      <4>. QED
        BY <2>3, <3>2, <4>1, <4>2
    <3>. QED
      BY <3>1, <3>2
  <2>. QED
    BY <2>5, <2>6
<1>6. PICK skip : skip = [i \in 1 .. m |-> IF i < p THEN i ELSE i + 1]
  OBVIOUS
<1>7. /\ \A i \in 1 .. m : skip[i] \in 1 .. m + 1 /\ skip[i] # p /\ t[i] = s[skip[i]]
      /\ \A i, j \in 1 .. m : i < j => skip[i] < skip[j]
      /\ \A k \in 1 .. m + 1 : k # p => \E i \in 1 .. m : skip[i] = k
  <2>1. \A i \in 1 .. m : skip[i] \in 1 .. m + 1 /\ skip[i] # p /\ t[i] = s[skip[i]]
    BY <1>5, <1>6
  <2>2. \A i, j \in 1 .. m : i < j => skip[i] < skip[j]
    BY <1>6
  <2>3. ASSUME NEW k \in 1 .. m + 1, k # p PROVE \E i \in 1 .. m : skip[i] = k
    <3>1. CASE k < p
      BY <1>6, <3>1
    <3>2. CASE ~(k < p)
      <4>1. k - 1 \in 1 .. m /\ skip[k - 1] = k
        BY <1>6, <2>3, <3>2
      <4>. QED
        BY <4>1
    <3>. QED
      BY <3>1, <3>2
  <2>. QED
    BY <2>1, <2>2, <2>3
<1>8. \A i, j \in 1 .. m : t[i] = t[j] => i = j
  <2>1. SUFFICES ASSUME NEW i \in 1 .. m, NEW j \in 1 .. m, t[i] = t[j] PROVE i = j
    OBVIOUS
  <2>2. skip[i] = skip[j]
    BY <1>2, <1>3, <1>7, <2>1
  <2>. QED
    BY <1>6, <2>2
<1>9. \A i \in 1 .. m : t[i] \in ids \ {g}
  BY <1>1, <1>2, <1>3, <1>4, <1>7
<1>10. t \in LineOf(ids \ {g})
  BY <1>5, <1>8, <1>9 DEF LineOf, IsInjective
<1>11. ToSet(t) = ToSet(s) \ {g}
  <2>1. \A x : x \in ToSet(t) <=> \E i \in 1 .. m : t[i] = x
    BY <1>5 DEF ToSet
  <2>2. \A x : x \in ToSet(s) <=> \E k \in 1 .. m + 1 : s[k] = x
    BY <1>1, <1>3
  <2>3. ASSUME NEW i \in 1 .. m PROVE t[i] # g /\ \E k \in 1 .. m + 1 : s[k] = t[i]
    BY <1>7, <1>9
  <2>4. ASSUME NEW k \in 1 .. m + 1, s[k] # g PROVE \E i \in 1 .. m : t[i] = s[k]
    <3>1. k # p
      BY <1>4, <2>4
    <3>. QED
      BY <1>7, <3>1
  <2>5. ASSUME NEW x PROVE x \in ToSet(t) <=> x \in ToSet(s) /\ x # g
    <3>1. CASE x \in ToSet(t)
      BY <2>1, <2>2, <2>3, <3>1, Zenon
    <3>2. CASE x \in ToSet(s) /\ x # g
      BY <2>1, <2>2, <2>4, <3>2, Zenon
    <3>. QED
      BY <3>1, <3>2
  <2>. QED
    BY <2>5
<1>12. /\ \A k \in Int : Entry(t, k) = IF k \in 1 .. m THEN t[k] ELSE NoGate
       /\ \A k \in Int : Entry(s, k) = IF k \in 1 .. m + 1 THEN s[k] ELSE NoGate
  BY <1>3, <1>5 DEF Entry
<1>13. \A k \in 1 .. m + 1 : s[k] # NoGate
  BY <1>1, <1>3
<1>14. Beside(s, g, 1) = Entry(s, p + 1) /\ Beside(s, g, -1) = Entry(s, p + -1)
  BY <1>4 DEF Beside
<1>15. \A k \in Int : Entry(t, k) = IF k < p THEN Entry(s, k) ELSE Entry(s, k + 1)
  BY <1>5, <1>12
<1>16. Entry(t, 1) = IF Beside(s, g, -1) = NoGate THEN Beside(s, g, 1) ELSE Entry(s, 1)
  <2>1. CASE p = 1
    BY <1>12, <1>14, <1>15, <2>1
  <2>2. CASE p # 1
    BY <1>12, <1>13, <1>14, <1>15, <2>2
  <2>. QED
    BY <2>1, <2>2
<1>17. Entry(t, Len(t)) =
           IF Beside(s, g, 1) = NoGate THEN Beside(s, g, -1) ELSE Entry(s, Len(s))
  <2>1. CASE p = m + 1
    BY <1>3, <1>5, <1>12, <1>14, <1>15, <2>1
  <2>2. CASE p # m + 1
    BY <1>3, <1>5, <1>12, <1>13, <1>14, <1>15, <2>2
  <2>. QED
    BY <2>1, <2>2
<1>18. ASSUME NEW h \in ToSet(s) \ {g}
       PROVE  /\ Beside(t, h, 1) = IF Beside(s, g, -1) = h THEN Beside(s, g, 1) ELSE Beside(s, h, 1)
              /\ Beside(t, h, -1) = IF Beside(s, g, 1) = h THEN Beside(s, g, -1) ELSE Beside(s, h, -1)
  <2>1. PICK k \in 1 .. m + 1 : s[k] = h /\ Place(s, h) = k /\ k # p
    BY <1>1, <1>3, <1>4
  <2>2. PICK i \in 1 .. m : skip[i] = k
    BY <1>7, <2>1
  <2>3. t[i] = h /\ Place(t, h) = i
    BY <1>5, <1>7, <1>8, <2>1, <2>2 DEF Place
  <2>4. /\ Beside(t, h, 1) = Entry(t, i + 1) /\ Beside(t, h, -1) = Entry(t, i + -1)
        /\ Beside(s, h, 1) = Entry(s, k + 1) /\ Beside(s, h, -1) = Entry(s, k + -1)
    BY <2>1, <2>3 DEF Beside
  <2>5. \A x \in Int : Entry(s, x) = h <=> x = k
    <3>1. \A x \in 1 .. m + 1 : s[x] = h => x = k
      BY <1>2, <1>3, <2>1
    <3>2. h # NoGate
      BY <1>13, <2>1
    <3>. QED
      BY <1>12, <2>1, <3>1, <3>2
  <2>6. /\ Beside(s, g, 1) = h <=> k = p + 1
        /\ Beside(s, g, -1) = h <=> k = p - 1
    BY <1>14, <2>5
  <2>7. i = IF k < p THEN k ELSE k - 1
    BY <1>6, <2>1, <2>2
  <2>8. Entry(t, i + 1) = IF k = p - 1 THEN Entry(s, p + 1) ELSE Entry(s, k + 1)
    BY <1>15, <2>1, <2>7
  <2>9. Entry(t, i + -1) = IF k = p + 1 THEN Entry(s, p + -1) ELSE Entry(s, k + -1)
    BY <1>15, <2>1, <2>7
  <2>. QED
    BY <1>14, <2>4, <2>6, <2>8, <2>9
<1>19. \A i, j \in DOMAIN t : i < j => \E a, b \in DOMAIN s : a < b /\ s[a] = t[i] /\ s[b] = t[j]
  <2>1. SUFFICES ASSUME NEW i \in 1 .. m, NEW j \in 1 .. m, i < j
                 PROVE  \E a, b \in DOMAIN s : a < b /\ s[a] = t[i] /\ s[b] = t[j]
    BY <1>5
  <2>2. skip[i] \in DOMAIN s /\ skip[j] \in DOMAIN s
    BY <1>3, <1>7
  <2>3. skip[i] < skip[j] /\ s[skip[i]] = t[i] /\ s[skip[j]] = t[j]
    BY <1>7, <2>1
  <2>. QED
    BY <2>2, <2>3
<1>. QED
  BY <1>10, <1>11, <1>16, <1>17, <1>18, <1>19, Zenon DEF Shortened

-----------------------------------------------------------------------------
(* Circuits as lines                                                       *)

\* Gates on n qubits, one qubit at least, and all different
GateSet(n) == {x \in [op : DOMAIN Adjoint, qubits : Seq(0 .. n - 1)] :
                  x.qubits # <<>> /\ IsInjective(x.qubits)}

\* What a QCir of n qubits can hold: gates gs by their ids
Circuits(n) == UNION {[ids -> GateSet(n)] : ids \in SUBSET Nat}

\* L has a line for each qubit, and on it the gates on the qubit.
Lined(n, gs, L) ==
    /\ DOMAIN L = 0 .. n - 1
    /\ \A q \in 0 .. n - 1 :
          /\ L[q] \in LineOf(DOMAIN gs)
          /\ \A g \in DOMAIN gs : g \in ToSet(L[q]) <=> q \in ToSet(gs[g].qubits)

\* The four maps that the lines give
LinksOf(gs, L, k) ==
    [g \in DOMAIN gs |-> [pin \in DOMAIN gs[g].qubits |-> Beside(L[gs[g].qubits[pin]], g, k)]]
StartsOf(L) == [q \in DOMAIN L |-> Entry(L[q], 1)]
EndsOf(L) == [q \in DOMAIN L |-> Entry(L[q], Len(L[q]))]

\* All lines go upwards.
Upwards(ids, L, rank) ==
    /\ DOMAIN rank = ids
    /\ \E lo, hi \in Int : \A g \in ids : rank[g] \in lo .. hi
    /\ \A q \in DOMAIN L : \A i, j \in DOMAIN L[q] : i < j => rank[L[q][i]] < rank[L[q][j]]

\* The gates gs, the ends of the qubits and the links of the gates are those of the lines L.
Wired(n, gs, L, starts, ends, before, behind) ==
    /\ Lined(n, gs, L)
    /\ starts = StartsOf(L) /\ ends = EndsOf(L)
    /\ before = LinksOf(gs, L, -1) /\ behind = LinksOf(gs, L, 1)
    /\ \E rank : Upwards(DOMAIN gs, L, rank)

\* What a circuit consists of
LEMMA CircuitGates ==
    ASSUME NEW n \in Nat, NEW gs \in Circuits(n)
    PROVE  /\ NoGate \notin DOMAIN gs
           /\ \A g \in DOMAIN gs :
                 /\ g \in Nat /\ gs[g] \in GateSet(n)
                 /\ gs[g].qubits \in Seq(0 .. n - 1) /\ gs[g].qubits # <<>>
                 /\ IsInjective(gs[g].qubits)
                 /\ \A pin \in DOMAIN gs[g].qubits :
                       /\ gs[g].qubits[pin] \in 0 .. n - 1
                       /\ gs[g].qubits[pin] \in ToSet(gs[g].qubits)
                       /\ PinByQubit(gs, g, gs[g].qubits[pin]) = pin
<1>1. PICK ids \in SUBSET Nat : gs \in [ids -> GateSet(n)]
  BY DEF Circuits
<1>2. DOMAIN gs = ids /\ NoGate \notin ids
  BY <1>1 DEF NoGate
<1>3. SUFFICES ASSUME NEW g \in ids
               PROVE  /\ g \in Nat /\ gs[g] \in GateSet(n)
                      /\ gs[g].qubits \in Seq(0 .. n - 1) /\ gs[g].qubits # <<>>
                      /\ IsInjective(gs[g].qubits)
                      /\ \A pin \in DOMAIN gs[g].qubits :
                            /\ gs[g].qubits[pin] \in 0 .. n - 1
                            /\ gs[g].qubits[pin] \in ToSet(gs[g].qubits)
                            /\ PinByQubit(gs, g, gs[g].qubits[pin]) = pin
  BY <1>1, <1>2
<1>4. g \in Nat /\ gs[g] \in GateSet(n)
  BY <1>1
<1>5. PICK bits : bits = gs[g].qubits
  OBVIOUS
<1>6. bits \in Seq(0 .. n - 1) /\ bits # <<>> /\ IsInjective(bits)
  BY <1>4, <1>5 DEF GateSet
<1>7. ASSUME NEW pin \in DOMAIN bits
      PROVE  bits[pin] \in 0 .. n - 1 /\ bits[pin] \in ToSet(bits)
             /\ PinByQubit(gs, g, bits[pin]) = pin
  <2>1. bits[pin] \in 0 .. n - 1
    BY <1>6
  <2>2. bits[pin] \in ToSet(bits)
    BY DEF ToSet
  <2>3. \A i, j \in DOMAIN bits : bits[i] = bits[j] => i = j
    BY <1>6 DEF IsInjective
  <2>4. PinByQubit(gs, g, bits[pin]) = CHOOSE i \in DOMAIN bits : bits[i] = bits[pin]
    BY <1>5 DEF PinByQubit
  <2>5. \A i \in DOMAIN bits : bits[i] = bits[pin] <=> i = pin
    BY <2>3
  <2>. QED
    BY <2>1, <2>2, <2>4, <2>5
<1>. QED
  BY <1>4, <1>5, <1>6, <1>7

\* The line of a pin holds its gate.
LEMMA OnItsLine ==
    ASSUME NEW n \in Nat, NEW gs \in Circuits(n), NEW L, Lined(n, gs, L),
           NEW g \in DOMAIN gs, NEW pin \in DOMAIN gs[g].qubits,
           NEW q, q = gs[g].qubits[pin]
    PROVE  /\ q \in 0 .. n - 1 /\ q \in ToSet(gs[g].qubits)
           /\ L[q] \in LineOf(DOMAIN gs) /\ g \in ToSet(L[q])
           /\ PinByQubit(gs, g, q) = pin
<1>1. q \in 0 .. n - 1 /\ q \in ToSet(gs[g].qubits) /\ PinByQubit(gs, g, q) = pin
  BY CircuitGates
<1>. QED
  BY <1>1 DEF Lined

\* What the four maps have for each qubit and each pin
Given(n, gs, L, starts, ends, before, behind) ==
    /\ starts = [q \in 0 .. n - 1 |-> starts[q]] /\ ends = [q \in 0 .. n - 1 |-> ends[q]]
    /\ before = [g \in DOMAIN gs |-> before[g]] /\ behind = [g \in DOMAIN gs |-> behind[g]]
    /\ \A q \in 0 .. n - 1 : starts[q] = Entry(L[q], 1) /\ ends[q] = Entry(L[q], Len(L[q]))
    /\ \A g \in DOMAIN gs :
          /\ before[g] = [pin \in DOMAIN gs[g].qubits |-> before[g][pin]]
          /\ behind[g] = [pin \in DOMAIN gs[g].qubits |-> behind[g][pin]]
          /\ \A pin \in DOMAIN gs[g].qubits :
                /\ before[g][pin] = Beside(L[gs[g].qubits[pin]], g, -1)
                /\ behind[g][pin] = Beside(L[gs[g].qubits[pin]], g, 1)

\* They are determined by that.
LEMMA WiredIf ==
    ASSUME NEW n \in Nat, NEW gs, NEW L, Lined(n, gs, L),
           NEW starts, NEW ends, NEW before, NEW behind,
           Given(n, gs, L, starts, ends, before, behind),
           \E rank : Upwards(DOMAIN gs, L, rank)
    PROVE  Wired(n, gs, L, starts, ends, before, behind)
<1>1. starts = StartsOf(L) /\ ends = EndsOf(L)
  BY Zenon DEF StartsOf, EndsOf, Lined, Given
<1>2. ASSUME NEW g \in DOMAIN gs
      PROVE  /\ before[g] = [pin \in DOMAIN gs[g].qubits |-> Beside(L[gs[g].qubits[pin]], g, -1)]
             /\ behind[g] = [pin \in DOMAIN gs[g].qubits |-> Beside(L[gs[g].qubits[pin]], g, 1)]
  BY Zenon DEF Given
<1>3. before = LinksOf(gs, L, -1) /\ behind = LinksOf(gs, L, 1)
  BY <1>2, Zenon DEF LinksOf, Given
<1>. QED
  BY <1>1, <1>3 DEF Wired

\* A circuit with one more gate
Added(n, gs, g, x, gs2) == /\ gs2 \in Circuits(n) /\ DOMAIN gs2 = DOMAIN gs \cup {g}
                           /\ gs2[g] = x /\ \A h \in DOMAIN gs : gs2[h] = gs[h]

LEMMA GateAdded ==
    ASSUME NEW n \in Nat, NEW gs \in Circuits(n), NEW x \in GateSet(n),
           NEW g \in Nat \ DOMAIN gs, NEW gs2, gs2 = WithEntry(gs, g, x)
    PROVE  Added(n, gs, g, x, gs2)
<1>1. /\ DOMAIN gs2 = DOMAIN gs \cup {g} /\ gs2[g] = x
      /\ \A h \in DOMAIN gs : gs2[h] = gs[h]
      /\ gs2 = [h \in DOMAIN gs2 |-> gs2[h]]
  BY DEF WithEntry
<1>2. PICK ids \in SUBSET Nat : gs \in [ids -> GateSet(n)]
  BY DEF Circuits
<1>3. gs2 \in [ids \cup {g} -> GateSet(n)]
  BY <1>1, <1>2
<1>4. ids \cup {g} \in SUBSET Nat
  BY <1>2
<1>. QED
  BY <1>1, <1>3, <1>4 DEF Added, Circuits

\* M are the lines L with g at the end of the lines bits.
AppendedTo(L, bits, g, M) ==
    M = [q \in DOMAIN L |-> IF q \in bits THEN Append(L[q], g) ELSE L[q]]

\* A gate at the end of its lines is above all others.
LEMMA AppendedGoesUp ==
    ASSUME NEW ids, NEW L, \A q \in DOMAIN L : L[q] \in LineOf(ids),
           NEW rank, Upwards(ids, L, rank), NEW g, g \notin ids, NEW bits,
           NEW M, AppendedTo(L, bits, g, M)
    PROVE  \E r : Upwards(ids \cup {g}, M, r)
<1>1. PICK lo \in Int, hi \in Int : \A h \in ids : rank[h] \in lo .. hi
  BY DEF Upwards
<1>2. PICK top \in Int : top > hi /\ top > lo
  <2>1. CASE hi >= lo
    BY <2>1, hi + 1 \in Int /\ hi + 1 > hi /\ hi + 1 > lo
  <2>2. CASE ~(hi >= lo)
    BY <2>2, lo + 1 \in Int /\ lo + 1 > hi /\ lo + 1 > lo
  <2>. QED
    BY <2>1, <2>2
<1>3. PICK r : r = [h \in ids \cup {g} |-> IF h = g THEN top ELSE rank[h]]
  OBVIOUS
<1>4. /\ DOMAIN r = ids \cup {g} /\ r[g] = top
      /\ \A h \in ids : r[h] = rank[h] /\ rank[h] \in Int /\ rank[h] < top
  BY <1>1, <1>2, <1>3
<1>5. \A h \in ids \cup {g} : r[h] \in lo .. top
  BY <1>1, <1>2, <1>4
<1>6. ASSUME NEW q \in DOMAIN M, NEW i \in DOMAIN M[q], NEW j \in DOMAIN M[q], i < j
      PROVE  r[M[q][i]] < r[M[q][j]]
  <2>1. q \in DOMAIN L /\ L[q] \in Seq(ids) /\ M[q] = IF q \in bits THEN Append(L[q], g) ELSE L[q]
    BY <1>6 DEF LineOf, AppendedTo
  <2>2. \A a, b \in DOMAIN L[q] : a < b => rank[L[q][a]] < rank[L[q][b]]
    BY <2>1 DEF Upwards
  <2>3. PICK s : s = L[q]
    OBVIOUS
  <2>4. s \in Seq(ids) /\ \A a, b \in DOMAIN s : a < b => rank[s[a]] < rank[s[b]]
    BY <2>1, <2>2, <2>3
  <2>5. \A a, b \in DOMAIN s : a < b => r[s[a]] < r[s[b]]
    BY <1>4, <2>4
  <2>6. CASE q \notin bits
    BY <1>6, <2>1, <2>3, <2>5, <2>6
  <2>7. CASE q \in bits
    <3>1. PICK t : t = M[q] /\ t = Append(s, g)
      BY <2>1, <2>3, <2>7
    <3>2. PICK n \in Nat : n = Len(s) /\ DOMAIN s = 1 .. n
      BY <2>4
    <3>3. DOMAIN t = 1 .. n + 1 /\ t[n + 1] = g /\ \A a \in 1 .. n : t[a] = s[a] /\ s[a] \in ids
      BY <2>4, <3>1, <3>2
    <3>4. i \in 1 .. n + 1 /\ j \in 1 .. n + 1 /\ i \in 1 .. n
      BY <1>6, <3>1, <3>3
    <3>5. CASE j = n + 1
      BY <1>4, <3>1, <3>3, <3>4, <3>5
    <3>6. CASE j # n + 1
      <4>1. j \in 1 .. n
        BY <3>4, <3>6
      <4>2. r[s[i]] < r[s[j]] /\ t[i] = s[i] /\ t[j] = s[j]
        BY <1>6, <2>5, <3>2, <3>3, <3>4, <4>1
      <4>. QED
        BY <3>1, <4>2
    <3>. QED
      BY <3>5, <3>6
  <2>. QED
    BY <2>6, <2>7
<1>7. \A q \in DOMAIN M : \A i, j \in DOMAIN M[q] : i < j => r[M[q][i]] < r[M[q][j]]
  BY <1>6
<1>8. \E l, u \in Int : \A h \in ids \cup {g} : r[h] \in l .. u
  BY <1>2, <1>5
<1>9. Upwards(ids \cup {g}, M, r)
  BY <1>4, <1>7, <1>8 DEF Upwards
<1>. QED
  BY <1>9

\* append links the gate at the end of its lines.
LEMMA AppendWired ==
    ASSUME NEW n \in Nat, NEW gs \in Circuits(n), NEW L,
           NEW starts, NEW ends, NEW before, NEW behind,
           Wired(n, gs, L, starts, ends, before, behind),
           NEW x \in GateSet(n), NEW g \in Nat \ DOMAIN gs, NEW gs2, Added(n, gs, g, x, gs2),
           NEW M, M = [q \in 0 .. n - 1 |-> IF q \in ToSet(x.qubits) THEN Append(L[q], g)
                                            ELSE L[q]]
    PROVE  Wired(n, gs2, M, AtEmpty(starts, g, x.qubits), AtEnd(ends, g, x.qubits),
                 LinkOutward(ends, before, g, x.qubits), LinkInward(gs, ends, behind, g, x.qubits))
<1>1. /\ gs2 \in Circuits(n) /\ DOMAIN gs2 = DOMAIN gs \cup {g} /\ gs2[g] = x
      /\ \A h \in DOMAIN gs : gs2[h] = gs[h]
  BY DEF Added
<1>2. /\ NoGate \notin DOMAIN gs /\ NoGate # g /\ NoGate \notin DOMAIN gs2
      /\ \A h \in DOMAIN gs : \A pin \in DOMAIN gs[h].qubits : gs[h].qubits[pin] \in 0 .. n - 1
      /\ \A pin \in DOMAIN x.qubits : /\ x.qubits[pin] \in 0 .. n - 1
                                      /\ x.qubits[pin] \in ToSet(x.qubits)
  BY <1>1, CircuitGates
<1>3. /\ Lined(n, gs, L) /\ DOMAIN L = 0 .. n - 1
      /\ starts = StartsOf(L) /\ ends = EndsOf(L)
      /\ before = LinksOf(gs, L, -1) /\ behind = LinksOf(gs, L, 1)
  BY DEF Wired, Lined
<1>4. PICK rank : Upwards(DOMAIN gs, L, rank)
  BY DEF Wired
<1>5. \A q \in 0 .. n - 1 :
          /\ L[q] \in LineOf(DOMAIN gs)
          /\ \A h \in DOMAIN gs : h \in ToSet(L[q]) <=> q \in ToSet(gs[h].qubits)
  BY <1>3 DEF Lined
<1>6. \A q \in 0 .. n - 1 : ToSet(L[q]) \subseteq DOMAIN gs /\ g \notin ToSet(L[q])
  <2>1. SUFFICES ASSUME NEW q \in 0 .. n - 1
                 PROVE  ToSet(L[q]) \subseteq DOMAIN gs /\ g \notin ToSet(L[q])
    OBVIOUS
  <2>2. L[q] \in Seq(DOMAIN gs)
    BY <1>5 DEF LineOf
  <2>. QED
    BY <2>2 DEF ToSet
<1>7. \A q \in 0 .. n - 1 : q \in ToSet(x.qubits) => Lengthened(DOMAIN gs, L[q], g, M[q])
  BY <1>2, <1>5, <1>6, LineAppended
<1>8. \A q \in 0 .. n - 1 : q \notin ToSet(x.qubits) => M[q] = L[q]
  OBVIOUS
<1>9. Lined(n, gs2, M)
  <2>1. SUFFICES ASSUME NEW q \in 0 .. n - 1
                 PROVE  /\ M[q] \in LineOf(DOMAIN gs2)
                        /\ \A h \in DOMAIN gs2 : h \in ToSet(M[q]) <=> q \in ToSet(gs2[h].qubits)
    BY DEF Lined
  <2>2. CASE q \in ToSet(x.qubits)
    <3>1. M[q] \in LineOf(DOMAIN gs \cup {g}) /\ ToSet(M[q]) = ToSet(L[q]) \cup {g}
      BY <1>7, <2>2 DEF Lengthened
    <3>. QED
      BY <1>1, <1>5, <2>2, <3>1
  <2>3. CASE q \notin ToSet(x.qubits)
    <3>1. LineOf(DOMAIN gs) \subseteq LineOf(DOMAIN gs2)
      BY <1>1 DEF LineOf
    <3>. QED
      BY <1>1, <1>5, <1>6, <1>8, <2>3, <3>1
  <2>. QED
    BY <2>2, <2>3
<1>10. \E r : Upwards(DOMAIN gs2, M, r)
  <2>1. AppendedTo(L, ToSet(x.qubits), g, M)
    BY <1>3 DEF AppendedTo
  <2>2. \A q \in DOMAIN L : L[q] \in LineOf(DOMAIN gs)
    BY <1>3, <1>5
  <2>. QED
    <3>1. g \notin DOMAIN gs
      OBVIOUS
    <3>2. \E r : Upwards(DOMAIN gs \cup {g}, M, r)
      BY <1>4, <2>1, <2>2, <3>1, AppendedGoesUp, Zenon
    <3>. QED
      BY <1>1, <3>2
<1>11. PICK st, en, be, bh : /\ st = AtEmpty(starts, g, x.qubits) /\ en = AtEnd(ends, g, x.qubits)
                             /\ be = LinkOutward(ends, before, g, x.qubits)
                             /\ bh = LinkInward(gs, ends, behind, g, x.qubits)
  OBVIOUS
<1>12. /\ st = [q \in 0 .. n - 1 |-> st[q]] /\ en = [q \in 0 .. n - 1 |-> en[q]]
       /\ \A q \in 0 .. n - 1 : st[q] = Entry(M[q], 1) /\ en[q] = Entry(M[q], Len(M[q]))
  <2>1. /\ DOMAIN starts = 0 .. n - 1 /\ DOMAIN ends = 0 .. n - 1
        /\ \A q \in 0 .. n - 1 : starts[q] = Entry(L[q], 1) /\ ends[q] = Entry(L[q], Len(L[q]))
    BY <1>3 DEF StartsOf, EndsOf
  <2>2. /\ st = [q \in 0 .. n - 1 |-> IF q \in ToSet(x.qubits) /\ starts[q] = NoGate THEN g
                                      ELSE starts[q]]
        /\ en = [q \in 0 .. n - 1 |-> IF q \in ToSet(x.qubits) THEN g ELSE ends[q]]
    BY <1>11, <2>1 DEF AtEmpty, AtEnd
  <2>3. ASSUME NEW q \in 0 .. n - 1
        PROVE  st[q] = Entry(M[q], 1) /\ en[q] = Entry(M[q], Len(M[q]))
    <3>1. CASE q \in ToSet(x.qubits)
      BY <1>7, <2>1, <2>2, <3>1 DEF Lengthened
    <3>2. CASE q \notin ToSet(x.qubits)
      BY <1>8, <2>1, <2>2, <3>2
    <3>. QED
      BY <3>1, <3>2
  <2>. QED
    BY <2>2, <2>3
<1>13. /\ be = [h \in DOMAIN gs2 |-> IF h = g THEN [pin \in DOMAIN x.qubits |-> ends[x.qubits[pin]]]
                                     ELSE before[h]]
       /\ bh = [h \in DOMAIN gs2 |->
                   IF h = g THEN [pin \in DOMAIN x.qubits |-> NoGate]
                   ELSE [pin \in DOMAIN gs[h].qubits |->
                            IF gs[h].qubits[pin] \in ToSet(x.qubits) /\ ends[gs[h].qubits[pin]] = h
                            THEN g ELSE behind[h][pin]]]
  <2>1. DOMAIN before = DOMAIN gs
    BY <1>3 DEF LinksOf
  <2>. QED
    BY <1>1, <1>11, <2>1 DEF LinkOutward, LinkInward, WithEntry
<1>14. \A q \in 0 .. n - 1 : ends[q] = Entry(L[q], Len(L[q]))
  BY <1>3 DEF EndsOf
<1>15. ASSUME NEW h \in DOMAIN gs2
       PROVE  /\ be[h] = [pin \in DOMAIN gs2[h].qubits |-> be[h][pin]]
              /\ bh[h] = [pin \in DOMAIN gs2[h].qubits |-> bh[h][pin]]
              /\ \A pin \in DOMAIN gs2[h].qubits :
                    /\ be[h][pin] = Beside(M[gs2[h].qubits[pin]], h, -1)
                    /\ bh[h][pin] = Beside(M[gs2[h].qubits[pin]], h, 1)
  <2>1. CASE h = g
    <3>1. /\ gs2[h].qubits = x.qubits
          /\ be[h] = [pin \in DOMAIN x.qubits |-> ends[x.qubits[pin]]]
          /\ bh[h] = [pin \in DOMAIN x.qubits |-> NoGate]
      BY <1>1, <1>13, <2>1
    <3>2. ASSUME NEW pin \in DOMAIN x.qubits
          PROVE  /\ be[h][pin] = Beside(M[x.qubits[pin]], h, -1)
                 /\ bh[h][pin] = Beside(M[x.qubits[pin]], h, 1)
      <4>1. PICK q \in 0 .. n - 1 : q = x.qubits[pin] /\ q \in ToSet(x.qubits)
        BY <1>2
      <4>2. Beside(M[q], g, 1) = NoGate /\ Beside(M[q], g, -1) = Entry(L[q], Len(L[q]))
        BY <1>7, <4>1 DEF Lengthened
      <4>. QED
        BY <1>14, <2>1, <3>1, <4>1, <4>2
    <3>. QED
      BY <3>1, <3>2
  <2>2. CASE h # g
    <3>1. /\ h \in DOMAIN gs /\ gs2[h] = gs[h] /\ be[h] = before[h]
          /\ before[h] = [pin \in DOMAIN gs[h].qubits |-> Beside(L[gs[h].qubits[pin]], h, -1)]
          /\ behind[h] = [pin \in DOMAIN gs[h].qubits |-> Beside(L[gs[h].qubits[pin]], h, 1)]
          /\ bh[h] = [pin \in DOMAIN gs[h].qubits |->
                         IF gs[h].qubits[pin] \in ToSet(x.qubits) /\ ends[gs[h].qubits[pin]] = h
                         THEN g ELSE behind[h][pin]]
      BY <1>1, <1>3, <1>13, <2>2 DEF LinksOf
    <3>2. ASSUME NEW pin \in DOMAIN gs[h].qubits
          PROVE  /\ be[h][pin] = Beside(M[gs[h].qubits[pin]], h, -1)
                 /\ bh[h][pin] = Beside(M[gs[h].qubits[pin]], h, 1)
      <4>1. PICK q \in 0 .. n - 1 : q = gs[h].qubits[pin]
        BY <1>2, <3>1
      <4>2. h \in ToSet(L[q])
        BY <1>3, <3>1, <4>1, OnItsLine
      <4>3. be[h][pin] = Beside(L[q], h, -1)
        BY <3>1, <4>1
      <4>4. bh[h][pin] = IF q \in ToSet(x.qubits) /\ ends[q] = h THEN g ELSE Beside(L[q], h, 1)
        BY <3>1, <4>1
      <4>5. CASE q \in ToSet(x.qubits)
        <5>1. /\ Beside(M[q], h, 1) = IF Entry(L[q], Len(L[q])) = h THEN g ELSE Beside(L[q], h, 1)
              /\ Beside(M[q], h, -1) = Beside(L[q], h, -1)
          BY <1>7, <4>2, <4>5 DEF Lengthened
        <5>2. ends[q] = Entry(L[q], Len(L[q]))
          BY <1>14
        <5>. QED
          BY <4>1, <4>3, <4>4, <4>5, <5>1, <5>2
      <4>6. CASE q \notin ToSet(x.qubits)
        BY <1>8, <4>1, <4>3, <4>4, <4>6
      <4>. QED
        BY <4>5, <4>6
    <3>. QED
      BY <3>1, <3>2
  <2>. QED
    BY <2>1, <2>2
<1>16. be = [h \in DOMAIN gs2 |-> be[h]] /\ bh = [h \in DOMAIN gs2 |-> bh[h]]
  BY <1>13
<1>17. Given(n, gs2, M, st, en, be, bh)
  BY <1>12, <1>15, <1>16, Zenon DEF Given
<1>18. Wired(n, gs2, M, st, en, be, bh)
  BY <1>9, <1>10, <1>17, WiredIf
<1>. QED
  BY <1>11, <1>18

-----------------------------------------------------------------------------
(* Circuits read from their end                                            *)

TurnedLines(L) == [q \in DOMAIN L |-> Reverse(L[q])]

\* What goes upwards goes down from its end.
LEMMA TurnedGoesUp ==
    ASSUME NEW ids, NEW L, \A q \in DOMAIN L : L[q] \in LineOf(ids),
           NEW rank, Upwards(ids, L, rank)
    PROVE  \E r : Upwards(ids, TurnedLines(L), r)
<1>1. PICK lo \in Int, hi \in Int : \A g \in ids : rank[g] \in lo .. hi
  BY DEF Upwards
<1>2. PICK r : r = [g \in ids |-> -rank[g]]
  OBVIOUS
<1>3. DOMAIN r = ids /\ \A g \in ids : rank[g] \in Int /\ r[g] = -rank[g]
  BY <1>1, <1>2
<1>4. \E l, u \in Int : \A g \in ids : r[g] \in l .. u
  <2>1. \A g \in ids : r[g] \in -hi .. -lo
    BY <1>1, <1>3
  <2>. QED
    BY <2>1
<1>5. ASSUME NEW q \in DOMAIN TurnedLines(L), NEW i \in DOMAIN TurnedLines(L)[q],
             NEW j \in DOMAIN TurnedLines(L)[q], i < j
      PROVE  r[TurnedLines(L)[q][i]] < r[TurnedLines(L)[q][j]]
  <2>1. PICK s : s = L[q]
    OBVIOUS
  <2>2. q \in DOMAIN L /\ s \in Seq(ids) /\ TurnedLines(L)[q] = Reverse(s)
    BY <2>1 DEF TurnedLines, LineOf
  <2>3. \A a, b \in DOMAIN s : a < b => rank[s[a]] < rank[s[b]]
    BY <2>1, <2>2 DEF Upwards
  <2>4. PICK m \in Nat : m = Len(s) /\ DOMAIN s = 1 .. m
    BY <2>2
  <2>5. PICK t : t = Reverse(s)
    OBVIOUS
  <2>6. DOMAIN t = 1 .. m /\ \A a \in 1 .. m : t[a] = s[m - a + 1]
    BY <2>4, <2>5 DEF Reverse
  <2>7. /\ i \in 1 .. m /\ j \in 1 .. m /\ m - j + 1 \in 1 .. m /\ m - i + 1 \in 1 .. m
        /\ m - j + 1 < m - i + 1
    BY <1>5, <2>2, <2>5, <2>6
  <2>8. rank[t[j]] < rank[t[i]] /\ t[i] \in ids /\ t[j] \in ids
    <3>1. PICK a \in 1 .. m, b \in 1 .. m : a = m - j + 1 /\ b = m - i + 1 /\ a < b
      BY <2>7
    <3>2. t[j] = s[a] /\ t[i] = s[b]
      BY <2>6, <2>7, <3>1
    <3>3. rank[s[a]] < rank[s[b]] /\ s[a] \in ids /\ s[b] \in ids
      BY <2>2, <2>3, <2>4, <3>1
    <3>. QED
      BY <3>2, <3>3
  <2>9. r[t[i]] < r[t[j]]
    BY <1>3, <2>8
  <2>. QED
    BY <2>2, <2>5, <2>9
<1>6. \A q \in DOMAIN TurnedLines(L) : \A i, j \in DOMAIN TurnedLines(L)[q] :
          i < j => r[TurnedLines(L)[q][i]] < r[TurnedLines(L)[q][j]]
  BY <1>5
<1>. QED
  BY <1>3, <1>4, <1>6 DEF Upwards

\* The operations may change.
SameQubits(n, gs, gs2) == /\ gs2 \in Circuits(n) /\ DOMAIN gs2 = DOMAIN gs
                          /\ \A g \in DOMAIN gs : gs2[g].qubits = gs[g].qubits

\* adjoint_inplace exchanges the ends and the links.
LEMMA WiredTurned ==
    ASSUME NEW n \in Nat, NEW gs \in Circuits(n), NEW L,
           NEW starts, NEW ends, NEW before, NEW behind,
           Wired(n, gs, L, starts, ends, before, behind),
           NEW gs2, SameQubits(n, gs, gs2)
    PROVE  Wired(n, gs2, TurnedLines(L), ends, starts, behind, before)
<1>1. /\ gs2 \in Circuits(n) /\ DOMAIN gs2 = DOMAIN gs
      /\ \A g \in DOMAIN gs : gs2[g].qubits = gs[g].qubits
  BY DEF SameQubits
<1>2. /\ Lined(n, gs, L) /\ DOMAIN L = 0 .. n - 1
      /\ starts = StartsOf(L) /\ ends = EndsOf(L)
      /\ before = LinksOf(gs, L, -1) /\ behind = LinksOf(gs, L, 1)
  BY DEF Wired, Lined
<1>3. \A q \in 0 .. n - 1 :
          /\ L[q] \in LineOf(DOMAIN gs)
          /\ \A h \in DOMAIN gs : h \in ToSet(L[q]) <=> q \in ToSet(gs[h].qubits)
  BY <1>2 DEF Lined
<1>4. PICK M : M = TurnedLines(L)
  OBVIOUS
<1>5. DOMAIN M = 0 .. n - 1 /\ \A q \in 0 .. n - 1 : M[q] = Reverse(L[q])
  BY <1>2, <1>4 DEF TurnedLines
<1>6. \A q \in 0 .. n - 1 : Turned(DOMAIN gs, L[q], M[q])
  BY <1>3, <1>5, LineReversed
<1>7. Lined(n, gs2, M)
  <2>1. SUFFICES ASSUME NEW q \in 0 .. n - 1
                 PROVE  /\ M[q] \in LineOf(DOMAIN gs2)
                        /\ \A h \in DOMAIN gs2 : h \in ToSet(M[q]) <=> q \in ToSet(gs2[h].qubits)
    BY <1>5 DEF Lined
  <2>2. M[q] \in LineOf(DOMAIN gs) /\ ToSet(M[q]) = ToSet(L[q])
    BY <1>6 DEF Turned
  <2>. QED
    BY <1>1, <1>3, <2>2
<1>8. \E r : Upwards(DOMAIN gs2, M, r)
  <2>1. PICK rank : Upwards(DOMAIN gs, L, rank)
    BY DEF Wired
  <2>2. \A q \in DOMAIN L : L[q] \in LineOf(DOMAIN gs)
    BY <1>2, <1>3
  <2>3. \E r : Upwards(DOMAIN gs, TurnedLines(L), r)
    BY <2>1, <2>2, TurnedGoesUp, Zenon
  <2>. QED
    BY <1>1, <1>4, <2>3
<1>9. \A q \in 0 .. n - 1 : /\ Entry(M[q], 1) = Entry(L[q], Len(L[q]))
                            /\ Entry(M[q], Len(M[q])) = Entry(L[q], 1)
  BY <1>6 DEF Turned
<1>10. /\ ends = [q \in 0 .. n - 1 |-> ends[q]] /\ starts = [q \in 0 .. n - 1 |-> starts[q]]
       /\ \A q \in 0 .. n - 1 : ends[q] = Entry(M[q], 1) /\ starts[q] = Entry(M[q], Len(M[q]))
  BY <1>2, <1>9 DEF StartsOf, EndsOf
<1>11. before = [g \in DOMAIN gs2 |-> before[g]] /\ behind = [g \in DOMAIN gs2 |-> behind[g]]
  BY <1>1, <1>2 DEF LinksOf
<1>12. ASSUME NEW g \in DOMAIN gs2
       PROVE  /\ behind[g] = [pin \in DOMAIN gs2[g].qubits |-> behind[g][pin]]
              /\ before[g] = [pin \in DOMAIN gs2[g].qubits |-> before[g][pin]]
              /\ \A pin \in DOMAIN gs2[g].qubits :
                    /\ behind[g][pin] = Beside(M[gs2[g].qubits[pin]], g, -1)
                    /\ before[g][pin] = Beside(M[gs2[g].qubits[pin]], g, 1)
  <2>1. /\ g \in DOMAIN gs /\ gs2[g].qubits = gs[g].qubits
        /\ before[g] = [pin \in DOMAIN gs[g].qubits |-> Beside(L[gs[g].qubits[pin]], g, -1)]
        /\ behind[g] = [pin \in DOMAIN gs[g].qubits |-> Beside(L[gs[g].qubits[pin]], g, 1)]
    BY <1>1, <1>2 DEF LinksOf
  <2>2. ASSUME NEW pin \in DOMAIN gs[g].qubits
        PROVE  /\ behind[g][pin] = Beside(M[gs[g].qubits[pin]], g, -1)
               /\ before[g][pin] = Beside(M[gs[g].qubits[pin]], g, 1)
    <3>1. PICK q : q = gs[g].qubits[pin]
      OBVIOUS
    <3>2. q \in 0 .. n - 1 /\ g \in ToSet(L[q])
      BY <1>2, <2>1, <3>1, OnItsLine
    <3>3. Beside(M[q], g, 1) = Beside(L[q], g, -1) /\ Beside(M[q], g, -1) = Beside(L[q], g, 1)
      BY <1>6, <3>2 DEF Turned
    <3>. QED
      BY <2>1, <3>1, <3>3
  <2>. QED
    BY <2>1, <2>2
<1>13. Given(n, gs2, M, ends, starts, behind, before)
  BY <1>10, <1>11, <1>12, Zenon DEF Given
<1>. QED
  BY <1>4, <1>7, <1>8, <1>13, WiredIf

\* prepend is append to the circuit read from its end.
LEMMA PrependWired ==
    ASSUME NEW n \in Nat, NEW gs \in Circuits(n), NEW L,
           NEW starts, NEW ends, NEW before, NEW behind,
           Wired(n, gs, L, starts, ends, before, behind),
           NEW x \in GateSet(n), NEW g \in Nat \ DOMAIN gs, NEW gs2, Added(n, gs, g, x, gs2),
           NEW M, M = [q \in 0 .. n - 1 |-> IF q \in ToSet(x.qubits) THEN <<g>> \o L[q] ELSE L[q]]
    PROVE  Wired(n, gs2, M, AtEnd(starts, g, x.qubits), AtEmpty(ends, g, x.qubits),
                 LinkInward(gs, starts, before, g, x.qubits), LinkOutward(starts, behind, g, x.qubits))
<1>1. PICK T, N : /\ T = TurnedLines(L)
                  /\ N = [q \in 0 .. n - 1 |-> IF q \in ToSet(x.qubits) THEN Append(T[q], g)
                                               ELSE T[q]]
  OBVIOUS
<1>2. SameQubits(n, gs, gs)
  BY DEF SameQubits
<1>3. Wired(n, gs, T, ends, starts, behind, before)
  BY <1>1, <1>2, WiredTurned
<1>4. Wired(n, gs2, N, AtEmpty(ends, g, x.qubits), AtEnd(starts, g, x.qubits),
            LinkOutward(starts, behind, g, x.qubits), LinkInward(gs, starts, before, g, x.qubits))
  BY <1>1, <1>3, AppendWired
<1>5. gs2 \in Circuits(n) /\ SameQubits(n, gs2, gs2)
  BY DEF Added, SameQubits
<1>6. Wired(n, gs2, TurnedLines(N), AtEnd(starts, g, x.qubits), AtEmpty(ends, g, x.qubits),
            LinkInward(gs, starts, before, g, x.qubits), LinkOutward(starts, behind, g, x.qubits))
  BY <1>4, <1>5, WiredTurned
<1>7. TurnedLines(N) = M
  <2>1. DOMAIN L = 0 .. n - 1 /\ \A q \in 0 .. n - 1 : L[q] \in LineOf(DOMAIN gs)
    BY DEF Wired, Lined
  <2>2. NoGate \notin DOMAIN gs
    BY CircuitGates
  <2>3. \A q \in 0 .. n - 1 : g \notin ToSet(L[q])
    BY <2>1, PlaceOnLine
  <2>4. ASSUME NEW q \in 0 .. n - 1 PROVE Reverse(N[q]) = M[q]
    <3>1. T[q] = Reverse(L[q]) /\ L[q] \in LineOf(DOMAIN gs)
      BY <1>1, <2>1 DEF TurnedLines
    <3>2. CASE q \notin ToSet(x.qubits)
      BY <1>1, <3>1, <3>2, LineReversed DEF Turned
    <3>3. CASE q \in ToSet(x.qubits)
      <4>1. PICK t : t = <<g>> \o L[q]
        OBVIOUS
      <4>2. Headed(DOMAIN gs, L[q], g, t)
        BY <2>2, <2>3, <3>1, <4>1, LinePrepended
      <4>3. N[q] = Reverse(t) /\ t \in LineOf(DOMAIN gs \cup {g})
        BY <1>1, <3>1, <3>3, <4>2 DEF Headed
      <4>4. Reverse(Reverse(t)) = t
        BY <4>3, LineReversed DEF Turned
      <4>. QED
        BY <3>3, <4>1, <4>3, <4>4
    <3>. QED
      BY <3>2, <3>3
  <2>5. TurnedLines(N) = [q \in 0 .. n - 1 |-> Reverse(N[q])]
    BY <1>1 DEF TurnedLines
  <2>. QED
    BY <2>4, <2>5
<1>. QED
  BY <1>6, <1>7

-----------------------------------------------------------------------------
(* A gate less                                                             *)

\* M are the lines L without g.
RemovedFrom(L, g, M) ==
    M = [q \in DOMAIN L |-> IF g \in ToSet(L[q]) THEN RemoveAt(L[q], Place(L[q], g)) ELSE L[q]]

\* What is left still goes upwards.
LEMMA ShortenedGoesUp ==
    ASSUME NEW ids, NoGate \notin ids, NEW L, \A q \in DOMAIN L : L[q] \in LineOf(ids),
           NEW rank, Upwards(ids, L, rank), NEW g \in ids, NEW M, RemovedFrom(L, g, M)
    PROVE  \E r : Upwards(ids \ {g}, M, r)
<1>1. PICK lo \in Int, hi \in Int : \A h \in ids : rank[h] \in lo .. hi
  BY DEF Upwards
<1>2. PICK r : r = [h \in ids \ {g} |-> rank[h]]
  OBVIOUS
<1>3. \A h \in ids \ {g} : r[h] = rank[h] /\ r[h] \in lo .. hi
  BY <1>1, <1>2
<1>4. ASSUME NEW q \in DOMAIN M, NEW i \in DOMAIN M[q], NEW j \in DOMAIN M[q], i < j
      PROVE  r[M[q][i]] < r[M[q][j]]
  <2>1. PICK s, t : s = L[q] /\ t = M[q]
    OBVIOUS
  <2>2. /\ q \in DOMAIN L /\ s \in LineOf(ids)
        /\ t = IF g \in ToSet(s) THEN RemoveAt(s, Place(s, g)) ELSE s
    BY <2>1 DEF RemovedFrom
  <2>3. \A a, b \in DOMAIN s : a < b => rank[s[a]] < rank[s[b]]
    BY <2>1, <2>2 DEF Upwards
  <2>4. t \in LineOf(ids \ {g}) /\ \E a, b \in DOMAIN s : a < b /\ s[a] = t[i] /\ s[b] = t[j]
    <3>1. CASE g \in ToSet(s)
      <4>1. Shortened(ids, s, g, t)
        BY <2>2, <3>1, LineWithout
      <4>. QED
        BY <1>4, <2>1, <4>1 DEF Shortened
    <3>2. CASE g \notin ToSet(s)
      <4>1. t = s /\ s \in Seq(ids) /\ IsInjective(s) /\ \A a \in DOMAIN s : s[a] # g
        BY <2>2, <3>2 DEF LineOf, ToSet
      <4>2. s \in Seq(ids \ {g})
        BY <4>1
      <4>. QED
        BY <1>4, <2>1, <4>1, <4>2 DEF LineOf
    <3>. QED
      BY <3>1, <3>2
  <2>5. t \in Seq(ids \ {g}) /\ i \in DOMAIN t /\ j \in DOMAIN t
    BY <1>4, <2>1, <2>4 DEF LineOf
  <2>6. t[i] \in ids \ {g} /\ t[j] \in ids \ {g}
    BY <2>5
  <2>7. rank[t[i]] < rank[t[j]]
    BY <2>3, <2>4
  <2>. QED
    BY <1>3, <2>1, <2>6, <2>7
<1>5. \A q \in DOMAIN M : \A i, j \in DOMAIN M[q] : i < j => r[M[q][i]] < r[M[q][j]]
  BY <1>4
<1>6. DOMAIN r = ids \ {g} /\ \E l, u \in Int : \A h \in ids \ {g} : r[h] \in l .. u
  BY <1>2, <1>3
<1>. QED
  BY <1>5, <1>6 DEF Upwards

\* remove_gate links what was before the gate to what was behind it.
LEMMA RemoveWired ==
    ASSUME NEW n \in Nat, NEW gs \in Circuits(n), NEW L,
           NEW starts, NEW ends, NEW before, NEW behind,
           Wired(n, gs, L, starts, ends, before, behind),
           NEW g \in DOMAIN gs, NEW gs2, gs2 = [h \in DOMAIN gs \ {g} |-> gs[h]],
           NEW M, RemovedFrom(L, g, M)
    PROVE  /\ gs2 \in Circuits(n)
           /\ Wired(n, gs2, M,
                    EndsWithout(gs, g, starts, before, behind), EndsWithout(gs, g, ends, behind, before),
                    Bridge(gs, g, behind, before), Bridge(gs, g, before, behind))
<1>1. gs2 \in Circuits(n) /\ DOMAIN gs2 = DOMAIN gs \ {g} /\ \A h \in DOMAIN gs2 : gs2[h] = gs[h]
  <2>1. PICK ids \in SUBSET Nat : gs \in [ids -> GateSet(n)]
    BY DEF Circuits
  <2>2. gs2 \in [ids \ {g} -> GateSet(n)] /\ ids \ {g} \in SUBSET Nat
    BY <2>1
  <2>. QED
    BY <2>2 DEF Circuits
<1>2. /\ Lined(n, gs, L) /\ DOMAIN L = 0 .. n - 1
      /\ starts = StartsOf(L) /\ ends = EndsOf(L)
      /\ before = LinksOf(gs, L, -1) /\ behind = LinksOf(gs, L, 1)
  BY DEF Wired, Lined
<1>3. \A q \in 0 .. n - 1 :
          /\ L[q] \in LineOf(DOMAIN gs)
          /\ \A h \in DOMAIN gs : h \in ToSet(L[q]) <=> q \in ToSet(gs[h].qubits)
  BY <1>2 DEF Lined
<1>4. NoGate \notin DOMAIN gs
  BY CircuitGates
<1>5. \A q \in 0 .. n - 1 : g \in ToSet(L[q]) => Shortened(DOMAIN gs, L[q], g, M[q])
  BY <1>2, <1>3, <1>4, LineWithout DEF RemovedFrom
<1>6. \A q \in 0 .. n - 1 : g \notin ToSet(L[q]) => M[q] = L[q]
  BY <1>2 DEF RemovedFrom
<1>7. Lined(n, gs2, M)
  <2>1. SUFFICES ASSUME NEW q \in 0 .. n - 1
                 PROVE  /\ M[q] \in LineOf(DOMAIN gs2)
                        /\ \A h \in DOMAIN gs2 : h \in ToSet(M[q]) <=> q \in ToSet(gs2[h].qubits)
    BY <1>2 DEF Lined, RemovedFrom
  <2>2. M[q] \in LineOf(DOMAIN gs2) /\ ToSet(M[q]) = ToSet(L[q]) \ {g}
    <3>1. CASE g \in ToSet(L[q])
      BY <1>1, <1>5, <3>1 DEF Shortened
    <3>2. CASE g \notin ToSet(L[q])
      <4>1. PICK s : s = L[q] /\ s = M[q]
        BY <1>6, <3>2
      <4>2. s \in Seq(DOMAIN gs) /\ IsInjective(s) /\ \A a \in DOMAIN s : s[a] # g
        BY <1>3, <3>2, <4>1 DEF LineOf, ToSet
      <4>3. s \in Seq(DOMAIN gs2)
        BY <1>1, <4>2
      <4>. QED
        BY <3>2, <4>1, <4>2, <4>3 DEF LineOf
    <3>. QED
      BY <3>1, <3>2
  <2>. QED
    BY <1>1, <1>3, <2>2
<1>8. \E r : Upwards(DOMAIN gs2, M, r)
  <2>1. PICK rank : Upwards(DOMAIN gs, L, rank)
    BY DEF Wired
  <2>2. \A q \in DOMAIN L : L[q] \in LineOf(DOMAIN gs)
    BY <1>2, <1>3
  <2>3. \E r : Upwards(DOMAIN gs \ {g}, M, r)
    BY <1>4, <2>1, <2>2, ShortenedGoesUp, Zenon
  <2>. QED
    BY <1>1, <2>3
<1>9. ASSUME NEW h \in DOMAIN gs, NEW pin \in DOMAIN gs[h].qubits, NEW q, q = gs[h].qubits[pin]
      PROVE  /\ q \in 0 .. n - 1 /\ h \in ToSet(L[q]) /\ q \in ToSet(gs[h].qubits)
             /\ PinByQubit(gs, h, q) = pin
             /\ before[h][pin] = Beside(L[q], h, -1) /\ behind[h][pin] = Beside(L[q], h, 1)
  <2>1. q \in 0 .. n - 1 /\ h \in ToSet(L[q]) /\ q \in ToSet(gs[h].qubits) /\ PinByQubit(gs, h, q) = pin
    BY <1>2, <1>9, OnItsLine
  <2>2. before[h][pin] = Beside(L[q], h, -1) /\ behind[h][pin] = Beside(L[q], h, 1)
    BY <1>2, <1>9 DEF LinksOf
  <2>. QED
    BY <2>1, <2>2
<1>10. /\ DOMAIN before[g] = DOMAIN gs[g].qubits /\ DOMAIN behind[g] = DOMAIN gs[g].qubits
  BY <1>2 DEF LinksOf
<1>11. ASSUME NEW q \in ToSet(gs[g].qubits)
       PROVE  /\ q \in 0 .. n - 1 /\ g \in ToSet(L[q])
              /\ PinByQubit(gs, g, q) \in DOMAIN gs[g].qubits
              /\ gs[g].qubits[PinByQubit(gs, g, q)] = q
              /\ before[g][PinByQubit(gs, g, q)] = Beside(L[q], g, -1)
              /\ behind[g][PinByQubit(gs, g, q)] = Beside(L[q], g, 1)
  <2>1. PICK pin \in DOMAIN gs[g].qubits : q = gs[g].qubits[pin]
    BY <1>11 DEF ToSet
  <2>. QED
    BY <1>9, <2>1
<1>12. PICK st, en, be, bh : /\ st = EndsWithout(gs, g, starts, before, behind)
                             /\ en = EndsWithout(gs, g, ends, behind, before)
                             /\ be = Bridge(gs, g, behind, before)
                             /\ bh = Bridge(gs, g, before, behind)
  OBVIOUS
<1>13. /\ st = [q \in 0 .. n - 1 |-> st[q]] /\ en = [q \in 0 .. n - 1 |-> en[q]]
       /\ \A q \in 0 .. n - 1 : st[q] = Entry(M[q], 1) /\ en[q] = Entry(M[q], Len(M[q]))
  <2>1. /\ DOMAIN starts = 0 .. n - 1 /\ DOMAIN ends = 0 .. n - 1
        /\ \A q \in 0 .. n - 1 : starts[q] = Entry(L[q], 1) /\ ends[q] = Entry(L[q], Len(L[q]))
    BY <1>2 DEF StartsOf, EndsOf
  <2>2. /\ st = [q \in 0 .. n - 1 |-> st[q]] /\ en = [q \in 0 .. n - 1 |-> en[q]]
        /\ \A q \in 0 .. n - 1 :
              /\ st[q] = IF q \in ToSet(gs[g].qubits) /\ before[g][PinByQubit(gs, g, q)] = NoGate
                         THEN behind[g][PinByQubit(gs, g, q)] ELSE starts[q]
              /\ en[q] = IF q \in ToSet(gs[g].qubits) /\ behind[g][PinByQubit(gs, g, q)] = NoGate
                         THEN before[g][PinByQubit(gs, g, q)] ELSE ends[q]
    BY <1>12, <2>1 DEF EndsWithout
  <2>3. ASSUME NEW q \in 0 .. n - 1
        PROVE  st[q] = Entry(M[q], 1) /\ en[q] = Entry(M[q], Len(M[q]))
    <3>1. CASE q \in ToSet(gs[g].qubits)
      <4>1. Shortened(DOMAIN gs, L[q], g, M[q])
        BY <1>5, <1>11, <3>1
      <4>. QED
        BY <1>11, <2>1, <2>2, <3>1, <4>1 DEF Shortened
    <3>2. CASE q \notin ToSet(gs[g].qubits)
      BY <1>3, <1>6, <2>1, <2>2, <3>2
    <3>. QED
      BY <3>1, <3>2
  <2>. QED
    BY <2>2, <2>3
<1>14. /\ be = [h \in DOMAIN gs2 |-> be[h]] /\ bh = [h \in DOMAIN gs2 |-> bh[h]]
  BY <1>1, <1>12 DEF Bridge
<1>15. ASSUME NEW h \in DOMAIN gs2
       PROVE  /\ be[h] = [pin \in DOMAIN gs2[h].qubits |-> be[h][pin]]
              /\ bh[h] = [pin \in DOMAIN gs2[h].qubits |-> bh[h][pin]]
              /\ \A pin \in DOMAIN gs2[h].qubits :
                    /\ be[h][pin] = Beside(M[gs2[h].qubits[pin]], h, -1)
                    /\ bh[h][pin] = Beside(M[gs2[h].qubits[pin]], h, 1)
  <2>1. PICK bits : bits = gs[h].qubits /\ bits = gs2[h].qubits /\ h \in DOMAIN gs \ {g}
    BY <1>1
  <2>2. /\ be[h] = [pin \in DOMAIN bits |->
              IF \E i \in DOMAIN behind[g] : behind[g][i] = h /\ gs[g].qubits[i] = bits[pin]
              THEN before[g][PinByQubit(gs, g, bits[pin])] ELSE before[h][pin]]
        /\ bh[h] = [pin \in DOMAIN bits |->
              IF \E i \in DOMAIN before[g] : before[g][i] = h /\ gs[g].qubits[i] = bits[pin]
              THEN behind[g][PinByQubit(gs, g, bits[pin])] ELSE behind[h][pin]]
    BY <1>1, <1>12, <2>1 DEF Bridge
  <2>3. ASSUME NEW pin \in DOMAIN bits
        PROVE  /\ be[h][pin] = Beside(M[bits[pin]], h, -1)
               /\ bh[h][pin] = Beside(M[bits[pin]], h, 1)
    <3>1. PICK q : q = bits[pin]
      OBVIOUS
    <3>2. /\ q \in 0 .. n - 1 /\ h \in ToSet(L[q]) /\ h # g
          /\ before[h][pin] = Beside(L[q], h, -1) /\ behind[h][pin] = Beside(L[q], h, 1)
      BY <1>9, <2>1, <3>1
    <3>3. CASE q \in ToSet(gs[g].qubits)
      <4>1. Shortened(DOMAIN gs, L[q], g, M[q])
        BY <1>5, <1>11, <3>3
      <4>2. /\ Beside(M[q], h, 1) = IF Beside(L[q], g, -1) = h THEN Beside(L[q], g, 1)
                                    ELSE Beside(L[q], h, 1)
            /\ Beside(M[q], h, -1) = IF Beside(L[q], g, 1) = h THEN Beside(L[q], g, -1)
                                     ELSE Beside(L[q], h, -1)
        BY <3>2, <4>1 DEF Shortened
      <4>3. /\ (\E i \in DOMAIN before[g] : before[g][i] = h /\ gs[g].qubits[i] = q)
                  <=> Beside(L[q], g, -1) = h
            /\ (\E i \in DOMAIN behind[g] : behind[g][i] = h /\ gs[g].qubits[i] = q)
                  <=> Beside(L[q], g, 1) = h
        BY <1>9, <1>10, <1>11, <3>3
      <4>4. /\ before[g][PinByQubit(gs, g, q)] = Beside(L[q], g, -1)
            /\ behind[g][PinByQubit(gs, g, q)] = Beside(L[q], g, 1)
        BY <1>11, <3>3
      <4>. QED
        BY <2>2, <3>1, <3>2, <4>2, <4>3, <4>4
    <3>4. CASE q \notin ToSet(gs[g].qubits)
      <4>1. /\ ~ \E i \in DOMAIN before[g] : gs[g].qubits[i] = q
            /\ ~ \E i \in DOMAIN behind[g] : gs[g].qubits[i] = q
        BY <1>10, <3>4 DEF ToSet
      <4>2. M[q] = L[q]
        BY <1>3, <1>6, <3>2, <3>4
      <4>. QED
        BY <2>2, <3>1, <3>2, <4>1, <4>2
    <3>. QED
      BY <3>3, <3>4
  <2>. QED
    BY <2>1, <2>2, <2>3
<1>16. Given(n, gs2, M, st, en, be, bh)
  BY <1>13, <1>14, <1>15, Zenon DEF Given
<1>17. Wired(n, gs2, M, st, en, be, bh)
  BY <1>7, <1>8, <1>16, WiredIf
<1>. QED
  BY <1>1, <1>12, <1>17

-----------------------------------------------------------------------------
(* The order of the gates                                                  *)

\* No line is longer than there are gates.
LEMMA LineFits ==
    ASSUME NEW ids, IsFiniteSet(ids), NEW s \in LineOf(ids)
    PROVE  Len(s) \in Nat /\ Cardinality(ids) \in Nat /\ Len(s) <= Cardinality(ids)
<1>1. PICK m \in Nat : m = Len(s) /\ s \in Seq(ids) /\ DOMAIN s = 1 .. m
  BY DEF LineOf
<1>2. s \in Injection(1 .. m, ids)
  BY <1>1 DEF LineOf, IsInjective, Injection
<1>3. Cardinality(1 .. m) <= Cardinality(ids)
  BY <1>2, FS_Injection
<1>4. Cardinality(1 .. m) = m
  <2>1. Cardinality(1 .. m) = IF 1 > m THEN 0 ELSE m - 1 + 1
    BY FS_Interval
  <2>. QED
    BY <2>1
<1>5. Cardinality(ids) \in Nat
  BY FS_CardinalityType
<1>. QED
  BY <1>1, <1>3, <1>4, <1>5

\* What grows from place to place grows along the way.
LEMMA StepsAscend ==
    ASSUME NEW m \in Nat, NEW f, \A i \in 1 .. m : f[i] \in Int,
           \A i \in 1 .. m : i + 1 <= m => f[i] < f[i + 1]
    PROVE  \A i, j \in 1 .. m : i < j => f[i] < f[j]
<1>1. PICK S : S = {k \in Nat : \A i \in 1 .. m : i + (k + 1) <= m => f[i] < f[i + (k + 1)]}
  OBVIOUS
<1>2. 0 \in S
  BY <1>1
<1>3. ASSUME NEW k \in S, k \in Nat PROVE k + 1 \in S
  <2>1. SUFFICES ASSUME NEW i \in 1 .. m, i + (k + 1 + 1) <= m PROVE f[i] < f[i + (k + 1 + 1)]
    BY <1>1, <1>3
  <2>2. PICK a \in 1 .. m, b \in 1 .. m : a = i + (k + 1) /\ b = i + (k + 1 + 1) /\ b = a + 1
    BY <1>3, <2>1
  <2>3. f[i] < f[a]
    BY <1>1, <1>3, <2>1, <2>2
  <2>4. f[a] < f[b]
    BY <2>2
  <2>. QED
    BY <2>2, <2>3, <2>4
<1>4. Nat \subseteq S
  BY <1>2, <1>3, SetInduction
<1>5. SUFFICES ASSUME NEW i \in 1 .. m, NEW j \in 1 .. m, i < j PROVE f[i] < f[j]
  OBVIOUS
<1>6. PICK k \in Nat : k = j - i - 1
  BY <1>5
<1>7. j = i + (k + 1)
  BY <1>6
<1>8. k \in S /\ i + (k + 1) <= m
  BY <1>4, <1>7
<1>. QED
  BY <1>1, <1>7, <1>8

\* A list of all gates, in which each line goes forward
ListsAll(ids, list) == list \in LineOf(ids) /\ ToSet(list) = ids
InOrder(L, list) == \A q \in DOMAIN L : \A i, j \in DOMAIN L[q] :
                        i < j => Place(list, L[q][i]) < Place(list, L[q][j])

\* What the depth-first search begins with
RootsOf(n, starts) == [q \in 1 .. n |-> starts[q - 1]]

\* What it needs to list all gates in order
Searchable(ids, behind, roots) ==
    /\ \E rank : SearchInput(ids, behind, rank, roots)
    /\ Reached(ids, behind, roots)
    /\ \A g \in ids : Len(behind[g]) <= Len(roots)

\* The depth-first search sees the lines.
LEMMA LinesAreSearched ==
    ASSUME NEW n \in Nat, NEW gs \in Circuits(n), NEW L,
           NEW starts, NEW ends, NEW before, NEW behind,
           Wired(n, gs, L, starts, ends, before, behind),
           NEW roots, roots = RootsOf(n, starts)
    PROVE  Searchable(DOMAIN gs, behind, roots)
<1>1. /\ Lined(n, gs, L) /\ DOMAIN L = 0 .. n - 1
      /\ starts = StartsOf(L) /\ behind = LinksOf(gs, L, 1)
  BY DEF Wired, Lined
<1>2. NoGate \notin DOMAIN gs
  BY CircuitGates
<1>3. PICK up : Upwards(DOMAIN gs, L, up)
  BY DEF Wired
<1>4. PICK lo \in Int, hi \in Int : \A g \in DOMAIN gs : up[g] \in lo .. hi
  BY <1>3 DEF Upwards
<1>5. PICK rank : rank = [g \in DOMAIN gs |-> up[g] - lo]
  OBVIOUS
<1>6. \A g \in DOMAIN gs : up[g] \in Int /\ rank[g] \in Nat /\ rank[g] = up[g] - lo
  BY <1>4, <1>5
<1>7. ASSUME NEW q \in 0 .. n - 1
      PROVE  /\ \A k \in Int : Entry(L[q], k) \in DOMAIN gs \cup {NoGate}
             /\ \A g \in ToSet(L[q]) : Beside(L[q], g, 1) # NoGate => rank[g] < rank[Beside(L[q], g, 1)]
             /\ \A g \in ToSet(L[q]) : Entry(L[q], 1) # g =>
                    \E h \in ToSet(L[q]) : Beside(L[q], h, 1) = g
  <2>1. PICK s : s = L[q] /\ s \in LineOf(DOMAIN gs)
    BY <1>1 DEF Lined
  <2>2. PICK m \in Nat : m = Len(s)
    BY <2>1, PlaceOnLine
  <2>3. /\ DOMAIN s = 1 .. m
        /\ \A i \in 1 .. m : s[i] \in DOMAIN gs /\ Place(s, s[i]) = i
        /\ \A g : g \in ToSet(s) <=> \E i \in 1 .. m : s[i] = g
    BY <2>1, <2>2, PlaceOnLine
  <2>4. \A k \in Int : Entry(s, k) = IF k \in 1 .. m THEN s[k] ELSE NoGate
    BY <2>3 DEF Entry
  <2>5. \A k \in Int : Entry(s, k) \in DOMAIN gs \cup {NoGate}
    BY <2>3, <2>4
  <2>6. \A i, j \in 1 .. m : i < j => up[s[i]] < up[s[j]]
    BY <1>1, <1>3, <2>1, <2>3 DEF Upwards
  <2>7. ASSUME NEW g \in ToSet(s), Beside(s, g, 1) # NoGate
        PROVE  rank[g] < rank[Beside(s, g, 1)]
    <3>1. PICK i \in 1 .. m : s[i] = g /\ Place(s, g) = i
      BY <2>3
    <3>2. i + 1 \in 1 .. m /\ Beside(s, g, 1) = s[i + 1]
      BY <2>4, <2>7, <3>1 DEF Beside
    <3>3. up[s[i]] < up[s[i + 1]]
      <4>1. PICK j \in 1 .. m : j = i + 1 /\ i < j
        BY <3>2
      <4>. QED
        BY <2>6, <4>1
    <3>. QED
      BY <1>6, <2>3, <3>1, <3>2, <3>3
  <2>8. ASSUME NEW g \in ToSet(s), Entry(s, 1) # g
        PROVE  \E h \in ToSet(s) : Beside(s, h, 1) = g
    <3>1. PICK i \in 1 .. m : s[i] = g
      BY <2>3
    <3>2. i # 1
      BY <2>4, <2>8, <3>1
    <3>3. PICK j \in 1 .. m : j = i - 1 /\ j + 1 = i
      BY <3>2
    <3>4. s[j] \in ToSet(s) /\ Place(s, s[j]) = j
      BY <2>3
    <3>5. Beside(s, s[j], 1) = g
      BY <2>4, <3>1, <3>3, <3>4 DEF Beside
    <3>. QED
      BY <3>4, <3>5
  <2>. QED
    BY <2>1, <2>5, <2>7, <2>8
<1>8. \A q \in 0 .. n - 1 : starts[q] = Entry(L[q], 1) /\ starts[q] \in DOMAIN gs \cup {NoGate}
  BY <1>1, <1>7 DEF StartsOf
<1>14. roots = [q \in 1 .. n |-> starts[q - 1]]
  BY DEF RootsOf
<1>9. roots \in Seq(DOMAIN gs \cup {NoGate}) /\ Len(roots) = n
  <2>1. \A q \in 1 .. n : roots[q] \in DOMAIN gs \cup {NoGate}
    BY <1>8, <1>14
  <2>. QED
    BY <1>14, <2>1
<1>10. \A q \in 0 .. n - 1 : starts[q] \in ToSet(roots)
  <2>1. SUFFICES ASSUME NEW q \in 0 .. n - 1 PROVE starts[q] \in ToSet(roots)
    OBVIOUS
  <2>2. q + 1 \in DOMAIN roots /\ roots[q + 1] = starts[q]
    BY <1>14
  <2>. QED
    BY <2>2 DEF ToSet
<1>11. ASSUME NEW g \in DOMAIN gs
       PROVE  /\ behind[g] \in Seq(DOMAIN gs \cup {NoGate})
              /\ Len(behind[g]) <= n
              /\ \A h \in ToSet(behind[g]) \ {NoGate} : rank[g] < rank[h]
              /\ g \in ToSet(roots) \/ \E y \in DOMAIN gs : g \in ToSet(behind[y])
  <2>1. PICK bits : bits = gs[g].qubits
    OBVIOUS
  <2>2. bits \in Seq(0 .. n - 1) /\ bits # <<>> /\ bits \in LineOf(0 .. n - 1)
    BY <2>1, CircuitGates DEF LineOf
  <2>3. behind[g] = [pin \in DOMAIN bits |-> Beside(L[bits[pin]], g, 1)]
    BY <1>1, <2>1 DEF LinksOf
  <2>4. ASSUME NEW pin \in DOMAIN bits
        PROVE  /\ bits[pin] \in 0 .. n - 1 /\ g \in ToSet(L[bits[pin]])
               /\ Beside(L[bits[pin]], g, 1) \in DOMAIN gs \cup {NoGate}
    <3>1. bits[pin] \in 0 .. n - 1 /\ g \in ToSet(L[bits[pin]]) /\ L[bits[pin]] \in LineOf(DOMAIN gs)
      BY <1>1, <2>1, OnItsLine
    <3>2. Place(L[bits[pin]], g) + 1 \in Int
      BY <3>1, PlaceOnLine
    <3>. QED
      BY <1>7, <3>1, <3>2 DEF Beside
  <2>5. Len(bits) \in Nat /\ DOMAIN bits = 1 .. Len(bits)
    BY <2>2
  <2>6. behind[g] \in Seq(DOMAIN gs \cup {NoGate}) /\ Len(behind[g]) = Len(bits)
    BY <2>3, <2>4, <2>5
  <2>7. Len(bits) <= n
    <3>1. IsFiniteSet(0 .. n - 1) /\ Cardinality(0 .. n - 1) = n
      <4>1. /\ IsFiniteSet(0 .. n - 1)
            /\ Cardinality(0 .. n - 1) = IF 0 > n - 1 THEN 0 ELSE n - 1 - 0 + 1
        BY FS_Interval
      <4>. QED
        BY <4>1
    <3>. QED
      BY <2>2, <3>1, LineFits
  <2>8. \A h \in ToSet(behind[g]) \ {NoGate} : rank[g] < rank[h]
    BY <1>7, <2>3, <2>4 DEF ToSet
  <2>9. g \in ToSet(roots) \/ \E y \in DOMAIN gs : g \in ToSet(behind[y])
    <3>1. PICK q \in 0 .. n - 1 : g \in ToSet(L[q]) /\ q \in ToSet(bits)
      <4>1. 1 \in DOMAIN bits
        BY <2>2
      <4>. QED
        BY <2>4, <4>1 DEF ToSet
    <3>2. CASE Entry(L[q], 1) = g
      BY <1>8, <1>10, <3>2
    <3>3. CASE Entry(L[q], 1) # g
      <4>1. PICK h \in ToSet(L[q]) : Beside(L[q], h, 1) = g
        BY <1>7, <3>1, <3>3
      <4>2. h \in DOMAIN gs /\ q \in ToSet(gs[h].qubits)
        <5>1. L[q] \in LineOf(DOMAIN gs)
          BY <1>1 DEF Lined
        <5>2. h \in DOMAIN gs
          BY <5>1, PlaceOnLine
        <5>. QED
          BY <1>1, <5>2 DEF Lined
      <4>3. PICK pin \in DOMAIN gs[h].qubits : gs[h].qubits[pin] = q
        BY <4>2 DEF ToSet
      <4>4. pin \in DOMAIN behind[h] /\ behind[h][pin] = g
        BY <1>1, <4>1, <4>2, <4>3 DEF LinksOf
      <4>. QED
        BY <4>2, <4>4 DEF ToSet
    <3>. QED
      BY <3>2, <3>3
  <2>. QED
    BY <2>6, <2>7, <2>8, <2>9
<1>12. SearchInput(DOMAIN gs, behind, rank, roots)
  <2>1. behind \in [DOMAIN gs -> Seq(DOMAIN gs \cup {NoGate})]
    BY <1>1, <1>11 DEF LinksOf
  <2>2. rank \in [DOMAIN gs -> Nat]
    BY <1>5, <1>6
  <2>. QED
    BY <1>2, <1>9, <1>11, <2>1, <2>2 DEF SearchInput
<1>13. Reached(DOMAIN gs, behind, roots)
  BY <1>11 DEF Reached
<1>15. \A g \in DOMAIN gs : Len(behind[g]) <= Len(roots)
  BY <1>9, <1>11
<1>. QED
  BY <1>12, <1>13, <1>15, Zenon DEF Searchable

\* What get_gates finds: all gates, each one before those behind it on its lines
LEMMA SearchListsAll ==
    ASSUME NEW n \in Nat, NEW gs \in Circuits(n), IsFiniteSet(DOMAIN gs), NEW L,
           NEW starts, NEW ends, NEW before, NEW behind,
           Wired(n, gs, L, starts, ends, before, behind),
           NEW list, list = DfsOrder(RootsOf(n, starts), behind, Cardinality(DOMAIN behind))
    PROVE  ListsAll(DOMAIN gs, list) /\ InOrder(L, list)
<1>1. PICK roots, m : /\ roots = RootsOf(n, starts) /\ m = Cardinality(DOMAIN behind)
                      /\ list = DfsOrder(roots, behind, m)
  OBVIOUS
<1>3. Searchable(DOMAIN gs, behind, roots)
  BY <1>1, LinesAreSearched
<1>2. PICK rank : SearchInput(DOMAIN gs, behind, rank, roots)
  BY <1>3 DEF Searchable
<1>4. m \in Nat /\ Cardinality(DOMAIN gs) <= m
  <2>1. DOMAIN behind = DOMAIN gs
    BY <1>2 DEF SearchInput
  <2>. QED
    BY <1>1, <2>1, FS_CardinalityType
<1>5. /\ list \in Seq(DOMAIN gs)
      /\ \A i, j \in DOMAIN list : list[i] = list[j] => i = j
      /\ Topological(behind, list)
      /\ ToSet(roots) \ {NoGate} \subseteq ToSet(list)
  <2>1. \A g \in DOMAIN gs : Len(behind[g]) <= Len(roots)
    BY <1>3 DEF Searchable
  <2>. QED
    BY <1>1, <1>2, <1>4, <2>1, SearchIsTopological
<1>6. ToSet(list) = DOMAIN gs
  BY <1>2, <1>3, <1>5, SearchIsComplete DEF Searchable
<1>7. list \in LineOf(DOMAIN gs)
  BY <1>5 DEF LineOf, IsInjective
<1>8. ASSUME NEW q \in DOMAIN L, NEW i \in DOMAIN L[q], NEW j \in DOMAIN L[q], i < j
      PROVE  Place(list, L[q][i]) < Place(list, L[q][j])
  <2>1. /\ Lined(n, gs, L) /\ q \in 0 .. n - 1 /\ behind = LinksOf(gs, L, 1)
    BY <1>8 DEF Wired, Lined
  <2>2. PICK s : s = L[q] /\ s \in LineOf(DOMAIN gs)
    BY <2>1 DEF Lined
  <2>3. PICK k \in Nat : k = Len(s)
    BY <2>2, PlaceOnLine
  <2>4. /\ DOMAIN s = 1 .. k
        /\ \A x \in 1 .. k : s[x] \in DOMAIN gs /\ Place(s, s[x]) = x /\ s[x] \in ToSet(s)
    BY <2>2, <2>3, PlaceOnLine
  <2>5. PICK f : f = [x \in 1 .. k |-> Place(list, s[x])]
    OBVIOUS
  <2>6. \A g \in DOMAIN gs : Place(list, g) \in DOMAIN list /\ list[Place(list, g)] = g
    BY <1>6, <1>7, PlaceOnLine
  <2>7. \A x \in 1 .. k : f[x] \in Int
    <3>1. DOMAIN list \subseteq Int
      <4>1. DOMAIN list = 1 .. Len(list) /\ Len(list) \in Nat
        BY <1>7, PlaceOnLine
      <4>2. PICK c \in Nat : c = Len(list)
        BY <4>1
      <4>. QED
        BY <4>1, <4>2
    <3>. QED
      BY <2>4, <2>5, <2>6, <3>1
  <2>8. ASSUME NEW x \in 1 .. k, x + 1 <= k PROVE f[x] < f[x + 1]
    <3>1. x + 1 \in 1 .. k
      BY <2>8
    <3>2. Beside(s, s[x], 1) = s[x + 1]
      BY <2>4, <3>1 DEF Beside, Entry
    <3>3. PICK pin \in DOMAIN gs[s[x]].qubits : gs[s[x]].qubits[pin] = q
      <4>1. q \in ToSet(gs[s[x]].qubits)
        BY <2>1, <2>2, <2>4 DEF Lined
      <4>. QED
        BY <4>1 DEF ToSet
    <3>4. pin \in DOMAIN behind[s[x]] /\ behind[s[x]][pin] = s[x + 1]
      BY <2>1, <2>2, <2>4, <3>2, <3>3 DEF LinksOf
    <3>5. s[x + 1] \in ToSet(behind[s[x]]) \ {NoGate}
      <4>1. s[x + 1] # NoGate
        BY <2>4, <3>1, CircuitGates
      <4>. QED
        BY <3>4, <4>1 DEF ToSet
    <3>6. PICK a, b : a = Place(list, s[x]) /\ b = Place(list, s[x + 1])
      OBVIOUS
    <3>7. a \in DOMAIN list /\ list[a] = s[x] /\ b \in DOMAIN list /\ list[b] = s[x + 1]
      BY <2>4, <2>6, <3>1, <3>6
    <3>8. \E c \in DOMAIN list : a < c /\ list[c] = s[x + 1]
      <4>1. s[x + 1] \in ToSet(behind[list[a]]) \ {NoGate}
        BY <3>5, <3>7
      <4>2. a \in DOMAIN list /\ Topological(behind, list)
        BY <1>5, <3>7
      <4>. QED
        BY <4>1, <4>2, Zenon DEF Topological
    <3>9. a < b
      BY <1>5, <3>7, <3>8
    <3>. QED
      BY <2>5, <3>1, <3>6, <3>9
  <2>9. \A x, y \in 1 .. k : x < y => f[x] < f[y]
    BY <2>7, <2>8, StepsAscend
  <2>. QED
    BY <1>8, <2>2, <2>4, <2>5, <2>9
<1>. QED
  BY <1>6, <1>7, <1>8 DEF ListsAll, InOrder

\* Read along the links behind the pins, a line is what the lines have.
LEMMA FollowsLine ==
    ASSUME NEW n \in Nat, NEW gs \in Circuits(n), IsFiniteSet(DOMAIN gs), NEW L, Lined(n, gs, L),
           NEW q \in 0 .. n - 1, NEW starts, starts = StartsOf(L),
           NEW links, links = LinksOf(gs, L, 1)
    PROVE  Follow(gs, starts, links, q) = L[q]
<1>1. PICK N \in Nat : N = Cardinality(DOMAIN gs)
  BY FS_CardinalityType
<1>2. PICK s : s = L[q] /\ s \in LineOf(DOMAIN gs)
  BY DEF Lined
<1>3. PICK m \in Nat : m = Len(s) /\ m <= N
  BY <1>1, <1>2, LineFits
<1>4. /\ DOMAIN s = 1 .. m
      /\ \A i \in 1 .. m : s[i] \in DOMAIN gs /\ s[i] \in ToSet(s) /\ Place(s, s[i]) = i
  BY <1>2, <1>3, PlaceOnLine
<1>5. NoGate \notin DOMAIN gs
  BY CircuitGates
<1>6. \A i \in Int : Entry(s, i) = IF i \in 1 .. m THEN s[i] ELSE NoGate
  BY <1>4 DEF Entry
<1>7. starts[q] = Entry(s, 1)
  BY <1>2 DEF StartsOf, Lined
<1>8. ASSUME NEW i \in 1 .. m
      PROVE  links[s[i]][PinByQubit(gs, s[i], q)] = Entry(s, i + 1)
  <2>1. PICK g \in DOMAIN gs : g = s[i] /\ g \in ToSet(s)
    BY <1>4
  <2>2. PICK pin \in DOMAIN gs[g].qubits : gs[g].qubits[pin] = q
    <3>1. q \in ToSet(gs[g].qubits)
      BY <1>2, <2>1 DEF Lined
    <3>. QED
      BY <3>1 DEF ToSet
  <2>3. PinByQubit(gs, g, q) = pin
    BY <2>2, CircuitGates
  <2>4. links[g][pin] = Beside(s, g, 1)
    BY <1>2, <2>2 DEF LinksOf
  <2>. QED
    BY <1>4, <2>1, <2>3, <2>4 DEF Beside
<1>. DEFINE Steps(f) == [i \in 1 .. N + 1 |->
                IF i = 1 THEN starts[q]
                ELSE IF f[i - 1] = NoGate THEN NoGate
                ELSE links[f[i - 1]][PinByQubit(gs, f[i - 1], q)]]
            at == CHOOSE f : f = Steps(f)
<1>9. Follow(gs, starts, links, q) = SubSeq(at, 1, Cardinality({i \in DOMAIN at : at[i] # NoGate}))
  BY <1>1 DEF Follow
<1>10. ASSUME NEW i \in 1 .. N + 1, i # 1
       PROVE  Entry(s, i) = IF Entry(s, i - 1) = NoGate THEN NoGate
                            ELSE links[Entry(s, i - 1)][PinByQubit(gs, Entry(s, i - 1), q)]
  <2>1. PICK j \in Nat : j = i - 1 /\ i = j + 1 /\ 1 <= j
    BY <1>10
  <2>2. CASE j \in 1 .. m
    <3>1. Entry(s, j) = s[j] /\ s[j] # NoGate
      BY <1>4, <1>5, <1>6, <2>2
    <3>2. links[s[j]][PinByQubit(gs, s[j], q)] = Entry(s, j + 1)
      BY <1>8, <2>2
    <3>. QED
      BY <2>1, <3>1, <3>2
  <2>3. CASE j \notin 1 .. m
    BY <1>6, <2>1, <2>3
  <2>. QED
    BY <2>2, <2>3
<1>11. at = Steps(at)
  <2>1. PICK w : w = [i \in 1 .. N + 1 |-> Entry(s, i)]
    OBVIOUS
  <2>2. ASSUME NEW i \in 1 .. N + 1
        PROVE  w[i] = IF i = 1 THEN starts[q]
                      ELSE IF w[i - 1] = NoGate THEN NoGate
                      ELSE links[w[i - 1]][PinByQubit(gs, w[i - 1], q)]
    <3>1. CASE i = 1
      BY <1>7, <2>1, <3>1
    <3>2. CASE i # 1
      <4>1. i - 1 \in 1 .. N + 1
        BY <3>2
      <4>2. w[i] = Entry(s, i) /\ w[i - 1] = Entry(s, i - 1)
        BY <2>1, <4>1
      <4>. QED
        BY <1>10, <3>2, <4>2
    <3>. QED
      BY <3>1, <3>2
  <2>3. w = Steps(w)
    BY <2>1, <2>2, Zenon
  <2>. HIDE DEF Steps
  <2>. QED
    BY <2>3, Zenon
<1>. HIDE DEF at
<1>12. /\ DOMAIN at = 1 .. N + 1
       /\ at[1] = starts[q]
       /\ \A i \in 1 .. N + 1 : i # 1 =>
             at[i] = IF at[i - 1] = NoGate THEN NoGate
                     ELSE links[at[i - 1]][PinByQubit(gs, at[i - 1], q)]
  BY <1>11
<1>13. \A i \in 1 .. N + 1 : at[i] = Entry(s, i)
  <2>1. PICK S : S = {k \in Nat : k + 1 \in 1 .. N + 1 => at[k + 1] = Entry(s, k + 1)}
    OBVIOUS
  <2>2. 0 \in S
    BY <1>7, <1>12, <2>1
  <2>3. ASSUME NEW k \in S, k \in Nat PROVE k + 1 \in S
    <3>1. SUFFICES ASSUME k + 2 \in 1 .. N + 1 PROVE at[k + 2] = Entry(s, k + 2)
      BY <2>1, <2>3
    <3>2. PICK i \in 1 .. N + 1 : i = k + 2 /\ i # 1 /\ i - 1 = k + 1 /\ i - 1 \in 1 .. N + 1
      BY <2>3, <3>1
    <3>3. at[i - 1] = Entry(s, i - 1)
      BY <2>1, <2>3, <3>2
    <3>4. at[i] = Entry(s, i)
      BY <1>10, <1>12, <3>2, <3>3
    <3>. QED
      BY <3>2, <3>4
  <2>4. Nat \subseteq S
    BY <2>2, <2>3, SetInduction
  <2>5. SUFFICES ASSUME NEW i \in 1 .. N + 1 PROVE at[i] = Entry(s, i)
    OBVIOUS
  <2>6. PICK k \in Nat : i = k + 1
    <3>1. i - 1 \in Nat /\ i = (i - 1) + 1
      OBVIOUS
    <3>. QED
      BY <3>1
  <2>. QED
    BY <2>1, <2>4, <2>6
<1>14. {i \in DOMAIN at : at[i] # NoGate} = 1 .. m
  <2>1. \A i \in 1 .. m : i \in 1 .. N + 1
    BY <1>3
  <2>. QED
    BY <1>3, <1>4, <1>5, <1>6, <1>12, <1>13, <2>1
<1>15. Cardinality(1 .. m) = m
  <2>1. Cardinality(1 .. m) = IF 1 > m THEN 0 ELSE m - 1 + 1
    BY FS_Interval
  <2>. QED
    BY <2>1
<1>16. Follow(gs, starts, links, q) = [i \in 1 .. m |-> at[i]]
  <2>1. Follow(gs, starts, links, q) = SubSeq(at, 1, m)
    BY <1>9, <1>14, <1>15
  <2>2. SubSeq(at, 1, m) = [i \in 1 .. (1 + m) - 1 |-> at[(1 + i) - 1]]
    BY DEF SubSeq
  <2>3. (1 + m) - 1 = m /\ \A i \in 1 .. m : (1 + i) - 1 = i
    OBVIOUS
  <2>. QED
    BY <2>1, <2>2, <2>3
<1>17. \A i \in 1 .. m : at[i] = s[i]
  <2>1. \A i \in 1 .. m : i \in 1 .. N + 1
    BY <1>3
  <2>. QED
    BY <1>6, <1>13, <2>1
<1>18. s = [i \in 1 .. m |-> s[i]]
  <2>1. s \in Seq(DOMAIN gs)
    BY <1>2 DEF LineOf
  <2>. QED
    BY <1>3, <2>1
<1>. QED
  BY <1>2, <1>16, <1>17, <1>18

\* Both ways, the links show the lines.
LEMMA LinesRead ==
    ASSUME NEW n \in Nat, NEW gs \in Circuits(n), IsFiniteSet(DOMAIN gs), NEW L,
           NEW starts, NEW ends, NEW before, NEW behind,
           Wired(n, gs, L, starts, ends, before, behind), NEW q \in 0 .. n - 1
    PROVE  /\ Follow(gs, starts, behind, q) = L[q]
           /\ Follow(gs, ends, before, q) = Reverse(L[q])
<1>1. Follow(gs, starts, behind, q) = L[q]
  BY FollowsLine DEF Wired
<1>2. PICK T : T = TurnedLines(L)
  OBVIOUS
<1>3. Wired(n, gs, T, ends, starts, behind, before)
  <2>1. SameQubits(n, gs, gs)
    BY DEF SameQubits
  <2>. QED
    BY <1>2, <2>1, WiredTurned
<1>4. Follow(gs, ends, before, q) = T[q]
  BY <1>3, FollowsLine DEF Wired
<1>5. T[q] = Reverse(L[q])
  BY <1>2 DEF TurnedLines, Wired, Lined
<1>. QED
  BY <1>1, <1>4, <1>5

-----------------------------------------------------------------------------
(* Qubits that move                                                        *)

\* Line q is line f[q] of M, the other lines are empty, and the gates are on these lines.
Moved(n, gs, L, n2, gs2, M, f) ==
    /\ DOMAIN gs2 = DOMAIN gs /\ DOMAIN M = 0 .. n2 - 1
    /\ gs2 = [g \in DOMAIN gs |-> gs2[g]]
    /\ DOMAIN f \subseteq 0 .. n - 1
    /\ \A q \in DOMAIN f : f[q] \in 0 .. n2 - 1 /\ M[f[q]] = L[q]
    /\ \A p, q \in DOMAIN f : f[p] = f[q] => p = q
    /\ \A q \in 0 .. n - 1 : q \in DOMAIN f \/ L[q] = <<>>
    /\ \A r \in 0 .. n2 - 1 : (\E q \in DOMAIN f : f[q] = r) \/ M[r] = <<>>
    /\ \A g \in DOMAIN gs :
          gs2[g] = [op |-> gs[g].op,
                    qubits |-> [pin \in DOMAIN gs[g].qubits |-> f[gs[g].qubits[pin]]]]

\* The links stay, as they do not name the lines.
LEMMA WiredMoved ==
    ASSUME NEW n \in Nat, NEW gs \in Circuits(n), NEW L,
           NEW starts, NEW ends, NEW before, NEW behind,
           Wired(n, gs, L, starts, ends, before, behind),
           NEW n2 \in Nat, NEW gs2, NEW M, NEW f, Moved(n, gs, L, n2, gs2, M, f)
    PROVE  /\ gs2 \in Circuits(n2)
           /\ Wired(n2, gs2, M, StartsOf(M), EndsOf(M), before, behind)
<1>1. /\ DOMAIN gs2 = DOMAIN gs /\ DOMAIN M = 0 .. n2 - 1
      /\ gs2 = [g \in DOMAIN gs |-> gs2[g]]
      /\ \A q \in DOMAIN f : q \in 0 .. n - 1 /\ f[q] \in 0 .. n2 - 1 /\ M[f[q]] = L[q]
      /\ \A p, q \in DOMAIN f : f[p] = f[q] => p = q
      /\ \A q \in 0 .. n - 1 : q \in DOMAIN f \/ L[q] = <<>>
      /\ \A r \in 0 .. n2 - 1 : (\E q \in DOMAIN f : f[q] = r) \/ M[r] = <<>>
  BY DEF Moved
<1>2. Lined(n, gs, L) /\ DOMAIN L = 0 .. n - 1
      /\ before = LinksOf(gs, L, -1) /\ behind = LinksOf(gs, L, 1)
  BY DEF Wired, Lined
<1>3. ASSUME NEW g \in DOMAIN gs
      PROVE  /\ gs2[g] \in GateSet(n2)
             /\ DOMAIN gs2[g].qubits = DOMAIN gs[g].qubits
             /\ \A pin \in DOMAIN gs[g].qubits :
                   /\ gs[g].qubits[pin] \in DOMAIN f
                   /\ gs2[g].qubits[pin] = f[gs[g].qubits[pin]]
                   /\ M[gs2[g].qubits[pin]] = L[gs[g].qubits[pin]]
  <2>1. PICK bits, bits2 : bits = gs[g].qubits /\ bits2 = [pin \in DOMAIN bits |-> f[bits[pin]]]
    OBVIOUS
  <2>2. gs2[g] = [op |-> gs[g].op, qubits |-> bits2]
    BY <2>1 DEF Moved
  <2>3. /\ gs[g] \in GateSet(n) /\ bits \in Seq(0 .. n - 1) /\ bits # <<>>
        /\ \A i, j \in DOMAIN bits : bits[i] = bits[j] => i = j
    BY <2>1, CircuitGates DEF IsInjective
  <2>4. ASSUME NEW pin \in DOMAIN bits PROVE bits[pin] \in DOMAIN f
    <3>1. bits[pin] \in 0 .. n - 1 /\ g \in ToSet(L[bits[pin]])
      BY <1>2, <2>1, OnItsLine
    <3>2. L[bits[pin]] # <<>>
      BY <3>1 DEF ToSet
    <3>. QED
      BY <1>1, <3>1, <3>2
  <2>5. gs2[g] \in GateSet(n2)
    <3>1. gs[g].op \in DOMAIN Adjoint
      BY <2>3 DEF GateSet
    <3>2. PICK w \in Nat : DOMAIN bits = 1 .. w /\ w # 0
      BY <2>3
    <3>3. bits2 \in Seq(0 .. n2 - 1) /\ bits2 # <<>> /\ DOMAIN bits2 = DOMAIN bits
      <4>1. bits2 = [pin \in 1 .. w |-> f[bits[pin]]]
        BY <2>1, <3>2
      <4>2. \A pin \in 1 .. w : f[bits[pin]] \in 0 .. n2 - 1
        BY <1>1, <2>4, <3>2
      <4>3. bits2 \in Seq(0 .. n2 - 1) /\ Len(bits2) = w
        BY <4>1, <4>2
      <4>. QED
        BY <3>2, <4>1, <4>3
    <3>4. IsInjective(bits2)
      BY <1>1, <2>1, <2>3, <2>4, <3>3 DEF IsInjective
    <3>. QED
      BY <2>2, <3>1, <3>3, <3>4 DEF GateSet
  <2>. QED
    BY <1>1, <2>1, <2>2, <2>4, <2>5
<1>4. gs2 \in Circuits(n2)
  <2>1. PICK ids \in SUBSET Nat : gs \in [ids -> GateSet(n)]
    BY DEF Circuits
  <2>2. gs2 \in [ids -> GateSet(n2)]
    BY <1>1, <1>3, <2>1
  <2>. QED
    BY <2>1, <2>2 DEF Circuits
<1>5. Lined(n2, gs2, M)
  <2>1. ASSUME NEW r \in 0 .. n2 - 1
        PROVE  /\ M[r] \in LineOf(DOMAIN gs2)
               /\ \A g \in DOMAIN gs2 : g \in ToSet(M[r]) <=> r \in ToSet(gs2[g].qubits)
    <3>1. CASE \E q \in DOMAIN f : f[q] = r
      <4>1. PICK q \in DOMAIN f : f[q] = r
        BY <3>1
      <4>2. M[r] = L[q] /\ q \in 0 .. n - 1 /\ L[q] \in LineOf(DOMAIN gs)
        BY <1>1, <1>2, <4>1 DEF Lined
      <4>3. ASSUME NEW g \in DOMAIN gs
            PROVE  q \in ToSet(gs[g].qubits) <=> r \in ToSet(gs2[g].qubits)
        BY <1>1, <1>3, <4>1 DEF ToSet
      <4>4. \A g \in DOMAIN gs : g \in ToSet(L[q]) <=> q \in ToSet(gs[g].qubits)
        BY <1>2, <4>2 DEF Lined
      <4>. QED
        BY <1>1, <4>2, <4>3, <4>4
    <3>2. CASE ~ \E q \in DOMAIN f : f[q] = r
      <4>1. M[r] = <<>>
        BY <1>1, <3>2
      <4>2. <<>> \in LineOf(DOMAIN gs2) /\ \A g : g \notin ToSet(<<>>)
        BY DEF LineOf, IsInjective, ToSet
      <4>3. \A g \in DOMAIN gs : r \notin ToSet(gs2[g].qubits)
        BY <1>3, <3>2 DEF ToSet
      <4>. QED
        BY <1>1, <4>1, <4>2, <4>3
    <3>. QED
      BY <3>1, <3>2
  <2>. QED
    BY <1>1, <2>1, Zenon DEF Lined
<1>6. \A k : LinksOf(gs2, M, k) = LinksOf(gs, L, k)
  <2>1. SUFFICES ASSUME NEW k PROVE LinksOf(gs2, M, k) = LinksOf(gs, L, k)
    OBVIOUS
  <2>2. ASSUME NEW g \in DOMAIN gs
        PROVE  [pin \in DOMAIN gs2[g].qubits |-> Beside(M[gs2[g].qubits[pin]], g, k)]
                   = [pin \in DOMAIN gs[g].qubits |-> Beside(L[gs[g].qubits[pin]], g, k)]
    BY <1>3
  <2>. QED
    BY <1>1, <2>2, Zenon DEF LinksOf
<1>7. PICK up : Upwards(DOMAIN gs, L, up)
  BY DEF Wired
<1>8. Upwards(DOMAIN gs2, M, up)
  <2>1. ASSUME NEW r \in DOMAIN M, NEW i \in DOMAIN M[r], NEW j \in DOMAIN M[r], i < j
        PROVE  up[M[r][i]] < up[M[r][j]]
    <3>1. M[r] # <<>>
      OBVIOUS
    <3>2. PICK q \in DOMAIN f : f[q] = r
      BY <1>1, <3>1
    <3>3. M[r] = L[q] /\ q \in DOMAIN L
      BY <1>1, <1>2, <3>2
    <3>. QED
      BY <1>7, <2>1, <3>3 DEF Upwards
  <2>2. DOMAIN up = DOMAIN gs /\ \E lo, hi \in Int : \A g \in DOMAIN gs : up[g] \in lo .. hi
    BY <1>7 DEF Upwards
  <2>. QED
    BY <1>1, <2>1, <2>2 DEF Upwards
<1>9. Wired(n2, gs2, M, StartsOf(M), EndsOf(M), before, behind)
  BY <1>2, <1>5, <1>6, <1>8 DEF Wired
<1>. QED
  BY <1>4, <1>9

\* An order of the gates stays one.
LEMMA OrderMoved ==
    ASSUME NEW n \in Nat, NEW gs, NEW L, DOMAIN L = 0 .. n - 1, NEW list, InOrder(L, list),
           NEW n2 \in Nat, NEW gs2, NEW M, NEW f, Moved(n, gs, L, n2, gs2, M, f)
    PROVE  InOrder(M, list)
<1>1. ASSUME NEW r \in DOMAIN M, NEW i \in DOMAIN M[r], NEW j \in DOMAIN M[r], i < j
      PROVE  Place(list, M[r][i]) < Place(list, M[r][j])
  <2>1. M[r] # <<>> /\ r \in 0 .. n2 - 1
    BY DEF Moved
  <2>2. PICK q \in DOMAIN f : f[q] = r
    BY <2>1 DEF Moved
  <2>3. M[r] = L[q] /\ q \in DOMAIN L
    BY <2>2 DEF Moved
  <2>. QED
    BY <1>1, <2>3 DEF InOrder
<1>. QED
  BY <1>1 DEF InOrder

-----------------------------------------------------------------------------
(* Copies                                                                  *)

\* The line s goes forward in the list.
Forward(list, s) == /\ ToSet(s) \subseteq ToSet(list)
                    /\ \A i, j \in DOMAIN s : i < j => Place(list, s[i]) < Place(list, s[j])

\* The places in the list of the gates of s from a to b
PlacesOf(list, s, a, b) == {Place(list, s[k]) : k \in a .. b}

\* The first of them from place i + 1, and the last before place i, are its neighbours.
Neighboured(list, s, m) ==
    /\ \A i \in 0 .. m : \A B : B = PlacesOf(list, s, i + 1, m) =>
          (IF B = {} THEN NoGate ELSE list[Min(B)]) = Entry(s, i + 1)
    /\ \A i \in 1 .. m + 1 : \A B : B = PlacesOf(list, s, 1, i - 1) =>
          (IF B = {} THEN NoGate ELSE list[Max(B)]) = Entry(s, i - 1)

LEMMA NextInList ==
    ASSUME NEW ids, NEW s \in LineOf(ids), NEW list \in LineOf(ids), Forward(list, s),
           NEW m \in Nat, m = Len(s)
    PROVE  Neighboured(list, s, m)
<1>1. DOMAIN s = 1 .. m /\ \A k \in 1 .. m : s[k] \in ToSet(s)
  BY PlaceOnLine
<1>2. \A k \in Int : Entry(s, k) = IF k \in 1 .. m THEN s[k] ELSE NoGate
  BY <1>1 DEF Entry
<1>3. PICK len \in Nat : len = Len(list) /\ DOMAIN list = 1 .. len
  <2>1. Len(list) \in Nat /\ DOMAIN list = 1 .. Len(list)
    BY PlaceOnLine
  <2>2. PICK c : c = Len(list)
    OBVIOUS
  <2>. QED
    BY <2>1, <2>2, Zenon
<1>4. PICK p : p = [k \in 1 .. m |-> Place(list, s[k])]
  OBVIOUS
<1>5. \A k \in 1 .. m : p[k] \in 1 .. len /\ list[p[k]] = s[k]
  <2>1. \A k \in 1 .. m : s[k] \in ToSet(list)
    BY <1>1 DEF Forward
  <2>2. \A g \in ToSet(list) : Place(list, g) \in DOMAIN list /\ list[Place(list, g)] = g
    BY PlaceOnLine
  <2>. QED
    BY <1>3, <1>4, <2>1, <2>2
<1>6. \A k, l \in 1 .. m : k < l => p[k] < p[l]
  BY <1>1, <1>4 DEF Forward
<1>7. \A a \in 1 .. m + 1 : \A b \in 0 .. m : PlacesOf(list, s, a, b) = {p[k] : k \in a .. b}
  <2>1. SUFFICES ASSUME NEW a \in 1 .. m + 1, NEW b \in 0 .. m
                 PROVE  PlacesOf(list, s, a, b) = {p[k] : k \in a .. b}
    OBVIOUS
  <2>2. \A k \in a .. b : k \in 1 .. m /\ p[k] = Place(list, s[k])
    BY <1>4
  <2>. QED
    BY <2>2 DEF PlacesOf
<1>8. ASSUME NEW i \in 0 .. m, NEW B, B = PlacesOf(list, s, i + 1, m)
      PROVE  (IF B = {} THEN NoGate ELSE list[Min(B)]) = Entry(s, i + 1)
  <2>1. B = {p[k] : k \in i + 1 .. m}
    <3>1. i + 1 \in 1 .. m + 1 /\ m \in 0 .. m
      OBVIOUS
    <3>. QED
      BY <1>7, <1>8, <3>1
  <2>2. CASE i = m
    <3>1. i + 1 .. m = {} /\ i + 1 \notin 1 .. m
      BY <2>2
    <3>2. B = {}
      BY <2>1, <3>1
    <3>. QED
      BY <1>2, <3>1, <3>2
  <2>3. CASE i # m
    <3>1. PICK k \in 1 .. m : k = i + 1 /\ k \in i + 1 .. m
      BY <2>3
    <3>2. p[k] \in B /\ B # {}
      BY <2>1, <3>1
    <3>3. B \subseteq Nat
      <4>1. \A l \in i + 1 .. m : l \in 1 .. m /\ p[l] \in Nat
        BY <1>5
      <4>. QED
        BY <2>1, <4>1
    <3>4. Min(B) \in B /\ \A x \in B : Min(B) <= x
      BY <3>2, <3>3, MinOfNaturals
    <3>5. PICK l \in i + 1 .. m : Min(B) = p[l]
      BY <2>1, <3>4
    <3>6. l \in 1 .. m /\ p[l] <= p[k] /\ p[l] \in Nat /\ p[k] \in Nat
      BY <1>5, <3>2, <3>4, <3>5
    <3>7. l = k
      <4>1. SUFFICES ASSUME l # k PROVE FALSE
        OBVIOUS
      <4>2. k < l
        BY <3>1, <4>1
      <4>. QED
        BY <1>6, <3>6, <4>2
    <3>. QED
      BY <1>2, <1>5, <3>1, <3>2, <3>5, <3>7
  <2>. QED
    BY <2>2, <2>3
<1>9. ASSUME NEW i \in 1 .. m + 1, NEW B, B = PlacesOf(list, s, 1, i - 1)
      PROVE  (IF B = {} THEN NoGate ELSE list[Max(B)]) = Entry(s, i - 1)
  <2>1. B = {p[k] : k \in 1 .. i - 1}
    <3>1. i - 1 \in 0 .. m /\ 1 \in 1 .. m + 1
      OBVIOUS
    <3>. QED
      BY <1>7, <1>9, <3>1
  <2>2. CASE i = 1
    <3>1. 1 .. i - 1 = {} /\ i - 1 \notin 1 .. m
      BY <2>2
    <3>2. B = {}
      BY <2>1, <3>1
    <3>. QED
      BY <1>2, <3>1, <3>2
  <2>3. CASE i # 1
    <3>1. PICK k \in 1 .. m : k = i - 1 /\ k \in 1 .. i - 1
      BY <2>3
    <3>2. p[k] \in B /\ B # {}
      BY <2>1, <3>1
    <3>3. B \subseteq Nat /\ \A x \in B : x <= len
      <4>1. \A l \in 1 .. i - 1 : l \in 1 .. m /\ p[l] \in Nat /\ p[l] <= len
        BY <1>5
      <4>. QED
        BY <2>1, <4>1
    <3>4. Max(B) \in B /\ \A x \in B : x <= Max(B)
      BY <3>2, <3>3, MaxOfNaturals
    <3>5. PICK l \in 1 .. i - 1 : Max(B) = p[l]
      BY <2>1, <3>4
    <3>6. l \in 1 .. m /\ p[k] <= p[l] /\ p[l] \in Nat /\ p[k] \in Nat
      BY <1>5, <3>2, <3>4, <3>5
    <3>7. l = k
      <4>1. SUFFICES ASSUME l # k PROVE FALSE
        OBVIOUS
      <4>2. l < k
        BY <3>1, <4>1
      <4>. QED
        BY <1>6, <3>6, <4>2
    <3>. QED
      BY <1>2, <1>5, <3>1, <3>2, <3>5, <3>7
  <2>. QED
    BY <2>2, <2>3
<1>. QED
  BY <1>8, <1>9, Zenon DEF Neighboured

\* The places in the list of the gates on q are those of the line s.
InList(gs, list, q, s, m) ==
    /\ Forward(list, s)
    /\ \A j \in DOMAIN list : q \in ToSet(gs[list[j]].qubits) <=>
                              \E k \in 1 .. m : j = Place(list, s[k])

\* The gates of a line in a list of all gates
LEMMA LineInList ==
    ASSUME NEW n \in Nat, NEW gs, NEW L, Lined(n, gs, L),
           NEW list, ListsAll(DOMAIN gs, list), InOrder(L, list),
           NEW q \in 0 .. n - 1, NEW s, s = L[q], NEW m \in Nat, m = Len(s)
    PROVE  InList(gs, list, q, s, m)
<1>1. /\ s \in LineOf(DOMAIN gs) /\ q \in DOMAIN L
      /\ \A g \in DOMAIN gs : g \in ToSet(s) <=> q \in ToSet(gs[g].qubits)
  BY DEF Lined
<1>2. /\ DOMAIN s = 1 .. m /\ \A k \in 1 .. m : s[k] \in DOMAIN gs
      /\ \A g : g \in ToSet(s) <=> \E k \in 1 .. m : s[k] = g
  BY <1>1, PlaceOnLine
<1>3. list \in LineOf(DOMAIN gs) /\ ToSet(list) = DOMAIN gs
  BY DEF ListsAll
<1>4. /\ \A j \in DOMAIN list : list[j] \in DOMAIN gs /\ Place(list, list[j]) = j
      /\ \A g \in DOMAIN gs : Place(list, g) \in DOMAIN list /\ list[Place(list, g)] = g
  BY <1>3, PlaceOnLine
<1>5. Forward(list, s)
  <2>1. ToSet(s) \subseteq ToSet(list)
    BY <1>2, <1>3
  <2>2. \A i, j \in DOMAIN s : i < j => Place(list, s[i]) < Place(list, s[j])
    BY <1>1 DEF InOrder
  <2>. QED
    BY <2>1, <2>2 DEF Forward
<1>6. ASSUME NEW j \in DOMAIN list
      PROVE  q \in ToSet(gs[list[j]].qubits) <=> \E k \in 1 .. m : j = Place(list, s[k])
  <2>1. ASSUME NEW k \in 1 .. m PROVE j = Place(list, s[k]) <=> list[j] = s[k]
    BY <1>2, <1>4
  <2>2. q \in ToSet(gs[list[j]].qubits) <=> \E k \in 1 .. m : list[j] = s[k]
    BY <1>1, <1>2, <1>4
  <2>. QED
    BY <2>1, <2>2
<1>. QED
  BY <1>5, <1>6, Zenon DEF InList

\* The places in the list of the gates on q
AllOn(gs, list, q) == {i \in DOMAIN list : q \in ToSet(gs[list[i]].qubits)}

\* A copy finds the ends of the lines in the list.
LEMMA CopyEnds ==
    ASSUME NEW n \in Nat, NEW gs, NEW L, Lined(n, gs, L),
           NEW list, ListsAll(DOMAIN gs, list), InOrder(L, list),
           NEW q \in 0 .. n - 1,
           NEW B, B = AllOn(gs, list, q)
    PROVE  /\ (IF B = {} THEN NoGate ELSE list[Min(B)]) = Entry(L[q], 1)
           /\ (IF B = {} THEN NoGate ELSE list[Max(B)]) = Entry(L[q], Len(L[q]))
<1>1. PICK s : s = L[q] /\ s \in LineOf(DOMAIN gs)
  BY DEF Lined
<1>2. PICK m \in Nat : m = Len(s)
  BY <1>1, PlaceOnLine
<1>3. /\ Forward(list, s)
      /\ \A j \in DOMAIN list : q \in ToSet(gs[list[j]].qubits) <=>
                                \E k \in 1 .. m : j = Place(list, s[k])
  <2>1. InList(gs, list, q, s, m)
    BY <1>1, <1>2, LineInList
  <2>. QED
    BY <2>1, Zenon DEF InList
<1>4. /\ list \in LineOf(DOMAIN gs)
      /\ \A k \in 1 .. m : Place(list, s[k]) \in DOMAIN list
  <2>1. list \in LineOf(DOMAIN gs) /\ ToSet(list) = DOMAIN gs
    BY DEF ListsAll
  <2>2. \A k \in 1 .. m : s[k] \in DOMAIN gs
    BY <1>1, <1>2, PlaceOnLine
  <2>. QED
    BY <2>1, <2>2, PlaceOnLine
<1>5. B = PlacesOf(list, s, 1, m)
  BY <1>3, <1>4 DEF PlacesOf, AllOn
<1>8. Neighboured(list, s, m)
  BY <1>1, <1>2, <1>3, <1>4, NextInList
<1>6. (IF B = {} THEN NoGate ELSE list[Min(B)]) = Entry(s, 1)
  <2>1. B = PlacesOf(list, s, 0 + 1, m) /\ 0 \in 0 .. m
    BY <1>5
  <2>2. (IF B = {} THEN NoGate ELSE list[Min(B)]) = Entry(s, 0 + 1)
    BY <1>8, <2>1, Zenon DEF Neighboured
  <2>. QED
    BY <2>2
<1>7. (IF B = {} THEN NoGate ELSE list[Max(B)]) = Entry(s, m)
  <2>1. PICK i \in 1 .. m + 1 : i = m + 1 /\ i - 1 = m
    OBVIOUS
  <2>2. B = PlacesOf(list, s, 1, i - 1)
    BY <1>5, <2>1
  <2>3. (IF B = {} THEN NoGate ELSE list[Max(B)]) = Entry(s, i - 1)
    BY <1>8, <2>2, Zenon DEF Neighboured
  <2>. QED
    BY <2>1, <2>3
<1>. QED
  BY <1>1, <1>2, <1>6, <1>7

\* The places in the list of the gates on q behind and before the place at
Above(gs, list, q, at) == {i \in DOMAIN list : q \in ToSet(gs[list[i]].qubits) /\ i > at}
Below(gs, list, q, at) == {i \in DOMAIN list : q \in ToSet(gs[list[i]].qubits) /\ i < at}

\* ... and the neighbours of the gates.
LEMMA CopyLinks ==
    ASSUME NEW n \in Nat, gates \in Circuits(n), NEW L, Lined(n, gates, L),
           NEW list, ListsAll(DOMAIN gates, list), InOrder(L, list)
    PROVE  Neighbours(list, 1) = LinksOf(gates, L, 1) /\ Neighbours(list, -1) = LinksOf(gates, L, -1)
<1>1. ToSet(list) = DOMAIN gates /\ list \in LineOf(DOMAIN gates)
  BY DEF ListsAll
<1>2. ASSUME NEW g \in DOMAIN gates, NEW pin \in DOMAIN gates[g].qubits,
             NEW q, q = gates[g].qubits[pin], NEW at, at = Place(list, g), NEW up, NEW down,
             up = Above(gates, list, q, at), down = Below(gates, list, q, at)
      PROVE  /\ (IF up = {} THEN NoGate ELSE list[Min(up)]) = Beside(L[q], g, 1)
             /\ (IF down = {} THEN NoGate ELSE list[Max(down)]) = Beside(L[q], g, -1)
  <2>1. q \in 0 .. n - 1 /\ L[q] \in LineOf(DOMAIN gates) /\ g \in ToSet(L[q])
    BY <1>2, OnItsLine
  <2>2. PICK s : s = L[q] /\ s \in LineOf(DOMAIN gates) /\ g \in ToSet(s)
    BY <2>1
  <2>3. PICK m \in Nat : m = Len(s)
    BY <2>2, PlaceOnLine
  <2>4. /\ DOMAIN s = 1 .. m
        /\ \A k \in 1 .. m : s[k] \in DOMAIN gates
    BY <2>2, <2>3, PlaceOnLine
  <2>5. PICK i \in 1 .. m : s[i] = g /\ Place(s, g) = i
    BY <2>2, <2>4, PlaceOnLine
  <2>6. /\ Forward(list, s)
        /\ \A j \in DOMAIN list : q \in ToSet(gates[list[j]].qubits) <=>
                                  \E k \in 1 .. m : j = Place(list, s[k])
    <3>1. InList(gates, list, q, s, m)
      BY <2>1, <2>2, <2>3, LineInList
    <3>. QED
      BY <3>1, Zenon DEF InList
  <2>7. PICK p : p = [k \in 1 .. m |-> Place(list, s[k])]
    OBVIOUS
  <2>8. PICK len \in Nat : DOMAIN list = 1 .. len
    <3>1. DOMAIN list = 1 .. Len(list) /\ Len(list) \in Nat
      BY <1>1, PlaceOnLine
    <3>2. PICK c : c = Len(list)
      OBVIOUS
    <3>. QED
      BY <3>1, <3>2, Zenon
  <2>9. \A k \in 1 .. m : p[k] \in 1 .. len
    BY <1>1, <2>4, <2>7, <2>8, PlaceOnLine
  <2>10. at = p[i] /\ \A k, l \in 1 .. m : k < l => p[k] < p[l]
    BY <1>2, <2>4, <2>5, <2>6, <2>7 DEF Forward
  <2>11. \A k \in 1 .. m : (p[k] > at <=> k > i) /\ (p[k] < at <=> k < i)
    <3>1. SUFFICES ASSUME NEW k \in 1 .. m PROVE (p[k] > at <=> k > i) /\ (p[k] < at <=> k < i)
      OBVIOUS
    <3>2. p[k] \in Int /\ p[i] \in Int
      BY <2>9
    <3>3. k < i \/ k = i \/ k > i
      OBVIOUS
    <3>. QED
      BY <2>10, <3>2, <3>3
  <2>18. \A j : j \in DOMAIN list /\ q \in ToSet(gates[list[j]].qubits) <=> \E k \in 1 .. m : j = p[k]
    <3>1. \A k \in 1 .. m : p[k] = Place(list, s[k]) /\ p[k] \in DOMAIN list
      BY <2>7, <2>8, <2>9
    <3>. QED
      BY <2>6, <3>1, Zenon
  <2>12. up = PlacesOf(list, s, i + 1, m)
    <3>1. \A k \in i + 1 .. m : k \in 1 .. m /\ k > i
      OBVIOUS
    <3>2. \A k \in 1 .. m : k > i => k \in i + 1 .. m
      OBVIOUS
    <3>3. \A j : j \in up <=> \E k \in 1 .. m : j = p[k] /\ k > i
      <4>1. \A j : j \in up <=> (j \in DOMAIN list /\ q \in ToSet(gates[list[j]].qubits)) /\ j > at
        BY <1>2 DEF Above
      <4>. QED
        BY <2>11, <2>18, <4>1, Zenon
    <3>4. \A j : j \in PlacesOf(list, s, i + 1, m) <=> \E k \in i + 1 .. m : j = Place(list, s[k])
      BY DEF PlacesOf
    <3>5. \A k \in 1 .. m : p[k] = Place(list, s[k])
      BY <2>7
    <3>. QED
      BY <3>1, <3>2, <3>3, <3>4, <3>5
  <2>13. down = PlacesOf(list, s, 1, i - 1)
    <3>1. \A k \in 1 .. i - 1 : k \in 1 .. m /\ k < i
      OBVIOUS
    <3>2. \A k \in 1 .. m : k < i => k \in 1 .. i - 1
      OBVIOUS
    <3>3. \A j : j \in down <=> \E k \in 1 .. m : j = p[k] /\ k < i
      <4>1. \A j : j \in down <=> (j \in DOMAIN list /\ q \in ToSet(gates[list[j]].qubits)) /\ j < at
        BY <1>2 DEF Below
      <4>. QED
        BY <2>11, <2>18, <4>1, Zenon
    <3>4. \A j : j \in PlacesOf(list, s, 1, i - 1) <=> \E k \in 1 .. i - 1 : j = Place(list, s[k])
      BY DEF PlacesOf
    <3>5. \A k \in 1 .. m : p[k] = Place(list, s[k])
      BY <2>7
    <3>6. \A j : j \in down <=> j \in PlacesOf(list, s, 1, i - 1)
      BY <3>1, <3>2, <3>3, <3>4, <3>5, Zenon
    <3>. QED
      BY <3>6
  <2>17. Neighboured(list, s, m)
    BY <1>1, <2>2, <2>3, <2>6, NextInList
  <2>14. (IF up = {} THEN NoGate ELSE list[Min(up)]) = Entry(s, i + 1)
    <3>1. i \in 0 .. m
      OBVIOUS
    <3>. QED
      BY <2>12, <2>17, <3>1, Zenon DEF Neighboured
  <2>15. (IF down = {} THEN NoGate ELSE list[Max(down)]) = Entry(s, i - 1)
    <3>1. i \in 1 .. m + 1
      OBVIOUS
    <3>. QED
      BY <2>13, <2>17, <3>1, Zenon DEF Neighboured
  <2>16. Beside(s, g, 1) = Entry(s, i + 1) /\ Beside(s, g, -1) = Entry(s, i - 1)
    <3>1. i + -1 = i - 1
      OBVIOUS
    <3>. QED
      BY <2>5, <3>1 DEF Beside
  <2>. QED
    BY <2>2, <2>14, <2>15, <2>16
<1>3. ASSUME NEW g \in DOMAIN gates, NEW pin \in DOMAIN gates[g].qubits
      PROVE  /\ LET at == CHOOSE i \in DOMAIN list : list[i] = g
                    beyond == {i \in DOMAIN list :
                                  /\ gates[g].qubits[pin] \in ToSet(gates[list[i]].qubits)
                                  /\ (i - at) * 1 > 0}
                IN  (IF beyond = {} THEN NoGate ELSE list[IF 1 > 0 THEN Min(beyond) ELSE Max(beyond)])
                    = Beside(L[gates[g].qubits[pin]], g, 1)
             /\ LET at == CHOOSE i \in DOMAIN list : list[i] = g
                    beyond == {i \in DOMAIN list :
                                  /\ gates[g].qubits[pin] \in ToSet(gates[list[i]].qubits)
                                  /\ (i - at) * (-1) > 0}
                IN  (IF beyond = {} THEN NoGate ELSE list[IF -1 > 0 THEN Min(beyond) ELSE Max(beyond)])
                    = Beside(L[gates[g].qubits[pin]], g, -1)
  <2>1. PICK q, at : q = gates[g].qubits[pin] /\ at = Place(list, g)
    OBVIOUS
  <2>2. PICK up, down : up = Above(gates, list, q, at) /\ down = Below(gates, list, q, at)
    OBVIOUS
  <2>3. /\ (IF up = {} THEN NoGate ELSE list[Min(up)]) = Beside(L[q], g, 1)
        /\ (IF down = {} THEN NoGate ELSE list[Max(down)]) = Beside(L[q], g, -1)
    BY <1>2, <2>1, <2>2
  <2>4. PICK len \in Nat : DOMAIN list = 1 .. len
    <3>1. DOMAIN list = 1 .. Len(list) /\ Len(list) \in Nat
      BY <1>1, PlaceOnLine
    <3>2. PICK c : c = Len(list)
      OBVIOUS
    <3>. QED
      BY <3>1, <3>2, Zenon
  <2>5. at \in 1 .. len
    BY <1>1, <2>1, <2>4, PlaceOnLine
  <2>6. \A i \in 1 .. len : ((i - at) * 1 > 0 <=> i > at) /\ ((i - at) * (-1) > 0 <=> i < at)
    BY <2>5
  <2>7. /\ up = {i \in DOMAIN list : /\ gates[g].qubits[pin] \in ToSet(gates[list[i]].qubits)
                                     /\ (i - at) * 1 > 0}
        /\ down = {i \in DOMAIN list : /\ gates[g].qubits[pin] \in ToSet(gates[list[i]].qubits)
                                       /\ (i - at) * (-1) > 0}
    BY <2>1, <2>2, <2>4, <2>6 DEF Above, Below
  <2>8. at = CHOOSE i \in DOMAIN list : list[i] = g
    BY <2>1 DEF Place
  <2>9. 1 > 0 /\ ~(-1 > 0)
    OBVIOUS
  <2>. QED
    BY <2>1, <2>3, <2>7, <2>8, <2>9, Zenon
<1>4. Neighbours(list, 1) = LinksOf(gates, L, 1)
  BY <1>1, <1>3, Zenon DEF Neighbours, LinksOf
<1>5. Neighbours(list, -1) = LinksOf(gates, L, -1)
  BY <1>1, <1>3, Zenon DEF Neighbours, LinksOf
<1>. QED
  BY <1>4, <1>5

-----------------------------------------------------------------------------
(* The invariant                                                           *)

\* The four maps are those of the lines, and a list that is not dirty is an order of the gates.
CircuitInv ==
    /\ numQubits \in Nat /\ gateId \in Nat /\ dirty \in BOOLEAN
    /\ gates \in Circuits(numQubits) /\ DOMAIN gates \subseteq 0 .. gateId - 1
    /\ Wired(numQubits, gates, Lines, first, last, preds, succs)
    /\ ~dirty => ListsAll(DOMAIN gates, gateList) /\ InOrder(Lines, gateList)

\* ... and what is left to append fits.
QCirInv == /\ CircuitInv
           /\ todo \in Seq(GateSet(numQubits))

\* What an operation is to the callers
WireStep == [Wires!WireNext]_<<numQubits, gates, Lines>>

\* A line for every qubit and nothing else
LinesFor(n, L) == L = [q \in 0 .. n - 1 |-> L[q]]

\* The lines as the links show them
Read(n, gs, starts, behind) == [q \in 0 .. n - 1 |-> Follow(gs, starts, behind, q)]

\* The lines are determined by the maps.
LEMMA LinesDetermined ==
    ASSUME NEW n \in Nat, NEW gs \in Circuits(n), IsFiniteSet(DOMAIN gs), NEW L, LinesFor(n, L),
           NEW starts, NEW ends, NEW before, NEW behind,
           Wired(n, gs, L, starts, ends, before, behind)
    PROVE  Read(n, gs, starts, behind) = L
<1>1. \A q \in 0 .. n - 1 : Follow(gs, starts, behind, q) = L[q]
  BY LinesRead
<1>. QED
  BY <1>1 DEF LinesFor, Read

\* Ids below the next one
LEMMA FiniteIds ==
    ASSUME NEW k \in Nat, NEW ids, ids \subseteq 0 .. k - 1
    PROVE  IsFiniteSet(ids) /\ k \notin ids /\ ids \subseteq Nat
<1>1. IsFiniteSet(0 .. k - 1)
  BY FS_Interval
<1>2. IsFiniteSet(ids)
  BY <1>1, FS_Subset
<1>. QED
  BY <1>2

\* After a change of the links
LEMMA LinesAfter ==
    ASSUME numQubits' \in Nat, gateId' \in Nat, gates' \in Circuits(numQubits'),
           DOMAIN gates' \subseteq 0 .. gateId' - 1, dirty',
           NEW M, LinesFor(numQubits', M),
           Wired(numQubits', gates', M, first', last', preds', succs')
    PROVE  CircuitInv' /\ Lines' = M
<1>1. IsFiniteSet(DOMAIN gates')
  BY FiniteIds
<1>2. Read(numQubits', gates', first', succs') = M
  BY <1>1, LinesDetermined
<1>3. Lines' = M
  BY <1>2 DEF Lines, QubitIds, Read
<1>. QED
  BY <1>3 DEF CircuitInv

\* The gates that get_gates returns
LEMMA CurrentOrder ==
    ASSUME CircuitInv
    PROVE  ListsAll(DOMAIN gates, CurrentGates) /\ InOrder(Lines, CurrentGates)
<1>1. CASE dirty
  <2>1. CurrentGates = DfsOrder(RootsOf(numQubits, first), succs, Cardinality(DOMAIN succs))
    BY <1>1 DEF CurrentGates, TopologicalOrder, RootsOf
  <2>2. IsFiniteSet(DOMAIN gates)
    BY FiniteIds DEF CircuitInv
  <2>. QED
    BY <2>1, <2>2, SearchListsAll DEF CircuitInv
<1>2. CASE ~dirty
  BY <1>2 DEF CircuitInv, CurrentGates
<1>. QED
  BY <1>1, <1>2 DEF CircuitInv

-----------------------------------------------------------------------------
(* The operations                                                          *)

LEMMA AppendGateKeeps ==
    ASSUME CircuitInv, NEW op, NEW bits, [op |-> op, qubits |-> bits] \in GateSet(numQubits),
           AppendGate(op, bits)
    PROVE  /\ CircuitInv' /\ WireStep
           /\ Wires!AppendWire(gateId) /\ NewGateIs(op, bits)
<1>1. PICK n \in Nat, g \in Nat : n = numQubits /\ g = gateId
  BY DEF CircuitInv
<1>2. PICK x \in GateSet(n) : x = [op |-> op, qubits |-> bits]
  BY <1>1
<1>3. x.qubits = bits
  BY <1>2
<1>4. PICK gs2, M : /\ gs2 = WithEntry(gates, g, x)
                    /\ M = [q \in 0 .. n - 1 |-> IF q \in ToSet(x.qubits) THEN Append(Lines[q], g)
                                                 ELSE Lines[q]]
  OBVIOUS
<1>5. gates \in Circuits(n) /\ DOMAIN gates \subseteq 0 .. g - 1 /\ g \notin DOMAIN gates
      /\ Wired(n, gates, Lines, first, last, preds, succs)
  BY <1>1 DEF CircuitInv
<1>6. Added(n, gates, g, x, gs2)
  BY <1>4, <1>5, GateAdded
<1>7. Wired(n, gs2, M, AtEmpty(first, g, x.qubits), AtEnd(last, g, x.qubits),
            LinkOutward(last, preds, g, x.qubits), LinkInward(gates, last, succs, g, x.qubits))
  BY <1>4, <1>5, <1>6, AppendWired
<1>8. /\ numQubits' = n /\ gates' = gs2 /\ gateId' = g + 1 /\ dirty'
      /\ first' = AtEmpty(first, g, x.qubits) /\ last' = AtEnd(last, g, x.qubits)
      /\ preds' = LinkOutward(last, preds, g, x.qubits)
      /\ succs' = LinkInward(gates, last, succs, g, x.qubits)
  BY <1>1, <1>2, <1>3, <1>4 DEF AppendGate, AddGate
<1>9. /\ gs2 \in Circuits(n) /\ DOMAIN gs2 = DOMAIN gates \cup {g} /\ gs2[g] = x
      /\ \A h \in DOMAIN gates : gs2[h] = gates[h]
  BY <1>6 DEF Added
<1>10. DOMAIN gs2 \subseteq 0 .. (g + 1) - 1
  BY <1>5, <1>9
<1>11. LinesFor(n, M)
  BY <1>4 DEF LinesFor
<1>12. CircuitInv' /\ Lines' = M
  <2>1. Wired(numQubits', gates', M, first', last', preds', succs')
    BY <1>7, <1>8
  <2>2. /\ numQubits' \in Nat /\ gateId' \in Nat /\ gates' \in Circuits(numQubits') /\ dirty'
        /\ DOMAIN gates' \subseteq 0 .. gateId' - 1 /\ LinesFor(numQubits', M)
    BY <1>8, <1>9, <1>10, <1>11
  <2>. QED
    BY <2>1, <2>2, LinesAfter
<1>13. Wires!AppendWire(g)
  <2>1. Wires!NewGate(g)
    BY <1>5, <1>8, <1>9, <1>1 DEF Wires!NewGate
  <2>2. gates'[g].qubits = x.qubits
    BY <1>8, <1>9
  <2>3. Lines' = [q \in Wires!QubitIds |-> IF q \in Wires!ToSet(gates'[g].qubits)
                                          THEN Append(Lines[q], g) ELSE Lines[q]]
    BY <1>1, <1>4, <1>12, <2>2 DEF Wires!QubitIds, Wires!ToSet, ToSet
  <2>. QED
    BY <2>1, <2>3 DEF Wires!AppendWire, Wires!OnLines
<1>14. g \in DOMAIN gates' /\ NewGateIs(op, bits)
  BY <1>1, <1>2, <1>8, <1>9 DEF NewGateIs
<1>15. WireStep
  BY <1>13, <1>14 DEF WireStep, Wires!WireNext
<1>. QED
  BY <1>1, <1>12, <1>13, <1>14, <1>15

LEMMA PrependGateKeeps ==
    ASSUME CircuitInv, NEW op, NEW bits, [op |-> op, qubits |-> bits] \in GateSet(numQubits),
           PrependGate(op, bits)
    PROVE  /\ CircuitInv' /\ WireStep
           /\ Wires!PrependWire(gateId) /\ NewGateIs(op, bits)
<1>1. PICK n \in Nat, g \in Nat : n = numQubits /\ g = gateId
  BY DEF CircuitInv
<1>2. PICK x \in GateSet(n) : x = [op |-> op, qubits |-> bits]
  BY <1>1
<1>3. x.qubits = bits
  BY <1>2
<1>4. PICK gs2, M : /\ gs2 = WithEntry(gates, g, x)
                    /\ M = [q \in 0 .. n - 1 |-> IF q \in ToSet(x.qubits) THEN <<g>> \o Lines[q]
                                                 ELSE Lines[q]]
  OBVIOUS
<1>5. gates \in Circuits(n) /\ DOMAIN gates \subseteq 0 .. g - 1 /\ g \notin DOMAIN gates
      /\ Wired(n, gates, Lines, first, last, preds, succs)
  BY <1>1 DEF CircuitInv
<1>6. Added(n, gates, g, x, gs2)
  BY <1>4, <1>5, GateAdded
<1>7. Wired(n, gs2, M, AtEnd(first, g, x.qubits), AtEmpty(last, g, x.qubits),
            LinkInward(gates, first, preds, g, x.qubits), LinkOutward(first, succs, g, x.qubits))
  BY <1>4, <1>5, <1>6, PrependWired
<1>8. /\ numQubits' = n /\ gates' = gs2 /\ gateId' = g + 1 /\ dirty'
      /\ first' = AtEnd(first, g, x.qubits) /\ last' = AtEmpty(last, g, x.qubits)
      /\ preds' = LinkInward(gates, first, preds, g, x.qubits)
      /\ succs' = LinkOutward(first, succs, g, x.qubits)
  BY <1>1, <1>2, <1>3, <1>4 DEF PrependGate, AddGate
<1>9. /\ gs2 \in Circuits(n) /\ DOMAIN gs2 = DOMAIN gates \cup {g} /\ gs2[g] = x
      /\ \A h \in DOMAIN gates : gs2[h] = gates[h]
  BY <1>6 DEF Added
<1>10. DOMAIN gs2 \subseteq 0 .. (g + 1) - 1
  BY <1>5, <1>9
<1>11. LinesFor(n, M)
  BY <1>4 DEF LinesFor
<1>12. CircuitInv' /\ Lines' = M
  <2>1. Wired(numQubits', gates', M, first', last', preds', succs')
    BY <1>7, <1>8
  <2>2. /\ numQubits' \in Nat /\ gateId' \in Nat /\ gates' \in Circuits(numQubits') /\ dirty'
        /\ DOMAIN gates' \subseteq 0 .. gateId' - 1 /\ LinesFor(numQubits', M)
    BY <1>8, <1>9, <1>10, <1>11
  <2>. QED
    BY <2>1, <2>2, LinesAfter
<1>13. Wires!PrependWire(g)
  <2>1. Wires!NewGate(g)
    BY <1>5, <1>8, <1>9, <1>1 DEF Wires!NewGate
  <2>2. gates'[g].qubits = x.qubits
    BY <1>8, <1>9
  <2>3. Lines' = [q \in Wires!QubitIds |-> IF q \in Wires!ToSet(gates'[g].qubits)
                                          THEN <<g>> \o Lines[q] ELSE Lines[q]]
    BY <1>1, <1>4, <1>12, <2>2 DEF Wires!QubitIds, Wires!ToSet, ToSet
  <2>. QED
    BY <2>1, <2>3 DEF Wires!PrependWire, Wires!OnLines
<1>14. g \in DOMAIN gates' /\ NewGateIs(op, bits)
  BY <1>1, <1>2, <1>8, <1>9 DEF NewGateIs
<1>15. WireStep
  BY <1>13, <1>14 DEF WireStep, Wires!WireNext
<1>. QED
  BY <1>1, <1>12, <1>13, <1>14, <1>15


\* remove_gate joins what is on both sides of the gate.
LEMMA RemoveGateKeeps ==
    ASSUME CircuitInv, NEW g \in DOMAIN gates, RemoveGate(g)
    PROVE  CircuitInv' /\ WireStep /\ Wires!RemoveWire(g)
<1>1. PICK n \in Nat : n = numQubits
  BY DEF CircuitInv
<1>2. PICK gs2, M : gs2 = [h \in DOMAIN gates \ {g} |-> gates[h]] /\ RemovedFrom(Lines, g, M)
  BY DEF RemovedFrom
<1>3. gates \in Circuits(n) /\ DOMAIN gates \subseteq 0 .. gateId - 1
      /\ Wired(n, gates, Lines, first, last, preds, succs)
  BY <1>1 DEF CircuitInv
<1>4. /\ gs2 \in Circuits(n)
      /\ Wired(n, gs2, M,
               EndsWithout(gates, g, first, preds, succs), EndsWithout(gates, g, last, succs, preds),
               Bridge(gates, g, succs, preds), Bridge(gates, g, preds, succs))
  BY <1>2, <1>3, RemoveWired
<1>5. /\ numQubits' = n /\ gates' = gs2 /\ gateId' = gateId /\ dirty'
      /\ first' = EndsWithout(gates, g, first, preds, succs)
      /\ last' = EndsWithout(gates, g, last, succs, preds)
      /\ preds' = Bridge(gates, g, succs, preds)
      /\ succs' = Bridge(gates, g, preds, succs)
  BY <1>1, <1>2 DEF RemoveGate
<1>6. DOMAIN gs2 \subseteq 0 .. gateId - 1
  BY <1>2, <1>3
<1>7. DOMAIN Lines = 0 .. n - 1
  BY <1>1 DEF Lines, QubitIds
<1>8. LinesFor(n, M)
  BY <1>2, <1>7 DEF LinesFor, RemovedFrom
<1>9. CircuitInv' /\ Lines' = M
  <2>1. Wired(numQubits', gates', M, first', last', preds', succs')
    BY <1>4, <1>5
  <2>2. /\ numQubits' \in Nat /\ gateId' \in Nat /\ gates' \in Circuits(numQubits') /\ dirty'
        /\ DOMAIN gates' \subseteq 0 .. gateId' - 1 /\ LinesFor(numQubits', M)
    BY <1>4, <1>5, <1>6, <1>8 DEF CircuitInv
  <2>. QED
    BY <2>1, <2>2, LinesAfter
<1>10. Wires!RemoveWire(g)
  <2>1. \A q \in 0 .. n - 1 : g \in ToSet(Lines[q]) <=> q \in ToSet(gates[g].qubits)
    BY <1>3 DEF Wired, Lined
  <2>2. Lines' = [q \in 0 .. n - 1 |-> IF q \in ToSet(gates[g].qubits)
                                       THEN RemoveAt(Lines[q], Place(Lines[q], g)) ELSE Lines[q]]
    BY <1>2, <1>7, <1>9, <2>1, Zenon DEF RemovedFrom
  <2>3. \A s : RemoveAt(s, Place(s, g)) =
                   Wires!RemoveAt(s, CHOOSE i \in DOMAIN s : s[i] = g)
    BY DEF RemoveAt, Wires!RemoveAt, Place
  <2>4. Lines' = [q \in Wires!QubitIds |->
                     IF q \in Wires!ToSet(gates[g].qubits)
                     THEN Wires!RemoveAt(Lines[q], CHOOSE i \in DOMAIN Lines[q] : Lines[q][i] = g)
                     ELSE Lines[q]]
    BY <1>1, <2>2, <2>3, Zenon DEF Wires!QubitIds, Wires!ToSet, ToSet
  <2>5. numQubits' = numQubits /\ gates' = [h \in DOMAIN gates \ {g} |-> gates[h]]
    BY <1>1, <1>2, <1>5
  <2>. QED
    BY <2>4, <2>5, Zenon DEF Wires!RemoveWire, Wires!OnLines
<1>. QED
  BY <1>9, <1>10 DEF WireStep, Wires!WireNext

\* adjoint_inplace turns all lines.
LEMMA AdjointKeeps ==
    ASSUME CircuitInv, AdjointInplace
    PROVE  CircuitInv' /\ WireStep /\ Wires!AdjointWires
<1>1. PICK n \in Nat : n = numQubits
  BY DEF CircuitInv
<1>2. PICK gs2, M : /\ gs2 = [g \in DOMAIN gates |-> [gates[g] EXCEPT !.op = Adjoint[@]]]
                    /\ M = TurnedLines(Lines)
  OBVIOUS
<1>3. gates \in Circuits(n) /\ DOMAIN gates \subseteq 0 .. gateId - 1
      /\ Wired(n, gates, Lines, first, last, preds, succs)
  BY <1>1 DEF CircuitInv
<1>4. SameQubits(n, gates, gs2)
  <2>1. PICK ids \in SUBSET Nat : gates \in [ids -> GateSet(n)]
    BY <1>3 DEF Circuits
  <2>2. ASSUME NEW g \in ids
        PROVE  gs2[g] \in GateSet(n) /\ gs2[g].qubits = gates[g].qubits
    <3>1. gates[g] \in GateSet(n) /\ gs2[g] = [gates[g] EXCEPT !.op = Adjoint[@]]
      BY <1>2, <2>1
    <3>2. PICK x \in GateSet(n) : x = gates[g]
      BY <3>1
    <3>3. PICK y : y = gs2[g]
      OBVIOUS
    <3>4. y = [x EXCEPT !.op = Adjoint[@]]
      BY <3>1, <3>2, <3>3
    <3>5. y.qubits = x.qubits /\ y.op = Adjoint[x.op]
          /\ y \in [op : DOMAIN Adjoint, qubits : Seq(0 .. n - 1)]
      BY <3>4, QCirAssumption DEF GateSet
    <3>. QED
      BY <3>2, <3>5, <3>3 DEF GateSet
  <2>3. gs2 \in [ids -> GateSet(n)] /\ DOMAIN gs2 = ids /\ DOMAIN gates = ids
    BY <1>2, <2>1, <2>2
  <2>. QED
    BY <2>1, <2>2, <2>3 DEF SameQubits, Circuits
<1>5. Wired(n, gs2, M, last, first, succs, preds)
  BY <1>2, <1>3, <1>4, WiredTurned
<1>6. /\ numQubits' = n /\ gates' = gs2 /\ gateId' = gateId /\ dirty'
      /\ first' = last /\ last' = first /\ preds' = succs /\ succs' = preds
  BY <1>1, <1>2 DEF AdjointInplace
<1>7. DOMAIN Lines = 0 .. n - 1
  BY <1>1 DEF Lines, QubitIds
<1>8. LinesFor(n, M)
  BY <1>2, <1>7 DEF LinesFor, TurnedLines
<1>9. CircuitInv' /\ Lines' = M
  <2>1. Wired(numQubits', gates', M, first', last', preds', succs')
    BY <1>5, <1>6
  <2>2. /\ numQubits' \in Nat /\ gateId' \in Nat /\ gates' \in Circuits(numQubits') /\ dirty'
        /\ DOMAIN gates' \subseteq 0 .. gateId' - 1 /\ LinesFor(numQubits', M)
    BY <1>3, <1>4, <1>6, <1>8 DEF CircuitInv, SameQubits
  <2>. QED
    BY <2>1, <2>2, LinesAfter
<1>10. Wires!AdjointWires
  <2>1. Lines' = [q \in Wires!QubitIds |-> Wires!Reverse(Lines[q])]
    BY <1>1, <1>2, <1>7, <1>9 DEF TurnedLines, Wires!QubitIds, Wires!Reverse, Reverse
  <2>2. numQubits' = numQubits /\ gates' = [g \in DOMAIN gates |-> [gates[g] EXCEPT !.op = Adjoint[@]]]
    BY <1>1, <1>2, <1>6
  <2>. QED
    BY <2>1, <2>2, Zenon DEF Wires!AdjointWires
<1>. QED
  BY <1>9, <1>10 DEF WireStep, Wires!WireNext

\* A gate with other qubits
LEMMA GateOnto ==
    ASSUME NEW n \in Nat, NEW gs \in Circuits(n), NEW g \in DOMAIN gs, NEW bits
    PROVE  [gs[g] EXCEPT !.qubits = bits] = [op |-> gs[g].op, qubits |-> bits]
<1>1. PICK x \in GateSet(n) : x = gs[g]
  BY CircuitGates
<1>2. [x EXCEPT !.qubits = bits] = [op |-> x.op, qubits |-> bits]
  BY DEF GateSet
<1>. QED
  BY <1>1, <1>2

\* The cache as it was, or filled by get_gates
CacheKept == \/ UNCHANGED <<gateList, dirty>>
             \/ gateList' = CurrentGates /\ dirty' = FALSE

\* What an operation that moves the qubits has to show
LEMMA MovedKeeps ==
    ASSUME CircuitInv, NEW n2 \in Nat, NEW M, NEW f,
           Moved(numQubits, gates, Lines, n2, gates', M, f), LinesFor(n2, M),
           numQubits' = n2, first' = StartsOf(M), last' = EndsOf(M),
           preds' = preds, succs' = succs, gateId' = gateId, CacheKept
    PROVE  CircuitInv' /\ Lines' = M
<1>1. /\ gates' \in Circuits(n2)
      /\ Wired(n2, gates', M, first', last', preds', succs')
  BY WiredMoved DEF CircuitInv
<1>2. DOMAIN gates' = DOMAIN gates
  BY DEF Moved
<1>3. IsFiniteSet(DOMAIN gates')
  BY <1>2, FiniteIds DEF CircuitInv
<1>4. Read(numQubits', gates', first', succs') = M
  BY <1>1, <1>3, LinesDetermined
<1>5. Lines' = M
  BY <1>4 DEF Lines, QubitIds, Read
<1>6. ~dirty' => ListsAll(DOMAIN gates', gateList') /\ InOrder(M, gateList')
  <2>1. SUFFICES ASSUME ~dirty'
                 PROVE  ListsAll(DOMAIN gates', gateList') /\ InOrder(M, gateList')
    OBVIOUS
  <2>2. ListsAll(DOMAIN gates, gateList') /\ InOrder(Lines, gateList')
    <3>1. CASE UNCHANGED <<gateList, dirty>>
      BY <2>1, <3>1 DEF CircuitInv
    <3>2. CASE gateList' = CurrentGates /\ dirty' = FALSE
      BY <3>2, CurrentOrder
    <3>. QED
      BY <3>1, <3>2 DEF CacheKept
  <2>3. DOMAIN Lines = 0 .. numQubits - 1
    BY DEF Lines, QubitIds
  <2>4. InOrder(M, gateList')
    BY <2>2, <2>3, OrderMoved DEF CircuitInv
  <2>. QED
    BY <1>2, <2>2, <2>4
<1>7. dirty' \in BOOLEAN
  BY DEF CacheKept, CircuitInv
<1>. QED
  BY <1>1, <1>2, <1>5, <1>6, <1>7 DEF CircuitInv

\* The ends of an empty line
LEMMA EmptyLine ==
    ASSUME NEW ids, NoGate \notin ids, NEW s \in LineOf(ids)
    PROVE  /\ s = <<>> => Entry(s, 1) = NoGate /\ Entry(s, Len(s)) = NoGate
           /\ Entry(s, 1) = NoGate => s = <<>>
<1>1. PICK m \in Nat : m = Len(s)
  BY PlaceOnLine
<1>2. DOMAIN s = 1 .. m /\ \A i \in 1 .. m : s[i] \in ids
  BY <1>1, PlaceOnLine
<1>3. s \in Seq(ids)
  BY DEF LineOf
<1>4. s = <<>> => Entry(s, 1) = NoGate /\ Entry(s, Len(s)) = NoGate
  BY DEF Entry
<1>5. ASSUME Entry(s, 1) = NoGate PROVE s = <<>>
  <2>1. m = 0
    BY <1>2, <1>5 DEF Entry
  <2>2. Len(s) = 0
    BY <1>1, <2>1
  <2>. QED
    BY <1>3, <2>2
<1>. QED
  BY <1>4, <1>5

\* add_qubits puts empty lines behind the others.
LEMMA AddQubitsKeeps ==
    ASSUME CircuitInv, NEW num \in Nat, AddQubits(num)
    PROVE  /\ CircuitInv' /\ WireStep
           /\ num # 0 => Wires!InsertWires(numQubits, num)
<1>1. PICK n \in Nat : n = numQubits
  BY DEF CircuitInv
<1>2. /\ gates \in Circuits(n) /\ DOMAIN Lines = 0 .. n - 1
      /\ first = StartsOf(Lines) /\ last = EndsOf(Lines) /\ Lined(n, gates, Lines)
  BY <1>1 DEF CircuitInv, Wired, Lined
<1>3. PICK M, f : /\ M = [q \in 0 .. n + num - 1 |-> IF q < n THEN Lines[q] ELSE <<>>]
                  /\ f = [q \in 0 .. n - 1 |-> q]
  OBVIOUS
<1>4. /\ numQubits' = n + num /\ gates' = gates /\ gateId' = gateId
      /\ preds' = preds /\ succs' = succs /\ CacheKept
      /\ first' = [q \in 0 .. n + num - 1 |-> IF q < n THEN first[q] ELSE NoGate]
      /\ last' = [q \in 0 .. n + num - 1 |-> IF q < n THEN last[q] ELSE NoGate]
  BY <1>1 DEF AddQubits, cacheVars, linkVars, CacheKept
<1>5. ASSUME NEW g \in DOMAIN gates, NEW bits, bits = gates[g].qubits
      PROVE  /\ [pin \in DOMAIN bits |-> f[bits[pin]]] = bits
             /\ gates[g] = [op |-> gates[g].op, qubits |-> bits]
             /\ \A pin \in DOMAIN bits : bits[pin] \in 0 .. n - 1
  <2>1. gates[g] \in GateSet(n) /\ bits \in Seq(0 .. n - 1)
    BY <1>2, <1>5, CircuitGates
  <2>2. \A pin \in DOMAIN bits : bits[pin] \in 0 .. n - 1
    BY <2>1
  <2>3. [pin \in DOMAIN bits |-> f[bits[pin]]] = bits
    BY <1>3, <2>1, <2>2
  <2>4. gates[g] = [op |-> gates[g].op, qubits |-> bits]
    BY <1>5, <2>1 DEF GateSet
  <2>. QED
    BY <2>2, <2>3, <2>4
<1>6. Moved(n, gates, Lines, n + num, gates', M, f)
  <2>1. gates = [g \in DOMAIN gates |-> gates[g]]
    BY <1>2 DEF Circuits
  <2>2. /\ DOMAIN M = 0 .. n + num - 1 /\ DOMAIN f = 0 .. n - 1
        /\ \A q \in 0 .. n - 1 : f[q] = q /\ q \in 0 .. n + num - 1 /\ M[q] = Lines[q]
        /\ \A r \in 0 .. n + num - 1 : r \in 0 .. n - 1 \/ M[r] = <<>>
    BY <1>3
  <2>3. \A g \in DOMAIN gates :
           gates'[g] = [op |-> gates[g].op,
                        qubits |-> [pin \in DOMAIN gates[g].qubits |-> f[gates[g].qubits[pin]]]]
    <3>1. SUFFICES ASSUME NEW g \in DOMAIN gates
                   PROVE  gates'[g] = [op |-> gates[g].op,
                              qubits |-> [pin \in DOMAIN gates[g].qubits |-> f[gates[g].qubits[pin]]]]
      BY Zenon
    <3>2. PICK bits : bits = gates[g].qubits
      OBVIOUS
    <3>3. [pin \in DOMAIN bits |-> f[bits[pin]]] = bits /\ gates[g] = [op |-> gates[g].op, qubits |-> bits]
      BY <1>5, <3>2
    <3>. QED
      BY <1>4, <3>2, <3>3
  <2>4. /\ DOMAIN f \subseteq 0 .. n - 1
        /\ \A q \in DOMAIN f : f[q] \in 0 .. n + num - 1 /\ M[f[q]] = Lines[q]
        /\ \A p, q \in DOMAIN f : f[p] = f[q] => p = q
        /\ \A q \in 0 .. n - 1 : q \in DOMAIN f \/ Lines[q] = <<>>
        /\ \A r \in 0 .. n + num - 1 : (\E q \in DOMAIN f : f[q] = r) \/ M[r] = <<>>
    BY <2>2
  <2>5. (n + num) - 1 = n + num - 1
    OBVIOUS
  <2>. QED
    BY <1>4, <2>1, <2>2, <2>3, <2>4, <2>5, Zenon DEF Moved
<1>7. first' = StartsOf(M) /\ last' = EndsOf(M)
  <2>1. ASSUME NEW q \in 0 .. n + num - 1
        PROVE  /\ (IF q < n THEN first[q] ELSE NoGate) = Entry(M[q], 1)
               /\ (IF q < n THEN last[q] ELSE NoGate) = Entry(M[q], Len(M[q]))
    <3>1. CASE q < n
      <4>1. q \in 0 .. n - 1
        BY <3>1
      <4>. QED
        BY <1>2, <1>3, <3>1, <4>1 DEF StartsOf, EndsOf
    <3>2. CASE ~(q < n)
      BY <1>3, <3>2 DEF Entry
    <3>. QED
      BY <3>1, <3>2
  <2>2. DOMAIN M = 0 .. n + num - 1
    BY <1>3
  <2>. QED
    BY <1>4, <2>1, <2>2, Zenon DEF StartsOf, EndsOf
<1>8. LinesFor(n + num, M)
  BY <1>3 DEF LinesFor
<1>9. n + num \in Nat
  OBVIOUS
<1>10. CircuitInv' /\ Lines' = M
  BY <1>1, <1>4, <1>6, <1>7, <1>8, <1>9, MovedKeeps
<1>11. CASE num = 0
  <2>1. M = Lines
    <3>1. Lines = [q \in 0 .. n - 1 |-> Lines[q]]
      BY <1>1 DEF Lines, QubitIds
    <3>2. M = [q \in 0 .. n - 1 |-> Lines[q]]
      BY <1>3, <1>11
    <3>. QED
      BY <3>1, <3>2
  <2>2. numQubits' = numQubits
    BY <1>1, <1>4, <1>11
  <2>3. WireStep
    BY <1>4, <1>10, <2>1, <2>2 DEF WireStep
  <2>. QED
    BY <1>10, <1>11, <2>3
<1>12. CASE num # 0
  <2>1. num > 0 /\ numQubits' - numQubits = num /\ n \in 0 .. numQubits
    BY <1>1, <1>4, <1>12
  <2>2. gates' = [g \in DOMAIN gates |-> [gates[g] EXCEPT !.qubits =
                     [pin \in DOMAIN @ |-> IF @[pin] >= n THEN @[pin] + num ELSE @[pin]]]]
    <3>1. ASSUME NEW g \in DOMAIN gates
          PROVE  gates[g] = [gates[g] EXCEPT !.qubits =
                        [pin \in DOMAIN @ |-> IF @[pin] >= n THEN @[pin] + num ELSE @[pin]]]
      <4>1. PICK bits : bits = gates[g].qubits
        OBVIOUS
      <4>2. [pin \in DOMAIN bits |-> IF bits[pin] >= n THEN bits[pin] + num ELSE bits[pin]]
                = [pin \in DOMAIN bits |-> f[bits[pin]]]
        <5>1. \A pin \in DOMAIN bits : bits[pin] \in 0 .. n - 1
          BY <1>5, <4>1
        <5>. QED
          BY <1>3, <5>1
      <4>3. /\ [pin \in DOMAIN bits |-> f[bits[pin]]] = bits
            /\ gates[g] = [op |-> gates[g].op, qubits |-> bits]
        BY <1>5, <4>1
      <4>4. [gates[g] EXCEPT !.qubits = bits] = [op |-> gates[g].op, qubits |-> bits]
        BY <1>2, GateOnto
      <4>. QED
        BY <4>1, <4>2, <4>3, <4>4
    <3>2. gates = [g \in DOMAIN gates |-> gates[g]]
      BY <1>2 DEF Circuits
    <3>. QED
      BY <1>4, <3>1, <3>2, Zenon
  <2>3. Lines' = [q \in 0 .. numQubits + num - 1 |->
                    IF q < n THEN Lines[q]
                    ELSE IF q < n + num THEN <<>> ELSE Lines[q - num]]
    <3>1. \A q \in 0 .. n + num - 1 : q < n + num
      OBVIOUS
    <3>. QED
      BY <1>1, <1>3, <1>10, <3>1
  <2>4. Wires!InsertWires(n, num)
    <3>1. numQubits' = numQubits + num
      BY <1>1, <1>4
    <3>. QED
      BY <2>1, <2>2, <2>3, <3>1, Zenon DEF Wires!InsertWires, Wires!Rename
  <2>. QED
    <3>1. WireStep
      BY <2>1, <2>4 DEF WireStep, Wires!WireNext
    <3>. QED
      BY <1>1, <1>10, <2>4, <3>1
<1>. QED
  BY <1>10, <1>11, <1>12

\* insert_qubit puts an empty line before another.
LEMMA InsertQubitKeeps ==
    ASSUME CircuitInv, NEW id \in 0 .. numQubits, InsertQubit(id)
    PROVE  CircuitInv' /\ WireStep /\ Wires!InsertWires(id, 1)
<1>1. PICK n \in Nat : n = numQubits
  BY DEF CircuitInv
<1>2. /\ gates \in Circuits(n) /\ DOMAIN Lines = 0 .. n - 1
      /\ first = StartsOf(Lines) /\ last = EndsOf(Lines) /\ Lined(n, gates, Lines)
  BY <1>1 DEF CircuitInv, Wired, Lined
<1>3. PICK i \in 0 .. n : i = id
  BY <1>1
<1>4. /\ numQubits' = n + 1 /\ gateId' = gateId /\ preds' = preds /\ succs' = succs /\ CacheKept
      /\ first' = WithLine(first, id)
      /\ last' = WithLine(last, id)
      /\ gates' = [g \in DOMAIN gates |-> [gates[g] EXCEPT !.qubits =
                      [pin \in DOMAIN @ |-> IF @[pin] >= id THEN @[pin] + 1 ELSE @[pin]]]]
  <2>1. gates' = [g \in DOMAIN gates |->
                     IF g \in ToSet(CurrentGates)
                     THEN [gates[g] EXCEPT !.qubits = [pin \in DOMAIN @ |-> IF @[pin] >= id THEN @[pin] + 1 ELSE @[pin]]]
                     ELSE gates[g]]
    BY DEF InsertQubit, Renamed
  <2>2. ToSet(CurrentGates) = DOMAIN gates
    BY CurrentOrder DEF ListsAll
  <2>3. /\ numQubits' = n + 1 /\ gateId' = gateId /\ preds' = preds /\ succs' = succs /\ CacheKept
        /\ first' = WithLine(first, id)
        /\ last' = WithLine(last, id)
    BY <1>1, Zenon DEF InsertQubit, UpdateTopologicalOrder, CacheKept, linkVars
  <2>. QED
    BY <2>1, <2>2, <2>3, Zenon
<1>5. PICK M, f : /\ M = [q \in 0 .. n |-> IF q < id THEN Lines[q]
                                        ELSE IF q = id THEN <<>> ELSE Lines[q - 1]]
                  /\ f = [q \in 0 .. n - 1 |-> IF q >= id THEN q + 1 ELSE q]
  OBVIOUS
<1>6. ASSUME NEW g \in DOMAIN gates, NEW bits, bits = gates[g].qubits
      PROVE  gates'[g] = [op |-> gates[g].op, qubits |-> [pin \in DOMAIN bits |-> f[bits[pin]]]]
  <2>1. \A pin \in DOMAIN bits : bits[pin] \in 0 .. n - 1
    BY <1>2, <1>6, CircuitGates
  <2>2. [pin \in DOMAIN bits |-> IF bits[pin] >= id THEN bits[pin] + 1 ELSE bits[pin]]
            = [pin \in DOMAIN bits |-> f[bits[pin]]]
    BY <1>5, <2>1
  <2>3. gates'[g] = [gates[g] EXCEPT !.qubits =
                        [pin \in DOMAIN bits |-> IF bits[pin] >= id THEN bits[pin] + 1 ELSE bits[pin]]]
    BY <1>4, <1>6
  <2>. QED
    BY <1>2, <2>2, <2>3, GateOnto
<1>7. Moved(n, gates, Lines, n + 1, gates', M, f)
  <2>1. DOMAIN gates' = DOMAIN gates /\ gates' = [g \in DOMAIN gates |-> gates'[g]]
    BY <1>4
  <2>2. /\ DOMAIN M = 0 .. (n + 1) - 1 /\ DOMAIN f = 0 .. n - 1
        /\ \A q \in 0 .. n - 1 : /\ q \in 0 .. n - 1 /\ f[q] \in 0 .. (n + 1) - 1
                             /\ M[f[q]] = Lines[q]
    <3>1. (n + 1) - 1 = n
      OBVIOUS
    <3>. QED
      BY <1>3, <1>5, <3>1
  <2>3. \A g \in DOMAIN gates :
           gates'[g] = [op |-> gates[g].op,
                        qubits |-> [pin \in DOMAIN gates[g].qubits |-> f[gates[g].qubits[pin]]]]
    BY <1>6, Zenon
  <2>4. \A p, q \in DOMAIN f : f[p] = f[q] => p = q
    BY <1>3, <1>5
  <2>5. \A q \in 0 .. n - 1 : q \in DOMAIN f \/ Lines[q] = <<>>
    BY <2>2
  <2>6. \A r \in 0 .. (n + 1) - 1 : (\E q \in DOMAIN f : f[q] = r) \/ M[r] = <<>>
    <3>1. SUFFICES ASSUME NEW r \in 0 .. n, r # id PROVE \E q \in DOMAIN f : f[q] = r
      <4>1. (n + 1) - 1 = n /\ \A r \in 0 .. n : r = id => M[r] = <<>>
        BY <1>3, <1>5
      <4>. QED
        BY <4>1
    <3>2. CASE r < id
      <4>1. r \in 0 .. n - 1 /\ ~(r >= id)
        BY <1>3, <3>1, <3>2
      <4>2. f[r] = r
        BY <1>5, <4>1
      <4>. QED
        BY <2>2, <4>1, <4>2
    <3>3. CASE ~(r < id)
      <4>1. PICK q \in 0 .. n - 1 : q = r - 1 /\ q + 1 = r /\ q >= id
        BY <1>3, <3>1, <3>3
      <4>2. f[q] = r
        BY <1>5, <4>1
      <4>. QED
        BY <2>2, <4>1, <4>2
    <3>. QED
      BY <3>2, <3>3
  <2>7. /\ DOMAIN f \subseteq 0 .. n - 1
        /\ \A q \in DOMAIN f : f[q] \in 0 .. (n + 1) - 1 /\ M[f[q]] = Lines[q]
    BY <2>2
  <2>. QED
    BY <2>1, <2>2, <2>3, <2>4, <2>5, <2>6, <2>7, Zenon DEF Moved
<1>8. first' = StartsOf(M) /\ last' = EndsOf(M)
  <2>1. ASSUME NEW q \in 0 .. n
        PROVE  /\ (IF q < id THEN first[q] ELSE IF q = id THEN NoGate ELSE first[q - 1]) = Entry(M[q], 1)
               /\ (IF q < id THEN last[q] ELSE IF q = id THEN NoGate ELSE last[q - 1])
                     = Entry(M[q], Len(M[q]))
    <3>1. CASE q < id
      <4>1. q \in 0 .. n - 1
        BY <1>3, <3>1
      <4>. QED
        BY <1>2, <1>5, <3>1, <4>1 DEF StartsOf, EndsOf
    <3>2. CASE q = id
      BY <1>3, <1>5, <3>2 DEF Entry
    <3>3. CASE ~(q < id) /\ q # id
      <4>1. q - 1 \in 0 .. n - 1
        BY <1>3, <3>3
      <4>. QED
        BY <1>2, <1>5, <3>3, <4>1 DEF StartsOf, EndsOf
    <3>. QED
      BY <3>1, <3>2, <3>3
  <2>2. DOMAIN M = 0 .. n
    BY <1>5
  <2>. QED
    BY <1>1, <1>4, <2>1, <2>2, Zenon DEF StartsOf, EndsOf, WithLine
<1>9. LinesFor(n + 1, M)
  <2>1. (n + 1) - 1 = n
    OBVIOUS
  <2>. QED
    BY <1>5, <2>1 DEF LinesFor
<1>10. n + 1 \in Nat
  BY <1>1
<1>11. CircuitInv' /\ Lines' = M
  BY <1>1, <1>4, <1>7, <1>8, <1>9, <1>10, MovedKeeps
<1>12. Wires!InsertWires(id, 1)
  <2>1. 1 > 0 /\ numQubits' = numQubits + 1
    BY <1>1, <1>4
  <2>2. Lines' = [q \in 0 .. numQubits + 1 - 1 |->
                    IF q < id THEN Lines[q]
                    ELSE IF q < id + 1 THEN <<>> ELSE Lines[q - 1]]
    <3>1. numQubits + 1 - 1 = n /\ \A q \in 0 .. n : ~(q < id) => (q = id <=> q < id + 1)
      BY <1>1, <1>3
    <3>. QED
      BY <1>5, <1>11, <3>1
  <2>. QED
    BY <1>4, <2>1, <2>2, Zenon DEF Wires!InsertWires, Wires!Rename
<1>13. numQubits' - numQubits = 1
  BY <1>1, <1>4
<1>. QED
  BY <1>11, <1>12, <1>13 DEF WireStep, Wires!WireNext

\* remove_qubit takes an empty line away.
LEMMA RemoveQubitKeeps ==
    ASSUME CircuitInv, NEW id \in QubitIds, RemoveQubit(id)
    PROVE  CircuitInv' /\ WireStep /\ Wires!RemoveEmptyWire(id)
<1>1. PICK n \in Nat : n = numQubits
  BY DEF CircuitInv
<1>2. /\ gates \in Circuits(n) /\ DOMAIN Lines = 0 .. n - 1
      /\ first = StartsOf(Lines) /\ last = EndsOf(Lines) /\ Lined(n, gates, Lines)
  BY <1>1 DEF CircuitInv, Wired, Lined
<1>3. PICK i \in 0 .. n - 1 : i = id
  BY <1>1 DEF QubitIds
<1>14. Lines[id] = <<>>
  <2>0. NoGate \notin DOMAIN gates
    BY <1>2, CircuitGates
  <2>1. first[id] = NoGate /\ NoGate \notin DOMAIN gates
    BY <2>0, Zenon DEF RemoveQubit
  <2>2. Lines[i] \in LineOf(DOMAIN gates) /\ Entry(Lines[i], 1) = NoGate
    BY <1>2, <1>3, <2>1 DEF StartsOf, Lined
  <2>. QED
    BY <1>3, <2>1, <2>2, EmptyLine
<1>4. /\ numQubits' = n - 1 /\ gateId' = gateId /\ preds' = preds /\ succs' = succs /\ CacheKept
      /\ first' = [q \in 0 .. n - 2 |-> IF q < id THEN first[q] ELSE first[q + 1]]
      /\ last' = [q \in 0 .. n - 2 |-> IF q < id THEN last[q] ELSE last[q + 1]]
      /\ gates' = [g \in DOMAIN gates |-> [gates[g] EXCEPT !.qubits =
                      [pin \in DOMAIN @ |-> IF @[pin] > id THEN @[pin] - 1 ELSE @[pin]]]]
  <2>1. gates' = [g \in DOMAIN gates |->
                     IF g \in ToSet(CurrentGates)
                     THEN [gates[g] EXCEPT !.qubits = [pin \in DOMAIN @ |-> IF @[pin] > id THEN @[pin] - 1 ELSE @[pin]]]
                     ELSE gates[g]]
    BY DEF RemoveQubit, Renamed
  <2>2. ToSet(CurrentGates) = DOMAIN gates
    BY CurrentOrder DEF ListsAll
  <2>3. /\ numQubits' = n - 1 /\ gateId' = gateId /\ preds' = preds /\ succs' = succs /\ CacheKept
        /\ first' = [q \in 0 .. n - 2 |-> IF q < id THEN first[q] ELSE first[q + 1]]
        /\ last' = [q \in 0 .. n - 2 |-> IF q < id THEN last[q] ELSE last[q + 1]]
    BY <1>1, Zenon DEF RemoveQubit, UpdateTopologicalOrder, CacheKept, linkVars
  <2>. QED
    BY <2>1, <2>2, <2>3, Zenon
<1>5. PICK M, f : /\ M = [q \in 0 .. n - 2 |-> IF q < id THEN Lines[q] ELSE Lines[q + 1]]
                  /\ f = [q \in (0 .. n - 1) \ {id} |-> IF q > id THEN q - 1 ELSE q]
  OBVIOUS
<1>6. ASSUME NEW g \in DOMAIN gates, NEW bits, bits = gates[g].qubits
      PROVE  gates'[g] = [op |-> gates[g].op, qubits |-> [pin \in DOMAIN bits |-> f[bits[pin]]]]
  <2>1. \A pin \in DOMAIN bits : bits[pin] \in (0 .. n - 1) \ {id}
    <3>1. SUFFICES ASSUME NEW pin \in DOMAIN bits PROVE bits[pin] \in 0 .. n - 1 /\ bits[pin] # id
      OBVIOUS
    <3>2. bits[pin] \in 0 .. n - 1 /\ g \in ToSet(Lines[bits[pin]])
      BY <1>2, <1>6, OnItsLine
    <3>. QED
      BY <1>14, <3>2 DEF ToSet
  <2>2. [pin \in DOMAIN bits |-> IF bits[pin] > id THEN bits[pin] - 1 ELSE bits[pin]]
            = [pin \in DOMAIN bits |-> f[bits[pin]]]
    BY <1>5, <2>1
  <2>3. gates'[g] = [gates[g] EXCEPT !.qubits =
                        [pin \in DOMAIN bits |-> IF bits[pin] > id THEN bits[pin] - 1 ELSE bits[pin]]]
    BY <1>4, <1>6
  <2>. QED
    BY <1>2, <2>2, <2>3, GateOnto
<1>7. Moved(n, gates, Lines, n - 1, gates', M, f)
  <2>1. DOMAIN gates' = DOMAIN gates /\ gates' = [g \in DOMAIN gates |-> gates'[g]]
    BY <1>4
  <2>2. /\ DOMAIN M = 0 .. n - 1 - 1 /\ DOMAIN f = (0 .. n - 1) \ {id}
        /\ \A q \in (0 .. n - 1) \ {id} : /\ q \in 0 .. n - 1 /\ f[q] \in 0 .. n - 1 - 1
                             /\ M[f[q]] = Lines[q]
    <3>1. n - 1 - 1 = n - 2
      OBVIOUS
    <3>. QED
      BY <1>3, <1>5, <3>1
  <2>3. \A g \in DOMAIN gates :
           gates'[g] = [op |-> gates[g].op,
                        qubits |-> [pin \in DOMAIN gates[g].qubits |-> f[gates[g].qubits[pin]]]]
    BY <1>6, Zenon
  <2>4. \A p, q \in DOMAIN f : f[p] = f[q] => p = q
    BY <1>3, <1>5
  <2>5. \A q \in 0 .. n - 1 : q \in DOMAIN f \/ Lines[q] = <<>>
    BY <2>2, <1>14
  <2>6. \A r \in 0 .. n - 1 - 1 : (\E q \in DOMAIN f : f[q] = r) \/ M[r] = <<>>
    <3>1. SUFFICES ASSUME NEW r \in 0 .. n - 2 PROVE \E q \in DOMAIN f : f[q] = r
      BY <1>3
    <3>2. CASE r < id
      <4>1. r \in (0 .. n - 1) \ {id} /\ ~(r > id)
        BY <1>3, <3>1, <3>2
      <4>2. f[r] = r
        BY <1>5, <4>1
      <4>. QED
        BY <2>2, <4>1, <4>2
    <3>3. CASE ~(r < id)
      <4>1. PICK q \in (0 .. n - 1) \ {id} : q = r + 1 /\ q - 1 = r /\ q > id
        BY <1>3, <3>1, <3>3
      <4>2. f[q] = r
        BY <1>5, <4>1
      <4>. QED
        BY <2>2, <4>1, <4>2
    <3>. QED
      BY <3>2, <3>3
  <2>7. /\ DOMAIN f \subseteq 0 .. n - 1
        /\ \A q \in DOMAIN f : f[q] \in 0 .. n - 1 - 1 /\ M[f[q]] = Lines[q]
    BY <2>2
  <2>. QED
    BY <2>1, <2>2, <2>3, <2>4, <2>5, <2>6, <2>7, Zenon DEF Moved
<1>8. first' = StartsOf(M) /\ last' = EndsOf(M)
  <2>1. ASSUME NEW q \in 0 .. n - 2
        PROVE  /\ (IF q < id THEN first[q] ELSE first[q + 1]) = Entry(M[q], 1)
               /\ (IF q < id THEN last[q] ELSE last[q + 1]) = Entry(M[q], Len(M[q]))
    <3>1. q \in 0 .. n - 1 /\ q + 1 \in 0 .. n - 1
      OBVIOUS
    <3>. QED
      BY <1>2, <1>5, <3>1 DEF StartsOf, EndsOf
  <2>2. DOMAIN M = 0 .. n - 2
    BY <1>5
  <2>. QED
    BY <1>4, <2>1, <2>2, Zenon DEF StartsOf, EndsOf
<1>9. LinesFor(n - 1, M)
  <2>1. n - 1 - 1 = n - 2
    OBVIOUS
  <2>. QED
    BY <1>5, <2>1 DEF LinesFor
<1>10. n - 1 \in Nat
  BY <1>1, <1>3
<1>11. CircuitInv' /\ Lines' = M
  BY <1>1, <1>4, <1>7, <1>8, <1>9, <1>10, MovedKeeps
<1>12. Wires!RemoveEmptyWire(id)
  <2>1. numQubits' = numQubits - 1
    BY <1>1, <1>4
  <2>2. Lines' = [q \in 0 .. numQubits - 2 |-> IF q < id THEN Lines[q] ELSE Lines[q + 1]]
    BY <1>1, <1>5, <1>11
  <2>. QED
    BY <1>4, <1>14, <2>1, <2>2, Zenon DEF Wires!RemoveEmptyWire, Wires!Rename
<1>13. id \in Wires!QubitIds
  BY DEF Wires!QubitIds, QubitIds
<1>. QED
  BY <1>11, <1>12, <1>13 DEF WireStep, Wires!WireNext
\* get_gates changes no line, and fills the cache with the order that it returns.
LEMMA OrderKeeps ==
    ASSUME CircuitInv, UpdateTopologicalOrder, UNCHANGED <<qubitVars, gates, linkVars, gateId>>
    PROVE  CircuitInv' /\ WireStep /\ UNCHANGED <<numQubits, gates, Lines>>
<1>1. Lines' = Lines
  BY DEF Lines, QubitIds, qubitVars, linkVars
<1>2. ListsAll(DOMAIN gates, gateList') /\ InOrder(Lines, gateList') /\ dirty' = FALSE
  BY CurrentOrder DEF UpdateTopologicalOrder
<1>3. CircuitInv'
  BY <1>1, <1>2 DEF CircuitInv, qubitVars, linkVars
<1>. QED
  BY <1>1, <1>3 DEF WireStep, qubitVars

\* The next id of a copy is above all ids of the list.
LEMMA NextIdAbove ==
    ASSUME NEW k \in Nat, NEW ids, ids \subseteq 0 .. k - 1, NEW list, ListsAll(ids, list)
    PROVE  NextId(list) \in Nat /\ ids \subseteq 0 .. NextId(list) - 1
<1>1. list \in Seq(ids) /\ ToSet(list) = ids
  BY DEF ListsAll, LineOf
<1>2. CASE list = <<>>
  <2>1. ids = {}
    BY <1>1, <1>2 DEF ToSet
  <2>2. NextId(list) = 0
    BY <1>2 DEF NextId
  <2>. QED
    BY <2>1, <2>2
<1>3. CASE list # <<>>
  <2>1. ids # {}
    BY <1>1, <1>3 DEF ToSet
  <2>2. ids \subseteq Nat /\ \A x \in ids : x <= k
    OBVIOUS
  <2>3. Max(ids) \in ids /\ \A x \in ids : x <= Max(ids)
    BY <2>1, <2>2, MaxOfNaturals
  <2>4. PICK m \in Nat : m = Max(ids) /\ NextId(list) = 1 + m
    BY <1>1, <1>3, <2>2, <2>3 DEF NextId
  <2>. QED
    BY <2>2, <2>3, <2>4
<1>. QED
  BY <1>2, <1>3

\* A copy has the lines of the original, under the same ids.
LEMMA CopyKeeps ==
    ASSUME CircuitInv, CopyAssign
    PROVE  CircuitInv' /\ WireStep /\ UNCHANGED <<numQubits, gates, Lines>>
<1>1. PICK n \in Nat : n = numQubits
  BY DEF CircuitInv
<1>2. /\ gates \in Circuits(n) /\ DOMAIN Lines = 0 .. n - 1 /\ Lined(n, gates, Lines)
      /\ first = StartsOf(Lines) /\ last = EndsOf(Lines)
      /\ preds = LinksOf(gates, Lines, -1) /\ succs = LinksOf(gates, Lines, 1)
      /\ gateId \in Nat /\ DOMAIN gates \subseteq 0 .. gateId - 1
  BY <1>1 DEF CircuitInv, Wired, Lined
<1>3. PICK list : list = CurrentGates
  OBVIOUS
<1>4. ListsAll(DOMAIN gates, list) /\ InOrder(Lines, list)
  BY <1>3, CurrentOrder
<1>5. /\ gates' = [g \in ToSet(list) |-> gates[g]]
      /\ first' = [q \in QubitIds |->
             IF {i \in DOMAIN list : q \in ToSet(gates[list[i]].qubits)} = {} THEN NoGate
             ELSE list[Min({i \in DOMAIN list : q \in ToSet(gates[list[i]].qubits)})]]
      /\ last' = [q \in QubitIds |->
             IF {i \in DOMAIN list : q \in ToSet(gates[list[i]].qubits)} = {} THEN NoGate
             ELSE list[Max({i \in DOMAIN list : q \in ToSet(gates[list[i]].qubits)})]]
      /\ preds' = Neighbours(list, -1) /\ succs' = Neighbours(list, 1)
      /\ gateId' = NextId(list) /\ dirty' = TRUE /\ numQubits' = numQubits
  BY <1>3, Zenon DEF CopyAssign
<1>6. gates' = gates
  <2>1. gates = [g \in DOMAIN gates |-> gates[g]] /\ ToSet(list) = DOMAIN gates
    BY <1>2, <1>4 DEF Circuits, ListsAll
  <2>. QED
    BY <1>5, <2>1, Zenon
<1>7. first' = first /\ last' = last
  <2>1. ASSUME NEW q \in 0 .. n - 1, NEW B, B = {i \in DOMAIN list : q \in ToSet(gates[list[i]].qubits)}
        PROVE  /\ (IF B = {} THEN NoGate ELSE list[Min(B)]) = Entry(Lines[q], 1)
               /\ (IF B = {} THEN NoGate ELSE list[Max(B)]) = Entry(Lines[q], Len(Lines[q]))
    <3>1. B = AllOn(gates, list, q)
      BY <2>1 DEF AllOn
    <3>. QED
      BY <1>2, <1>4, <3>1, CopyEnds
  <2>2. QubitIds = 0 .. n - 1
    BY <1>1 DEF QubitIds
  <2>. QED
    BY <1>2, <1>5, <2>1, <2>2, Zenon DEF StartsOf, EndsOf
<1>8. preds' = preds /\ succs' = succs
  BY <1>2, <1>4, <1>5, CopyLinks
<1>9. Lines' = Lines
  BY <1>5, <1>6, <1>7, <1>8 DEF Lines, QubitIds
<1>10. gateId' \in Nat /\ DOMAIN gates' \subseteq 0 .. gateId' - 1
  BY <1>2, <1>4, <1>5, <1>6, NextIdAbove
<1>11. CircuitInv'
  BY <1>5, <1>6, <1>7, <1>8, <1>9, <1>10 DEF CircuitInv
<1>. QED
  BY <1>5, <1>6, <1>9, <1>11 DEF WireStep

-----------------------------------------------------------------------------
(* The specification                                                       *)

LEMMA InitCircuit ==
    ASSUME QCirInit
    PROVE  QCirInv /\ Wires!WireInit
<1>1. Lines = <<>> /\ DOMAIN Lines = {}
  BY DEF QCirInit, Lines, QubitIds
<1>2. Wired(0, gates, Lines, first, last, preds, succs)
  <2>1. StartsOf(Lines) = <<>> /\ EndsOf(Lines) = <<>>
    BY <1>1 DEF StartsOf, EndsOf
  <2>2. \A k : LinksOf(gates, Lines, k) = <<>>
    BY DEF QCirInit, LinksOf
  <2>3. Lined(0, gates, Lines)
    BY <1>1 DEF Lined
  <2>4. Upwards(DOMAIN gates, Lines, <<>>)
    BY <1>1 DEF Upwards, QCirInit
  <2>. QED
    BY <2>1, <2>2, <2>3, <2>4 DEF Wired, QCirInit
<1>3. gates \in Circuits(0) /\ DOMAIN gates = {}
  <2>1. gates \in [{} -> GateSet(0)]
    BY DEF QCirInit
  <2>. QED
    BY <2>1 DEF Circuits, QCirInit
<1>4. CircuitInv
  BY <1>2, <1>3 DEF CircuitInv, QCirInit
<1>. QED
  BY <1>1, <1>4 DEF QCirInv, QCirInit, Wires!WireInit

\* A sequence and its length
Listed(S, s, w) == /\ w \in Nat /\ w = Len(s) /\ DOMAIN s = 1 .. w
                   /\ \A i \in 1 .. w : s[i] \in S

LEMMA SequenceListed ==
    ASSUME NEW S, NEW s \in Seq(S)
    PROVE  \E w : Listed(S, s, w)
<1>1. PICK w : w = Len(s)
  OBVIOUS
<1>2. w \in Nat /\ DOMAIN s = 1 .. w /\ \A i \in 1 .. w : s[i] \in S
  BY <1>1
<1>. QED
  BY <1>1, <1>2, Zenon DEF Listed

\* A sequence of other members
LEMMA ListedOf ==
    ASSUME NEW S, NEW T, NEW s \in Seq(S), NEW w, Listed(S, s, w), \A i \in 1 .. w : s[i] \in T
    PROVE  s \in Seq(T)
<1>1. s = [i \in 1 .. w |-> s[i]] /\ w \in Nat
  BY DEF Listed
<1>. QED
  BY <1>1

\* An operation on k qubits, with as many qubits as it needs
FitsOperation(k, x) == \E op \in DOMAIN Adjoint : \E bits \in Seq(0 .. k - 1) :
    /\ x = [op |-> op, qubits |-> bits]
    /\ Len(bits) = Arity[op] /\ IsInjective(bits)

\* A gate of another circuit
LEMMA OtherGate ==
    ASSUME NEW other \in Others, NEW k, k = other.numQubits, NEW i \in DOMAIN other.gates
    PROVE  FitsOperation(k, other.gates[i])
<1>1. PICK s : s = other.gates
  OBVIOUS
<1>2. s \in Seq([op : DOMAIN Adjoint, qubits : Seq(0 .. k - 1)])
  BY <1>1, QCirAssumption
<1>3. PICK x : x = s[i]
  OBVIOUS
<1>4. x \in [op : DOMAIN Adjoint, qubits : Seq(0 .. k - 1)]
  <2>1. PICK R : R = [op : DOMAIN Adjoint, qubits : Seq(0 .. k - 1)]
    OBVIOUS
  <2>2. s \in Seq(R) /\ i \in DOMAIN s
    BY <1>1, <1>2, <2>1
  <2>3. s[i] \in R
    BY <2>2
  <2>. QED
    BY <1>3, <2>1, <2>3
<1>5. Len(x.qubits) = Arity[x.op] /\ IsInjective(x.qubits)
  BY <1>1, <1>3, QCirAssumption
<1>6. x = [op |-> x.op, qubits |-> x.qubits] /\ x.op \in DOMAIN Adjoint /\ x.qubits \in Seq(0 .. k - 1)
  BY <1>4
<1>. QED
  BY <1>1, <1>3, <1>5, <1>6, Zenon DEF FitsOperation

\* A gate on given qubits
LEMMA GateFits ==
    ASSUME NEW n \in Nat, NEW op \in DOMAIN Adjoint, NEW bits \in Seq(0 .. n - 1),
           Len(bits) = Arity[op], IsInjective(bits), NEW m \in Nat, n <= m
    PROVE  [op |-> op, qubits |-> bits] \in GateSet(m)
<1>1. bits # <<>>
  BY QCirAssumption
<1>2. bits \in Seq(0 .. m - 1)
  <2>1. PICK w : Listed(0 .. n - 1, bits, w)
    BY SequenceListed, Zenon
  <2>2. \A i \in 1 .. w : bits[i] \in 0 .. m - 1
    BY <2>1 DEF Listed
  <2>. QED
    BY <2>1, <2>2, ListedOf
<1>. QED
  BY <1>1, <1>2 DEF GateSet

\* The gates that append and prepend are called with
LEMMA BitsFit ==
    ASSUME CircuitInv, NEW op \in DOMAIN Adjoint, NEW bits \in BitsFor(op)
    PROVE  [op |-> op, qubits |-> bits] \in GateSet(numQubits)
<1>1. numQubits \in Nat
  BY DEF CircuitInv
<1>2. bits \in Seq(0 .. numQubits - 1) /\ Len(bits) = Arity[op] /\ IsInjective(bits)
  <2>1. PICK w \in Nat : w = Arity[op]
    BY QCirAssumption
  <2>2. bits \in [1 .. w -> 0 .. numQubits - 1] /\ IsInjective(bits)
    BY <2>1 DEF BitsFor, QubitIds
  <2>3. bits \in Seq(0 .. numQubits - 1) /\ Len(bits) = w
    <3>1. PICK S : S = 0 .. numQubits - 1
      OBVIOUS
    <3>2. bits \in [1 .. w -> S]
      BY <2>2, <3>1
    <3>3. bits \in Seq(S) /\ Len(bits) = w
      BY <3>2
    <3>. QED
      BY <3>1, <3>3
  <2>. QED
    BY <2>1, <2>2, <2>3
<1>. QED
  BY <1>1, <1>2, GateFits

\* Every public edit
LEMMA EditKeeps ==
    ASSUME CircuitInv, Edit
    PROVE  CircuitInv' /\ WireStep
<1>1. ASSUME NEW num \in 1 .. MaxQubits, AddQubits(num)
      PROVE  CircuitInv' /\ WireStep
  <2>1. num \in Nat
    OBVIOUS
  <2>. QED
    BY <1>1, <2>1, AddQubitsKeeps
<1>2. ASSUME NEW id \in 0 .. numQubits, InsertQubit(id)
      PROVE  CircuitInv' /\ WireStep
  BY <1>2, InsertQubitKeeps
<1>3. ASSUME NEW id \in QubitIds, RemoveQubit(id)
      PROVE  CircuitInv' /\ WireStep
  BY <1>3, RemoveQubitKeeps
<1>4. ASSUME NEW op \in DOMAIN Adjoint, NEW bits \in BitsFor(op),
             AppendGate(op, bits) \/ PrependGate(op, bits)
      PROVE  CircuitInv' /\ WireStep
  <2>1. [op |-> op, qubits |-> bits] \in GateSet(numQubits)
    BY BitsFit
  <2>. QED
    BY <1>4, <2>1, AppendGateKeeps, PrependGateKeeps
<1>5. ASSUME NEW g \in DOMAIN gates, RemoveGate(g)
      PROVE  CircuitInv' /\ WireStep
  BY <1>5, RemoveGateKeeps
<1>6. ASSUME GetGatesOrder PROVE CircuitInv' /\ WireStep
  BY <1>6, OrderKeeps DEF GetGatesOrder
<1>. QED
  BY <1>1, <1>2, <1>3, <1>4, <1>5, <1>6, AdjointKeeps, CopyKeeps, Zenon DEF Edit

\* Every operation is the one on the lines that it is named for.
LEMMA StepAsNamed ==
    ASSUME CircuitInv
    PROVE  OperationsAsNamed
<1>1. ASSUME NEW num \in 1 .. MaxQubits, AddQubits(num)
      PROVE  Wires!InsertWires(numQubits, num)
  <2>1. num \in Nat /\ num # 0
    OBVIOUS
  <2>. QED
    BY <1>1, <2>1, AddQubitsKeeps
<1>2. ASSUME NEW id \in 0 .. numQubits, InsertQubit(id)
      PROVE  Wires!InsertWires(id, 1)
  BY <1>2, InsertQubitKeeps
<1>3. ASSUME NEW id \in QubitIds, RemoveQubit(id)
      PROVE  Wires!RemoveEmptyWire(id)
  BY <1>3, RemoveQubitKeeps
<1>4. ASSUME NEW op \in DOMAIN Adjoint, NEW bits \in BitsFor(op)
      PROVE  /\ AppendGate(op, bits) => Wires!AppendWire(gateId) /\ NewGateIs(op, bits)
             /\ PrependGate(op, bits) => Wires!PrependWire(gateId) /\ NewGateIs(op, bits)
  BY BitsFit, AppendGateKeeps, PrependGateKeeps
<1>5. ASSUME NEW g \in DOMAIN gates, RemoveGate(g)
      PROVE  Wires!RemoveWire(g)
  BY <1>5, RemoveGateKeeps
<1>6. CopyAssign \/ GetGatesOrder => UNCHANGED <<numQubits, gates, Lines>>
  BY OrderKeeps, CopyKeeps DEF GetGatesOrder
<1>. QED
  BY <1>1, <1>2, <1>3, <1>4, <1>5, <1>6, AdjointKeeps, Zenon DEF OperationsAsNamed

\* What compose has to append is made of gates on the qubits that there are by then.
LEMMA ComposeKeeps ==
    ASSUME CircuitInv, NEW other \in Others, Compose(other)
    PROVE  QCirInv' /\ WireStep
<1>1. PICK n \in Nat : n = numQubits
  BY DEF CircuitInv
<1>2. PICK k \in Nat : k = other.numQubits
  BY QCirAssumption
<1>3. PICK num \in Nat : num = (IF k > n THEN k - n ELSE 0) /\ k <= n + num
  <2>1. CASE k > n
    <3>1. k - n \in Nat /\ k <= n + (k - n)
      BY <2>1
    <3>. QED
      BY <2>1, <3>1
  <2>2. CASE ~(k > n)
    <3>1. k <= n + 0
      BY <2>2
    <3>. QED
      BY <2>2, <3>1
  <2>. QED
    BY <2>1, <2>2
<1>4. AddQubits(num) /\ todo' = other.gates
  BY <1>1, <1>2, <1>3 DEF Compose
<1>5. CircuitInv' /\ WireStep
  BY <1>4, AddQubitsKeeps
<1>6. numQubits' = n + num
  BY <1>1, <1>4 DEF AddQubits
<1>7. \A i \in DOMAIN other.gates : other.gates[i] \in GateSet(n + num)
  <2>1. SUFFICES ASSUME NEW i \in DOMAIN other.gates PROVE other.gates[i] \in GateSet(n + num)
    OBVIOUS
  <2>2. PICK op \in DOMAIN Adjoint, bits \in Seq(0 .. k - 1) :
           /\ other.gates[i] = [op |-> op, qubits |-> bits]
           /\ Len(bits) = Arity[op] /\ IsInjective(bits)
    <3>1. FitsOperation(k, other.gates[i])
      BY <1>2, OtherGate
    <3>. QED
      BY <3>1, Zenon DEF FitsOperation
  <2>3. n + num \in Nat
    OBVIOUS
  <2>4. [op |-> op, qubits |-> bits] \in GateSet(n + num)
    BY <1>3, <2>2, <2>3, GateFits
  <2>. QED
    BY <2>2, <2>4
<1>8. other.gates \in Seq(GateSet(n + num))
  <2>1. PICK R, s : R = [op : DOMAIN Adjoint, qubits : Seq(0 .. k - 1)] /\ s = other.gates
    OBVIOUS
  <2>2. s \in Seq(R)
    BY <1>2, <2>1, QCirAssumption
  <2>3. PICK w : Listed(R, s, w)
    BY <2>2, SequenceListed, Zenon
  <2>4. \A i \in 1 .. w : s[i] \in GateSet(n + num)
    BY <1>7, <2>1, <2>3 DEF Listed
  <2>5. s \in Seq(GateSet(n + num))
    BY <2>2, <2>3, <2>4, ListedOf
  <2>. QED
    BY <2>1, <2>5
<1>. QED
  BY <1>4, <1>5, <1>6, <1>8 DEF QCirInv

\* ... and those of tensor_product on the new ones.
LEMMA TensorProductKeeps ==
    ASSUME CircuitInv, NEW other \in Others, TensorProduct(other)
    PROVE  QCirInv' /\ WireStep
<1>1. PICK n \in Nat : n = numQubits
  BY DEF CircuitInv
<1>2. PICK k \in Nat : k = other.numQubits
  BY QCirAssumption
<1>4. AddQubits(k) /\ todo' = Shifted(other.gates, n)
  BY <1>1, <1>2 DEF TensorProduct
<1>5. CircuitInv' /\ WireStep
  BY <1>4, AddQubitsKeeps
<1>6. numQubits' = n + k
  BY <1>1, <1>4 DEF AddQubits
<1>7. \A i \in DOMAIN other.gates :
          [other.gates[i] EXCEPT !.qubits = [pin \in DOMAIN @ |-> @[pin] + n]] \in GateSet(n + k)
  <2>1. SUFFICES ASSUME NEW i \in DOMAIN other.gates
                 PROVE  [other.gates[i] EXCEPT !.qubits = [pin \in DOMAIN @ |-> @[pin] + n]]
                            \in GateSet(n + k)
    OBVIOUS
  <2>2. PICK op \in DOMAIN Adjoint, bits \in Seq(0 .. k - 1) :
           /\ other.gates[i] = [op |-> op, qubits |-> bits]
           /\ Len(bits) = Arity[op] /\ IsInjective(bits)
    <3>1. FitsOperation(k, other.gates[i])
      BY <1>2, OtherGate
    <3>. QED
      BY <3>1, Zenon DEF FitsOperation
  <2>5. PICK w : Listed(0 .. k - 1, bits, w)
    BY SequenceListed, Zenon
  <2>6. PICK moved : moved = [pin \in 1 .. w |-> bits[pin] + n]
    OBVIOUS
  <2>7. /\ moved \in Seq(0 .. (n + k) - 1) /\ Len(moved) = w /\ DOMAIN moved = 1 .. w
        /\ \A pin \in 1 .. w : moved[pin] = bits[pin] + n /\ bits[pin] \in Nat
    <3>1. w \in Nat /\ \A pin \in 1 .. w : bits[pin] \in 0 .. k - 1
      BY <2>5 DEF Listed
    <3>2. \A a \in 0 .. k - 1 : a \in Nat /\ a + n \in 0 .. (n + k) - 1
      OBVIOUS
    <3>3. \A pin \in 1 .. w : bits[pin] + n \in 0 .. (n + k) - 1 /\ bits[pin] \in Nat
      BY <3>1, <3>2
    <3>. QED
      BY <2>6, <3>1, <3>3
  <2>8. IsInjective(moved)
    BY <2>2, <2>5, <2>7 DEF IsInjective, Listed
  <2>9. n + k \in Nat /\ n + k <= n + k
    OBVIOUS
  <2>10. [op |-> op, qubits |-> moved] \in GateSet(n + k)
    <3>1. Len(moved) = Arity[op]
      BY <2>2, <2>5, <2>7 DEF Listed
    <3>. QED
      BY <2>7, <2>8, <2>9, <3>1, GateFits
  <2>11. PICK x : x = other.gates[i] /\ x = [op |-> op, qubits |-> bits]
    BY <2>2
  <2>12. [x EXCEPT !.qubits = moved] = [op |-> op, qubits |-> moved]
    BY <2>11
  <2>13. [pin \in DOMAIN bits |-> bits[pin] + n] = moved /\ x.qubits = bits
    BY <2>5, <2>6, <2>11 DEF Listed
  <2>. QED
    BY <2>10, <2>11, <2>12, <2>13
<1>8. Shifted(other.gates, n) \in Seq(GateSet(n + k))
  <2>8. PICK R, s : R = [op : DOMAIN Adjoint, qubits : Seq(0 .. k - 1)] /\ s = other.gates
    OBVIOUS
  <2>1. s \in Seq(R) /\ s = other.gates
    BY <1>2, <2>8, QCirAssumption
  <2>2. PICK w \in Nat : w = Len(s) /\ DOMAIN s = 1 .. w
    <3>1. \E w : Listed(R, s, w)
      BY <2>1, SequenceListed
    <3>. QED
      BY <3>1, Zenon DEF Listed
  <2>3. Shifted(s, n) = [i \in 1 .. w |-> [s[i] EXCEPT !.qubits = [pin \in DOMAIN @ |-> @[pin] + n]]]
    BY <2>2, Zenon DEF Shifted
  <2>4. \A i \in 1 .. w : [s[i] EXCEPT !.qubits = [pin \in DOMAIN @ |-> @[pin] + n]] \in GateSet(n + k)
    BY <1>7, <2>1, <2>2, Zenon
  <2>5. PICK S : S = GateSet(n + k)
    OBVIOUS
  <2>6. [i \in 1 .. w |-> [s[i] EXCEPT !.qubits = [pin \in DOMAIN @ |-> @[pin] + n]]] \in [1 .. w -> S]
    BY <2>4, <2>5, Zenon
  <2>7. Shifted(s, n) \in [1 .. w -> S]
    BY <2>3, <2>6, Zenon
  <2>. QED
    BY <2>1, <2>5, <2>7
<1>. QED
  BY <1>4, <1>5, <1>6, <1>8 DEF QCirInv

\* ... with itself
LEMMA ComposeSelfKeeps ==
    ASSUME CircuitInv, ComposeSelf
    PROVE  QCirInv' /\ WireStep
<1>1. CircuitInv' /\ WireStep
  BY OrderKeeps DEF ComposeSelf
<1>8. PICK n \in Nat : n = numQubits
  BY DEF CircuitInv
<1>2. PICK list : list = CurrentGates /\ n = numQubits
  BY <1>8
<1>3. todo' = [i \in DOMAIN list |-> gates[list[i]]] /\ numQubits' = n
  BY <1>2 DEF ComposeSelf, qubitVars
<1>4. gates \in Circuits(n) /\ list \in LineOf(DOMAIN gates)
  BY <1>2, CurrentOrder DEF CircuitInv, ListsAll
<1>5. PICK w \in Nat : DOMAIN list = 1 .. w
  <2>1. Len(list) \in Nat /\ DOMAIN list = 1 .. Len(list)
    BY <1>4, PlaceOnLine
  <2>2. PICK c : c = Len(list)
    OBVIOUS
  <2>. QED
    BY <2>1, <2>2, Zenon
<1>6. \A i \in 1 .. w : gates[list[i]] \in GateSet(n)
  <2>1. \A i \in 1 .. w : list[i] \in DOMAIN gates
    BY <1>4, <1>5, PlaceOnLine
  <2>. QED
    BY <1>4, <2>1, CircuitGates
<1>7. todo' \in Seq(GateSet(n))
  BY <1>3, <1>5, <1>6
<1>. QED
  BY <1>1, <1>3, <1>7 DEF QCirInv

\* One gate of compose
LEMMA AppendNextKeeps ==
    ASSUME QCirInv, AppendNext
    PROVE  QCirInv' /\ WireStep
<1>7. PICK n \in Nat : n = numQubits
  BY DEF QCirInv, CircuitInv
<1>1. PICK x \in GateSet(n) : n = numQubits /\ x = Head(todo)
  <2>1. todo \in Seq(GateSet(n)) /\ todo # <<>>
    BY <1>7 DEF QCirInv, AppendNext
  <2>. QED
    BY <1>7, <2>1
<1>2. [op |-> x.op, qubits |-> x.qubits] = x
  BY DEF GateSet
<1>3. AppendGate(x.op, x.qubits) /\ todo' = Tail(todo)
  BY <1>1 DEF AppendNext
<1>4. CircuitInv' /\ WireStep
  BY <1>1, <1>2, <1>3, AppendGateKeeps DEF QCirInv
<1>5. numQubits' = n
  BY <1>1, <1>3 DEF AppendGate, AddGate
<1>6. todo' \in Seq(GateSet(n))
  BY <1>1, <1>3 DEF QCirInv, AppendNext
<1>. QED
  BY <1>4, <1>5, <1>6 DEF QCirInv

LEMMA StepKeeps ==
    ASSUME QCirInv, [QCirNext]_qcirVars
    PROVE  QCirInv' /\ WireStep
<1>1. CASE todo = <<>> /\ Edit /\ UNCHANGED todo
  <2>1. CircuitInv' /\ WireStep
    BY <1>1, EditKeeps DEF QCirInv
  <2>2. todo' = <<>> /\ <<>> \in Seq(GateSet(numQubits'))
    BY <1>1
  <2>. QED
    BY <2>1, <2>2 DEF QCirInv
<1>2. ASSUME NEW other \in Others, Compose(other) \/ TensorProduct(other)
      PROVE  QCirInv' /\ WireStep
  BY <1>2, ComposeKeeps, TensorProductKeeps DEF QCirInv
<1>3. CASE ComposeSelf
  BY <1>3, ComposeSelfKeeps DEF QCirInv
<1>4. CASE AppendNext
  BY <1>4, AppendNextKeeps
<1>5. CASE UNCHANGED qcirVars
  <2>1. Lines' = Lines /\ numQubits' = numQubits /\ gates' = gates
    BY <1>5 DEF Lines, QubitIds, qcirVars, qubitVars, linkVars
  <2>2. QCirInv'
    BY <1>5, <2>1 DEF QCirInv, CircuitInv, qcirVars, qubitVars, linkVars, cacheVars
  <2>. QED
    BY <2>1, <2>2 DEF WireStep
<1>. QED
  BY <1>1, <1>2, <1>3, <1>4, <1>5, Zenon DEF QCirNext

-----------------------------------------------------------------------------
(* The depth                                                               *)

\* One more than the latest of the gates before
TimeAfter(before, times) == 1 + Max({IF g = NoGate THEN 0 ELSE times[g] : g \in ToSet(before)})

\* One iteration of calculate_gate_times
TimesStep(list, before, times, i) == WithEntry(times, list[i], TimeAfter(before[list[i]], times))

TimesRun(list, len, after) ==
    /\ GateTimes = after[len]
    /\ after[0] = <<>>
    /\ \A m \in Nat : m + 1 <= len => after[m + 1] = TimesStep(list, preds, after[m], m + 1)

\* The loop runs through the list.
LEMMA TimesAreRun ==
    ASSUME NEW list, list = CurrentGates, NEW len \in Nat, len = Len(list)
    PROVE  \E after : TimesRun(list, len, after)
<1>. DEFINE States(f) == [k \in 0 .. len |-> IF k = 0 THEN <<>> ELSE TimesStep(list, preds, f[k - 1], k)]
            after == CHOOSE f : f = States(f)
            Computed == {m \in Nat : m <= len =>
                          \E f : /\ f = [k \in 0 .. m |-> f[k]]
                                 /\ f[0] = <<>>
                                 /\ \A k \in 1 .. m : f[k] = TimesStep(list, preds, f[k - 1], k)}
<1>4. GateTimes = after[len]
  BY DEF GateTimes, TimesStep, TimeAfter
<1>5. 0 \in Computed
  <2>. DEFINE f == [k \in 0 .. 0 |-> <<>>]
  <2>1. f = [k \in 0 .. 0 |-> f[k]] /\ f[0] = <<>>
    OBVIOUS
  <2>2. 1 .. 0 = {}
    OBVIOUS
  <2>. HIDE DEF f
  <2>3. \A k \in 1 .. 0 : f[k] = TimesStep(list, preds, f[k - 1], k)
    BY <2>2
  <2>. QED
    BY <2>1, <2>3
<1>6. ASSUME NEW m \in Nat, m \in Computed
      PROVE  m + 1 \in Computed
  <2>1. SUFFICES ASSUME m + 1 <= len
                 PROVE  \E h : /\ h = [k \in 0 .. m + 1 |-> h[k]]
                               /\ h[0] = <<>>
                               /\ \A k \in 1 .. m + 1 : h[k] = TimesStep(list, preds, h[k - 1], k)
    OBVIOUS
  <2>2. m <= len
    BY <2>1
  <2>3. PICK f : /\ f[0] = <<>>
                 /\ \A k \in 1 .. m : f[k] = TimesStep(list, preds, f[k - 1], k)
    BY <1>6, <2>2
  <2>. DEFINE h == [k \in 0 .. m + 1 |-> IF k = m + 1 THEN TimesStep(list, preds, f[m], k) ELSE f[k]]
  <2>4. h = [k \in 0 .. m + 1 |-> h[k]]
    OBVIOUS
  <2>5. h[0] = <<>>
    BY <2>3
  <2>6. \A k \in 0 .. m : h[k] = f[k]
    OBVIOUS
  <2>7. h[m + 1] = TimesStep(list, preds, f[m], m + 1)
    OBVIOUS
  <2>. HIDE DEF h
  <2>8. ASSUME NEW k \in 1 .. m + 1
        PROVE  h[k] = TimesStep(list, preds, h[k - 1], k)
    <3>1. CASE k = m + 1
      <4>1. k - 1 = m
        BY <3>1
      <4>. QED
        BY <3>1, <4>1, <2>6, <2>7
    <3>2. CASE k # m + 1
      <4>1. k \in 1 .. m /\ k - 1 \in 0 .. m /\ k \in 0 .. m
        BY <3>2
      <4>. QED
        BY <4>1, <2>3, <2>6
    <3>. QED
      BY <3>1, <3>2
  <2>. QED
    BY <2>4, <2>5, <2>8
<1>7. after = States(after)
  <2>1. Nat \subseteq Computed
    <3>. HIDE DEF Computed
    <3>. QED
      BY <1>5, <1>6, SetInduction
  <2>2. PICK f : /\ f = [k \in 0 .. len |-> f[k]]
                 /\ f[0] = <<>>
                 /\ \A k \in 1 .. len : f[k] = TimesStep(list, preds, f[k - 1], k)
    BY <2>1
  <2>3. \A k \in 0 .. len : k # 0 => k \in 1 .. len
    OBVIOUS
  <2>4. \A k \in 0 .. len : f[k] = IF k = 0 THEN <<>> ELSE TimesStep(list, preds, f[k - 1], k)
    BY <2>2, <2>3
  <2>5. f = States(f)
    BY <2>2, <2>4, Zenon
  <2>. QED
    BY <2>5
<1>. HIDE DEF after
<1>8. after[0] = <<>>
      /\ \A m \in Nat : m + 1 <= len => after[m + 1] = TimesStep(list, preds, after[m], m + 1)
  <2>1. 0 \in 0 .. len
        /\ \A m \in Nat : m + 1 <= len => m + 1 \in 0 .. len /\ m + 1 # 0 /\ (m + 1) - 1 = m
    OBVIOUS
  <2>. QED
    BY <1>7, <2>1
<1>. QED
  BY <1>4, <1>8, Zenon DEF TimesRun

\* A set has at most one largest number.
LEMMA LargestIs ==
    ASSUME NEW S, S \subseteq Int, NEW m \in S, \A x \in S : x <= m
    PROVE  Max(S) = m
<1>1. \A x \in S : m >= x
  OBVIOUS
<1>2. \A x \in S : (\A y \in S : x >= y) => x = m
  OBVIOUS
<1>. QED
  BY <1>1, <1>2 DEF Max

\* One of finitely many numbers is the largest.
LEMMA LargestValue ==
    ASSUME NEW n \in Nat \ {0}, NEW val, \A i \in 1 .. n : val[i] \in Nat
    PROVE  \E k \in 1 .. n : \A i \in 1 .. n : val[i] <= val[k]
<1>1. PICK S : S = {m \in Nat : m + 1 <= n => \E k \in 1 .. m + 1 : \A i \in 1 .. m + 1 : val[i] <= val[k]}
  OBVIOUS
<1>2. 0 \in S
  BY <1>1
<1>3. ASSUME NEW m \in S, m \in Nat PROVE m + 1 \in S
  <2>1. SUFFICES ASSUME m + 1 + 1 <= n
                 PROVE  \E k \in 1 .. m + 1 + 1 : \A i \in 1 .. m + 1 + 1 : val[i] <= val[k]
    BY <1>1, <1>3
  <2>2. PICK k \in 1 .. m + 1 : \A i \in 1 .. m + 1 : val[i] <= val[k]
    BY <1>1, <1>3, <2>1
  <2>3. PICK l : l = m + 1 + 1
    OBVIOUS
  <2>4. /\ l \in 1 .. l /\ k \in 1 .. l /\ val[k] \in Nat /\ val[l] \in Nat
        /\ \A i \in 1 .. l : i = l \/ i \in 1 .. m + 1
    BY <1>3, <2>1, <2>3
  <2>5. CASE val[l] <= val[k]
    <3>1. \A i \in 1 .. l : val[i] <= val[k]
      BY <2>2, <2>4, <2>5
    <3>. QED
      BY <2>3, <2>4, <3>1
  <2>6. CASE ~(val[l] <= val[k])
    <3>1. \A i \in 1 .. l : val[i] <= val[l]
      <4>1. SUFFICES ASSUME NEW i \in 1 .. l PROVE val[i] <= val[l]
        OBVIOUS
      <4>2. CASE i = l
        BY <2>4, <4>2
      <4>3. CASE i \in 1 .. m + 1
        <5>1. val[i] <= val[k] /\ val[i] \in Nat
          BY <1>3, <2>1, <2>2, <4>3
        <5>. QED
          BY <2>4, <2>6, <5>1
      <4>. QED
        BY <2>4, <4>2, <4>3
    <3>. QED
      BY <2>3, <2>4, <3>1
  <2>. QED
    BY <2>5, <2>6
<1>4. Nat \subseteq S
  BY <1>2, <1>3, SetInduction
<1>5. n - 1 \in S /\ (n - 1) + 1 = n
  BY <1>4
<1>. QED
  BY <1>1, <1>5

\* The gates before have their times ...
HaveTimes(before, times) == \A h \in ToSet(before) \ {NoGate} : times[h] \in Nat \ {0}

\* ... and t comes after the latest of them.
ComesNext(before, times, t) ==
    /\ t \in Nat \ {0}
    /\ \A h \in ToSet(before) \ {NoGate} : times[h] < t
    /\ t = 1 \/ \E h \in ToSet(before) \ {NoGate} : t = times[h] + 1

\* The time of a gate, given those of the gates directly before it
LEMMA TimeIsNext ==
    ASSUME NEW ids, NEW before \in Seq(ids \cup {NoGate}), before # <<>>, NEW times,
           HaveTimes(before, times), NEW t, t = TimeAfter(before, times)
    PROVE  ComesNext(before, times, t)
<1>1. PICK n \in Nat \ {0} : DOMAIN before = 1 .. n
  <2>1. Len(before) \in Nat \ {0} /\ DOMAIN before = 1 .. Len(before)
    OBVIOUS
  <2>2. PICK n : n = Len(before)
    OBVIOUS
  <2>3. n \in Nat \ {0} /\ DOMAIN before = 1 .. n
    BY <2>1, <2>2
  <2>. QED
    BY <2>3, Zenon
<1>2. \A h : h \in ToSet(before) <=> \E i \in 1 .. n : before[i] = h
  BY <1>1 DEF ToSet
<1>3. PICK val : val = [i \in 1 .. n |-> IF before[i] = NoGate THEN 0 ELSE times[before[i]]]
  OBVIOUS
<1>4. \A i \in 1 .. n : /\ val[i] \in Nat
                        /\ before[i] = NoGate => val[i] = 0
                        /\ before[i] # NoGate => val[i] = times[before[i]]
  BY <1>2, <1>3 DEF HaveTimes
<1>5. PICK V : V = {IF h = NoGate THEN 0 ELSE times[h] : h \in ToSet(before)}
  OBVIOUS
<1>6. /\ \A x \in V : \E i \in 1 .. n : x = val[i]
      /\ \A i \in 1 .. n : val[i] \in V
  <2>1. ASSUME NEW x \in V PROVE \E i \in 1 .. n : x = val[i]
    <3>1. PICK h \in ToSet(before) : x = IF h = NoGate THEN 0 ELSE times[h]
      BY <1>5, <2>1
    <3>2. PICK i \in 1 .. n : before[i] = h
      BY <1>2
    <3>3. x = val[i]
      BY <1>4, <3>1, <3>2
    <3>. QED
      BY <3>3
  <2>2. ASSUME NEW i \in 1 .. n PROVE val[i] \in V
    <3>1. before[i] \in ToSet(before)
      BY <1>2
    <3>2. val[i] = IF before[i] = NoGate THEN 0 ELSE times[before[i]]
      BY <1>4
    <3>. QED
      BY <1>5, <3>1, <3>2
  <2>. QED
    BY <2>1, <2>2
<1>7. PICK k \in 1 .. n : \A i \in 1 .. n : val[i] <= val[k]
  BY <1>4, LargestValue
<1>8. V \subseteq Int /\ val[k] \in V /\ \A x \in V : x <= val[k]
  BY <1>4, <1>6, <1>7
<1>9. Max(V) = val[k]
  BY <1>8, LargestIs
<1>10. t = 1 + val[k] /\ val[k] \in Nat
  BY <1>4, <1>5, <1>9 DEF TimeAfter
<1>11. ASSUME NEW h \in ToSet(before) \ {NoGate} PROVE times[h] < t
  <2>1. PICK i \in 1 .. n : before[i] = h
    BY <1>2
  <2>2. times[h] <= val[k] /\ times[h] \in Nat
    BY <1>4, <1>7, <2>1
  <2>. QED
    BY <1>10, <2>2
<1>12. t = 1 \/ \E h \in ToSet(before) \ {NoGate} : t = times[h] + 1
  <2>1. CASE before[k] = NoGate
    BY <1>4, <1>10, <2>1
  <2>2. CASE before[k] # NoGate
    <3>1. before[k] \in ToSet(before) \ {NoGate} /\ t = times[before[k]] + 1
      BY <1>2, <1>4, <1>10, <2>2
    <3>. QED
      BY <3>1
  <2>. QED
    BY <2>1, <2>2
<1>13. t \in Nat \ {0}
  BY <1>10
<1>. QED
  BY <1>11, <1>12, <1>13, Zenon DEF ComesNext

\* h stands directly before g on a line.
Adjacent(h, g) == \E q \in QubitIds : \E i \in DOMAIN Lines[q] :
                      i + 1 \in DOMAIN Lines[q] /\ Lines[q][i] = h /\ Lines[q][i + 1] = g

\* The predecessors of a gate are those directly before it.
LEMMA LinksBefore ==
    ASSUME CircuitInv, NEW g \in DOMAIN gates
    PROVE  /\ preds[g] \in Seq(DOMAIN gates \cup {NoGate}) /\ preds[g] # <<>>
           /\ \A h : h \in ToSet(preds[g]) \ {NoGate} <=> Adjacent(h, g)
<1>1. PICK n \in Nat : n = numQubits
  BY DEF CircuitInv
<1>2. /\ gates \in Circuits(n) /\ Lined(n, gates, Lines) /\ preds = LinksOf(gates, Lines, -1)
      /\ DOMAIN Lines = 0 .. n - 1 /\ QubitIds = 0 .. n - 1
  BY <1>1 DEF CircuitInv, Wired, Lined, QubitIds
<1>3. PICK bits : bits = gates[g].qubits
  OBVIOUS
<1>4. /\ bits \in Seq(0 .. n - 1) /\ bits # <<>> /\ NoGate \notin DOMAIN gates
      /\ \A pin \in DOMAIN bits : bits[pin] \in 0 .. n - 1
  BY <1>2, <1>3, CircuitGates
<1>5. \A q \in 0 .. n - 1 : /\ Lines[q] \in LineOf(DOMAIN gates)
                            /\ g \in ToSet(Lines[q]) <=> q \in ToSet(bits)
  BY <1>2, <1>3 DEF Lined
<1>6. preds[g] = [pin \in DOMAIN bits |-> Beside(Lines[bits[pin]], g, -1)]
  BY <1>2, <1>3 DEF LinksOf
<1>7. ASSUME NEW q \in 0 .. n - 1, g \in ToSet(Lines[q])
      PROVE  /\ Beside(Lines[q], g, -1) \in DOMAIN gates \cup {NoGate}
             /\ \A h : h # NoGate => (Beside(Lines[q], g, -1) = h <=>
                          \E i \in DOMAIN Lines[q] : /\ i + 1 \in DOMAIN Lines[q]
                                                     /\ Lines[q][i] = h /\ Lines[q][i + 1] = g)
  <2>1. PICK s : s = Lines[q]
    OBVIOUS
  <2>2. s \in LineOf(DOMAIN gates) /\ g \in ToSet(s)
    BY <1>5, <1>7, <2>1
  <2>3. PICK m \in Nat : DOMAIN s = 1 .. m
    BY <2>2, PlaceOnLine
  <2>4. PICK k \in 1 .. m : Place(s, g) = k /\ s[k] = g
    BY <2>2, <2>3, PlaceOnLine
  <2>5. \A i \in 1 .. m : s[i] \in DOMAIN gates /\ (s[i] = g => i = k)
    BY <2>2, <2>3, <2>4, PlaceOnLine
  <2>6. Beside(s, g, -1) = IF k - 1 \in 1 .. m THEN s[k - 1] ELSE NoGate
    BY <2>3, <2>4 DEF Beside, Entry
  <2>7. Beside(s, g, -1) \in DOMAIN gates \cup {NoGate}
    BY <2>5, <2>6
  <2>8. ASSUME NEW h, h # NoGate
        PROVE  Beside(s, g, -1) = h <=> \E i \in DOMAIN s : i + 1 \in DOMAIN s /\ s[i] = h /\ s[i + 1] = g
    <3>1. ASSUME Beside(s, g, -1) = h
          PROVE  \E i \in DOMAIN s : i + 1 \in DOMAIN s /\ s[i] = h /\ s[i + 1] = g
      <4>1. k - 1 \in DOMAIN s /\ s[k - 1] = h /\ (k - 1) + 1 = k
        BY <2>3, <2>6, <2>8, <3>1
      <4>. QED
        BY <2>3, <2>4, <4>1
    <3>2. ASSUME NEW i \in DOMAIN s, i + 1 \in DOMAIN s, s[i] = h, s[i + 1] = g
          PROVE  Beside(s, g, -1) = h
      <4>1. i + 1 = k /\ k - 1 = i
        BY <2>3, <2>5, <3>2
      <4>. QED
        BY <2>3, <2>6, <3>2, <4>1
    <3>. QED
      BY <3>1, <3>2
  <2>. QED
    BY <2>1, <2>7, <2>8
<1>8. \A pin \in DOMAIN bits : bits[pin] \in ToSet(bits) /\ g \in ToSet(Lines[bits[pin]])
  BY <1>4, <1>5 DEF ToSet
<1>9. preds[g] \in Seq(DOMAIN gates \cup {NoGate}) /\ preds[g] # <<>> /\ DOMAIN preds[g] = DOMAIN bits
  <2>1. PICK len \in Nat : DOMAIN bits = 1 .. len /\ len # 0
    BY <1>4
  <2>2. \A pin \in 1 .. len : Beside(Lines[bits[pin]], g, -1) \in DOMAIN gates \cup {NoGate}
    BY <1>4, <1>7, <1>8, <2>1
  <2>3. preds[g] \in [1 .. len -> DOMAIN gates \cup {NoGate}]
    BY <1>6, <2>1, <2>2
  <2>. QED
    BY <2>1, <2>3
<1>10. ASSUME NEW h
       PROVE  h \in ToSet(preds[g]) \ {NoGate} <=> Adjacent(h, g)
  <2>1. ASSUME h \in ToSet(preds[g]) \ {NoGate} PROVE Adjacent(h, g)
    <3>1. PICK pin \in DOMAIN bits : h = Beside(Lines[bits[pin]], g, -1)
      BY <1>6, <1>9, <2>1 DEF ToSet
    <3>. QED
      BY <1>2, <1>4, <1>7, <1>8, <2>1, <3>1 DEF Adjacent
  <2>2. ASSUME Adjacent(h, g) PROVE h \in ToSet(preds[g]) \ {NoGate}
    <3>1. PICK q \in 0 .. n - 1 : \E i \in DOMAIN Lines[q] :
                   i + 1 \in DOMAIN Lines[q] /\ Lines[q][i] = h /\ Lines[q][i + 1] = g
      BY <1>2, <2>2 DEF Adjacent
    <3>2. g \in ToSet(Lines[q]) /\ h \in DOMAIN gates
      BY <1>5, <3>1, PlaceOnLine
    <3>3. Beside(Lines[q], g, -1) = h
      BY <1>4, <1>7, <3>1, <3>2
    <3>4. PICK pin \in DOMAIN bits : bits[pin] = q
      BY <1>5, <3>2 DEF ToSet
    <3>. QED
      BY <1>4, <1>6, <1>9, <3>2, <3>3, <3>4 DEF ToSet
  <2>. QED
    BY <2>1, <2>2
<1>. QED
  BY <1>9, <1>10

\* The time of g is one more than the latest of those directly before it.
TimedAt(g, times) ==
    /\ times[g] \in Nat \ {0}
    /\ \A h : Adjacent(h, g) => h \in DOMAIN times /\ times[h] < times[g]
    /\ times[g] = 1 \/ \E h : Adjacent(h, g) /\ times[g] = times[h] + 1

TimedUpto(list, m, times) ==
    /\ DOMAIN times = {list[i] : i \in 1 .. m}
    /\ \A g \in DOMAIN times : TimedAt(g, times)

LEMMA TimeStepKeeps ==
    ASSUME CircuitInv, NEW list, ListsAll(DOMAIN gates, list), InOrder(Lines, list),
           NEW len \in Nat, len = Len(list), NEW m \in Nat, m + 1 <= len,
           NEW times, TimedUpto(list, m, times),
           NEW after, after = TimesStep(list, preds, times, m + 1)
    PROVE  TimedUpto(list, m + 1, after)
<1>1. /\ list \in LineOf(DOMAIN gates) /\ DOMAIN list = 1 .. len
      /\ \A i \in 1 .. len : list[i] \in DOMAIN gates /\ Place(list, list[i]) = i
      /\ \A g \in DOMAIN gates : Place(list, g) \in 1 .. len /\ list[Place(list, g)] = g
  BY PlaceOnLine DEF ListsAll
<1>2. PICK g \in DOMAIN gates : g = list[m + 1] /\ Place(list, g) = m + 1
  BY <1>1
<1>3. ASSUME NEW h, Adjacent(h, g)
      PROVE  h \in DOMAIN times
  <2>1. PICK q \in QubitIds : \E i \in DOMAIN Lines[q] :
               i + 1 \in DOMAIN Lines[q] /\ Lines[q][i] = h /\ Lines[q][i + 1] = g
    BY <1>3 DEF Adjacent
  <2>2. PICK i \in DOMAIN Lines[q] :
               i + 1 \in DOMAIN Lines[q] /\ Lines[q][i] = h /\ Lines[q][i + 1] = g
    BY <2>1
  <2>3. Lines[q] \in LineOf(DOMAIN gates) /\ q \in DOMAIN Lines
    BY DEF CircuitInv, Wired, Lined, QubitIds
  <2>4. h \in DOMAIN gates /\ i \in Int /\ i < i + 1
    BY <2>2, <2>3, PlaceOnLine
  <2>5. Place(list, h) < Place(list, g)
    BY <2>2, <2>3, <2>4 DEF InOrder
  <2>6. Place(list, h) \in 1 .. m /\ list[Place(list, h)] = h
    BY <1>1, <1>2, <2>4, <2>5
  <2>. QED
    BY <2>6 DEF TimedUpto
<1>4. g \notin DOMAIN times
  <2>1. ASSUME NEW i \in 1 .. m, list[i] = g PROVE FALSE
    BY <1>1, <1>2, <2>1
  <2>. QED
    BY <2>1 DEF TimedUpto
<1>5. PICK before : before = preds[g]
  OBVIOUS
<1>6. /\ before \in Seq(DOMAIN gates \cup {NoGate}) /\ before # <<>>
      /\ \A h : h \in ToSet(before) \ {NoGate} <=> Adjacent(h, g)
  BY <1>5, LinksBefore
<1>7. PICK t : t = TimeAfter(before, times)
  OBVIOUS
<1>8. HaveTimes(before, times)
  BY <1>3, <1>6 DEF TimedUpto, TimedAt, HaveTimes
<1>9. /\ t \in Nat \ {0}
      /\ \A h \in ToSet(before) \ {NoGate} : times[h] < t
      /\ t = 1 \/ \E h \in ToSet(before) \ {NoGate} : t = times[h] + 1
  <2>1. ComesNext(before, times, t)
    BY <1>6, <1>7, <1>8, TimeIsNext
  <2>. QED
    BY <2>1 DEF ComesNext
<1>10. after = WithEntry(times, g, t)
  BY <1>2, <1>5, <1>7 DEF TimesStep
<1>11. /\ DOMAIN after = DOMAIN times \cup {g} /\ after[g] = t
       /\ \A h \in DOMAIN times : after[h] = times[h]
  BY <1>4, <1>10 DEF WithEntry
<1>12. DOMAIN after = {list[i] : i \in 1 .. m + 1}
  <2>1. \A i : i \in 1 .. m + 1 <=> i \in 1 .. m \/ i = m + 1
    OBVIOUS
  <2>. QED
    BY <1>2, <1>11, <2>1 DEF TimedUpto
<1>13. TimedAt(g, after)
  <2>1. \A h : Adjacent(h, g) => h \in DOMAIN after /\ after[h] = times[h] /\ times[h] < t
    BY <1>3, <1>6, <1>9, <1>11
  <2>2. t = 1 \/ \E h : Adjacent(h, g) /\ t = after[h] + 1
    BY <1>6, <1>9, <2>1
  <2>. QED
    BY <1>9, <1>11, <2>1, <2>2 DEF TimedAt
<1>14. ASSUME NEW x \in DOMAIN times PROVE TimedAt(x, after)
  <2>1. TimedAt(x, times) /\ after[x] = times[x]
    BY <1>11 DEF TimedUpto
  <2>2. \A h : Adjacent(h, x) => h \in DOMAIN after /\ after[h] = times[h] /\ times[h] < times[x]
    BY <1>11, <2>1 DEF TimedAt
  <2>3. times[x] = 1 \/ \E h : Adjacent(h, x) /\ times[x] = after[h] + 1
    BY <2>1, <2>2 DEF TimedAt
  <2>. QED
    BY <2>1, <2>2, <2>3 DEF TimedAt
<1>. QED
  BY <1>11, <1>12, <1>13, <1>14 DEF TimedUpto

\* Every gate has its time.
Timed(times) == DOMAIN times = DOMAIN gates /\ \A g \in DOMAIN gates : TimedAt(g, times)

LEMMA GatesAreTimed ==
    ASSUME CircuitInv
    PROVE  Timed(GateTimes)
<1>1. PICK list : list = CurrentGates
  OBVIOUS
<1>2. ListsAll(DOMAIN gates, list) /\ InOrder(Lines, list)
  BY <1>1, CurrentOrder
<1>3. PICK len : len = Len(list)
  OBVIOUS
<1>4. len \in Nat /\ DOMAIN list = 1 .. len /\ ToSet(list) = DOMAIN gates
  BY <1>2, <1>3, PlaceOnLine DEF ListsAll
<1>5. PICK after : TimesRun(list, len, after)
  BY <1>1, <1>3, <1>4, TimesAreRun
<1>6. PICK S : S = {m \in Nat : m <= len => TimedUpto(list, m, after[m])}
  OBVIOUS
<1>7. 0 \in S
  <2>1. after[0] = <<>> /\ DOMAIN <<>> = {} /\ 1 .. 0 = {}
    BY <1>5 DEF TimesRun
  <2>. QED
    BY <1>6, <2>1 DEF TimedUpto
<1>8. ASSUME NEW m \in S, m \in Nat PROVE m + 1 \in S
  <2>1. SUFFICES ASSUME m + 1 <= len PROVE TimedUpto(list, m + 1, after[m + 1])
    BY <1>6, <1>8
  <2>2. TimedUpto(list, m, after[m]) /\ after[m + 1] = TimesStep(list, preds, after[m], m + 1)
    BY <1>4, <1>5, <1>6, <1>8, <2>1 DEF TimesRun
  <2>. QED
    BY <1>2, <1>3, <1>4, <1>8, <2>1, <2>2, TimeStepKeeps
<1>9. Nat \subseteq S
  BY <1>7, <1>8, SetInduction
<1>10. TimedUpto(list, len, GateTimes)
  BY <1>4, <1>5, <1>6, <1>9 DEF TimesRun
<1>11. DOMAIN GateTimes = DOMAIN gates
  BY <1>4, <1>10 DEF TimedUpto, ToSet
<1>. QED
  BY <1>10, <1>11 DEF TimedUpto, Timed

\* Times rise along every line.
LEMMA TimesRise ==
    ASSUME CircuitInv, NEW times, Timed(times), NEW g, NEW h, Precedes(g, h)
    PROVE  /\ g \in DOMAIN gates /\ h \in DOMAIN gates
           /\ times[g] \in Nat /\ times[h] \in Nat /\ times[g] < times[h]
<1>1. PICK q \in QubitIds : \E i, j \in DOMAIN Lines[q] :
                               i < j /\ Lines[q][i] = g /\ Lines[q][j] = h
  BY DEF Precedes
<1>2. PICK s : s = Lines[q]
  OBVIOUS
<1>3. s \in LineOf(DOMAIN gates)
  BY <1>2 DEF CircuitInv, Wired, Lined, QubitIds
<1>4. PICK m \in Nat : DOMAIN s = 1 .. m
  BY <1>3, PlaceOnLine
<1>5. \A i \in 1 .. m : s[i] \in DOMAIN gates /\ times[s[i]] \in Nat
  BY <1>3, <1>4, PlaceOnLine DEF Timed, TimedAt
<1>6. \A i \in 1 .. m : i + 1 <= m => Adjacent(s[i], s[i + 1])
  <2>1. SUFFICES ASSUME NEW i \in 1 .. m, i + 1 <= m PROVE Adjacent(s[i], s[i + 1])
    OBVIOUS
  <2>2. i \in DOMAIN s /\ i + 1 \in DOMAIN s
    BY <1>4, <2>1
  <2>. QED
    BY <1>2, <2>2, Zenon DEF Adjacent
<1>7. PICK f : f = [i \in 1 .. m |-> times[s[i]]]
  OBVIOUS
<1>8. \A i \in 1 .. m : f[i] \in Int /\ f[i] = times[s[i]]
  BY <1>5, <1>7
<1>9. \A i \in 1 .. m : i + 1 <= m => f[i] < f[i + 1]
  <2>1. SUFFICES ASSUME NEW i \in 1 .. m, i + 1 <= m PROVE f[i] < f[i + 1]
    OBVIOUS
  <2>2. i + 1 \in 1 .. m /\ Adjacent(s[i], s[i + 1])
    BY <1>6, <2>1
  <2>3. times[s[i]] < times[s[i + 1]]
    BY <1>5, <2>2 DEF Timed, TimedAt
  <2>. QED
    BY <1>8, <2>2, <2>3
<1>10. \A i, j \in 1 .. m : i < j => f[i] < f[j]
  BY <1>8, <1>9, StepsAscend
<1>11. PICK i \in 1 .. m, j \in 1 .. m : i < j /\ s[i] = g /\ s[j] = h
  BY <1>1, <1>2, <1>4
<1>. QED
  BY <1>5, <1>8, <1>10, <1>11

\* A chain is not longer than the time of its last gate.
LEMMA ChainTakesTime ==
    ASSUME CircuitInv, NEW times, Timed(times),
           NEW S, S \subseteq DOMAIN gates, IsFiniteSet(S), S # {}, IsChain(S)
    PROVE  Cardinality(S) \in Nat /\ \E g \in S : Cardinality(S) <= times[g]
<1>1. PICK n \in Nat \ {0} : n = Cardinality(S)
  BY FS_CardinalityType, FS_EmptySet
<1>2. PICK order \in SetToSeqs(S) : \A i \in 2 .. Len(order) : Precedes(order[i - 1], order[i])
  BY DEF IsChain
<1>3. order \in [1 .. n -> S]
  BY <1>1, <1>2 DEF SetToSeqs
<1>4. Len(order) = n
  <2>1. order \in Seq(S)
    BY <1>3
  <2>. QED
    BY <1>3, <2>1
<1>5. PICK K : K = {k \in Nat : k + 1 <= n => k + 1 <= times[order[k + 1]]}
  OBVIOUS
<1>6. \A g \in S : times[g] \in Nat \ {0}
  BY DEF Timed, TimedAt
<1>7. 0 \in K
  <2>1. 1 \in 1 .. n
    OBVIOUS
  <2>2. times[order[1]] \in Nat \ {0}
    BY <1>3, <1>6, <2>1
  <2>. QED
    BY <1>5, <2>2
<1>8. ASSUME NEW k \in K, k \in Nat PROVE k + 1 \in K
  <2>1. SUFFICES ASSUME k + 1 + 1 <= n PROVE k + 1 + 1 <= times[order[k + 1 + 1]]
    BY <1>5, <1>8
  <2>2. PICK l : l = k + 1 + 1 /\ l - 1 = k + 1
    BY <1>8
  <2>3. Precedes(order[l - 1], order[l])
    BY <1>2, <1>4, <1>8, <2>1, <2>2
  <2>4. /\ times[order[l - 1]] < times[order[l]]
        /\ times[order[l - 1]] \in Nat /\ times[order[l]] \in Nat
    BY <2>3, TimesRise
  <2>5. k + 1 <= times[order[l - 1]]
    BY <1>5, <1>8, <2>1, <2>2
  <2>. QED
    BY <1>8, <2>2, <2>4, <2>5
<1>9. Nat \subseteq K
  BY <1>7, <1>8, SetInduction
<1>10. n - 1 \in K /\ (n - 1) + 1 = n
  BY <1>9
<1>11. order[n] \in S /\ n <= times[order[n]]
  BY <1>3, <1>5, <1>10
<1>. QED
  BY <1>1, <1>11

\* A chain of m gates that ends at g and has a gate at every time
Climbs(order, m, g, times) ==
    /\ order \in [1 .. m -> DOMAIN gates] /\ order[m] = g
    /\ \A i \in 1 .. m : times[order[i]] = i
    /\ \A i \in 2 .. m : Precedes(order[i - 1], order[i])

\* A gate has a chain of as many gates as its time says.
LEMMA ChainClimbs ==
    ASSUME CircuitInv, NEW times, Timed(times), NEW g \in DOMAIN gates
    PROVE  \E order : Climbs(order, times[g], g, times)
<1>1. PICK K : K = {k \in Nat : \A x \in DOMAIN gates :
                        times[x] = k + 1 => \E order : Climbs(order, k + 1, x, times)}
  OBVIOUS
<1>2. 0 \in K
  <2>1. SUFFICES ASSUME NEW x \in DOMAIN gates, times[x] = 0 + 1
                 PROVE  \E order : Climbs(order, 0 + 1, x, times)
    BY <1>1
  <2>2. PICK order : order = [i \in 1 .. 1 |-> x]
    OBVIOUS
  <2>3. Climbs(order, 0 + 1, x, times)
    BY <2>1, <2>2 DEF Climbs
  <2>. QED
    BY <2>3
<1>3. ASSUME NEW k \in K, k \in Nat PROVE k + 1 \in K
  <2>1. SUFFICES ASSUME NEW x \in DOMAIN gates, times[x] = k + 1 + 1
                 PROVE  \E order : Climbs(order, k + 1 + 1, x, times)
    BY <1>1, <1>3
  <2>2. TimedAt(x, times)
    BY DEF Timed
  <2>3. PICK h : Adjacent(h, x) /\ times[x] = times[h] + 1
    BY <1>3, <2>1, <2>2 DEF TimedAt
  <2>4. Precedes(h, x)
    <3>1. PICK q \in QubitIds : \E i \in DOMAIN Lines[q] :
                 i + 1 \in DOMAIN Lines[q] /\ Lines[q][i] = h /\ Lines[q][i + 1] = x
      BY <2>3 DEF Adjacent
    <3>2. PICK i \in DOMAIN Lines[q] :
                 i + 1 \in DOMAIN Lines[q] /\ Lines[q][i] = h /\ Lines[q][i + 1] = x
      BY <3>1
    <3>3. Lines[q] \in LineOf(DOMAIN gates)
      BY DEF CircuitInv, Wired, Lined, QubitIds
    <3>4. i < i + 1
      BY <3>3, PlaceOnLine
    <3>. QED
      BY <3>2, <3>4, Zenon DEF Precedes
  <2>5. h \in DOMAIN gates /\ times[h] = k + 1
    BY <1>3, <2>1, <2>3, <2>4, TimesRise
  <2>6. PICK shorter : Climbs(shorter, k + 1, h, times)
    BY <1>1, <1>3, <2>5
  <2>7. PICK m \in Nat : m = k + 1
    BY <1>3
  <2>8. PICK order : order = [i \in 1 .. m + 1 |-> IF i = m + 1 THEN x ELSE shorter[i]]
    OBVIOUS
  <2>9. /\ shorter \in [1 .. m -> DOMAIN gates] /\ shorter[m] = h
        /\ \A i \in 1 .. m : times[shorter[i]] = i
        /\ \A i \in 2 .. m : Precedes(shorter[i - 1], shorter[i])
    BY <2>6, <2>7 DEF Climbs
  <2>10. order[m + 1] = x /\ \A i \in 1 .. m : order[i] = shorter[i]
    BY <2>8
  <2>11. order \in [1 .. m + 1 -> DOMAIN gates]
    BY <2>8, <2>9
  <2>12. \A i \in 1 .. m + 1 : times[order[i]] = i
    BY <2>1, <2>7, <2>9, <2>10
  <2>13. ASSUME NEW i \in 2 .. m + 1 PROVE Precedes(order[i - 1], order[i])
    <3>1. CASE i = m + 1
      <4>1. i - 1 = m /\ m \in 1 .. m
        BY <1>3, <2>7, <3>1
      <4>. QED
        BY <2>4, <2>9, <2>10, <3>1, <4>1
    <3>2. CASE i # m + 1
      <4>1. i \in 2 .. m /\ i \in 1 .. m /\ i - 1 \in 1 .. m
        BY <3>2
      <4>. QED
        BY <2>9, <2>10, <4>1
    <3>. QED
      BY <3>1, <3>2
  <2>14. Climbs(order, m + 1, x, times)
    BY <2>10, <2>11, <2>12, <2>13 DEF Climbs
  <2>. QED
    BY <2>7, <2>14
<1>4. Nat \subseteq K
  BY <1>2, <1>3, SetInduction
<1>5. times[g] \in Nat \ {0}
  BY DEF Timed, TimedAt
<1>6. PICK k \in Nat : times[g] = k + 1
  <2>1. times[g] - 1 \in Nat /\ times[g] = (times[g] - 1) + 1
    BY <1>5
  <2>. QED
    BY <2>1
<1>. QED
  BY <1>1, <1>4, <1>6

\* ... and they are a chain.
LEMMA ChainOfTime ==
    ASSUME CircuitInv, NEW times, Timed(times), NEW g \in DOMAIN gates
    PROVE  \E S \in SUBSET DOMAIN gates : IsChain(S) /\ Cardinality(S) = times[g]
<1>1. PICK n \in Nat : n = times[g]
  BY DEF Timed, TimedAt
<1>2. PICK order : Climbs(order, n, g, times)
  BY <1>1, ChainClimbs
<1>3. /\ order \in [1 .. n -> DOMAIN gates]
      /\ \A i \in 1 .. n : times[order[i]] = i
      /\ \A i \in 2 .. n : Precedes(order[i - 1], order[i])
  BY <1>2 DEF Climbs
<1>4. PICK S : S = {order[i] : i \in 1 .. n}
  OBVIOUS
<1>5. S \subseteq DOMAIN gates /\ order \in [1 .. n -> S]
  BY <1>3, <1>4
<1>6. \A i, j \in 1 .. n : i # j => order[i] # order[j]
  BY <1>3
<1>7. order \in Bijection(1 .. n, S)
  BY <1>4, <1>5, <1>6 DEF Bijection, Injection, Surjection, IsInjective
<1>8. IsFiniteSet(1 .. n) /\ Cardinality(1 .. n) = n
  BY FS_Interval
<1>9. Cardinality(S) = n
  BY <1>7, <1>8, FS_Bijection DEF ExistsBijection
<1>10. order \in SetToSeqs(S)
  BY <1>5, <1>6, <1>9 DEF SetToSeqs
<1>11. Len(order) = n
  <2>1. order \in Seq(S)
    BY <1>5
  <2>. QED
    BY <1>5, <2>1
<1>12. IsChain(S)
  BY <1>3, <1>10, <1>11 DEF IsChain
<1>. QED
  BY <1>1, <1>5, <1>9, <1>12

\* The depth that is calculated is that of the longest chain.
LEMMA DepthIsRight ==
    ASSUME CircuitInv
    PROVE  DepthIsLongestChain
<1>1. Timed(GateTimes)
  BY GatesAreTimed
<1>2. PICK times : times = GateTimes /\ Timed(times)
  BY <1>1
<1>3. IsFiniteSet(DOMAIN gates)
  BY FiniteIds DEF CircuitInv
<1>4. PICK X : X = {Cardinality(S) : S \in {T \in SUBSET DOMAIN gates : IsChain(T)}}
  OBVIOUS
<1>5. \A S : S \subseteq DOMAIN gates /\ IsChain(S) => Cardinality(S) \in X
  BY <1>4
<1>6. \A x \in X : \E S : S \subseteq DOMAIN gates /\ IsChain(S) /\ x = Cardinality(S)
  BY <1>4
<1>7. IsFiniteSet({}) /\ Cardinality({}) = 0
  BY FS_EmptySet
<1>8. ASSUME NEW x \in X
      PROVE  x \in Nat /\ (x = 0 \/ \E g \in DOMAIN gates : x <= times[g])
  <2>1. PICK S : S \subseteq DOMAIN gates /\ IsChain(S) /\ x = Cardinality(S)
    BY <1>6
  <2>2. IsFiniteSet(S)
    BY <1>3, <2>1, FS_Subset
  <2>3. CASE S = {}
    BY <1>7, <2>1, <2>3
  <2>4. CASE S # {}
    BY <1>2, <2>1, <2>2, <2>4, ChainTakesTime
  <2>. QED
    BY <2>3, <2>4
<1>9. CASE gates = <<>>
  <2>1. DOMAIN gates = {}
    BY <1>9
  <2>2. IsChain({})
    <3>1. <<>> \in SetToSeqs({}) /\ Len(<<>>) = 0
      BY <1>7 DEF SetToSeqs
    <3>2. 2 .. 0 = {}
      OBVIOUS
    <3>. QED
      BY <3>1, <3>2 DEF IsChain
  <2>3. 0 \in X
    BY <1>5, <1>7, <2>2
  <2>4. X \subseteq Int /\ \A x \in X : x <= 0
    BY <1>8, <2>1
  <2>5. Max(X) = 0
    BY <2>3, <2>4, LargestIs
  <2>. QED
    BY <1>4, <1>9, <2>5 DEF DepthIsLongestChain, CalculateDepth
<1>10. CASE gates # <<>>
  <2>1. DOMAIN gates # {}
    <3>1. PICK ids : gates \in [ids -> GateSet(numQubits)]
      BY DEF CircuitInv, Circuits
    <3>2. ids = {} => gates = <<>>
      BY <3>1
    <3>. QED
      BY <1>10, <3>1, <3>2
  <2>2. PICK top \in DOMAIN gates : \A g \in DOMAIN gates : times[g] <= times[top]
    <3>1. PICK list : ListsAll(DOMAIN gates, list)
      BY CurrentOrder
    <3>2. PICK len \in Nat : DOMAIN list = 1 .. len
      BY <3>1, PlaceOnLine DEF ListsAll
    <3>3. /\ \A i \in 1 .. len : list[i] \in DOMAIN gates
          /\ \A g \in DOMAIN gates : \E i \in 1 .. len : list[i] = g
      BY <3>1, <3>2, PlaceOnLine DEF ListsAll
    <3>4. len \in Nat \ {0}
      BY <2>1, <3>3
    <3>5. PICK val : val = [i \in 1 .. len |-> times[list[i]]]
      OBVIOUS
    <3>6. \A i \in 1 .. len : val[i] \in Nat /\ val[i] = times[list[i]]
      BY <1>2, <3>3, <3>5 DEF Timed, TimedAt
    <3>7. PICK k \in 1 .. len : \A i \in 1 .. len : val[i] <= val[k]
      BY <3>4, <3>6, LargestValue
    <3>8. \A g \in DOMAIN gates : times[g] <= times[list[k]]
      BY <3>3, <3>6, <3>7
    <3>. QED
      BY <3>3, <3>8
  <2>3. \A g \in DOMAIN gates : times[g] \in Nat \ {0}
    BY <1>2 DEF Timed, TimedAt
  <2>4. Max(Range(times)) = times[top]
    <3>1. PICK R : R = Range(times)
      OBVIOUS
    <3>2. \A x : x \in R <=> \E g \in DOMAIN gates : x = times[g]
      BY <1>2, <3>1 DEF Range, Timed
    <3>3. R \subseteq Int /\ times[top] \in R /\ \A x \in R : x <= times[top]
      BY <2>2, <2>3, <3>2
    <3>. QED
      BY <3>1, <3>3, LargestIs
  <2>5. times[top] \in X
    <3>1. PICK S \in SUBSET DOMAIN gates : IsChain(S) /\ Cardinality(S) = times[top]
      BY <1>2, ChainOfTime
    <3>. QED
      BY <1>5, <3>1
  <2>6. X \subseteq Int /\ \A x \in X : x <= times[top]
    BY <1>8, <2>2, <2>3
  <2>7. Max(X) = times[top]
    BY <2>5, <2>6, LargestIs
  <2>. QED
    BY <1>2, <1>4, <1>10, <2>4, <2>7 DEF DepthIsLongestChain, CalculateDepth
<1>. QED
  BY <1>9, <1>10

\* A cached order that get_gates hands out without a new search lists every gate
\* once, each one before those behind it.
LEMMA CacheIsRight ==
    ASSUME CircuitInv
    PROVE  CacheIsTopological
<1>1. SUFFICES ASSUME ~dirty
               PROVE  /\ IsInjective(gateList)
                      /\ ToSet(gateList) = DOMAIN gates
                      /\ \A g, h \in DOMAIN gates :
                            h \in ToSet(succs[g]) => Place(gateList, g) < Place(gateList, h)
  BY DEF CacheIsTopological, Place
<1>2. PICK n \in Nat : n = numQubits
  BY DEF CircuitInv
<1>3. /\ gates \in Circuits(n) /\ Lined(n, gates, Lines) /\ succs = LinksOf(gates, Lines, 1)
      /\ DOMAIN Lines = 0 .. n - 1
      /\ ListsAll(DOMAIN gates, gateList) /\ InOrder(Lines, gateList)
  BY <1>1, <1>2 DEF CircuitInv, Wired, Lined
<1>4. ASSUME NEW g \in DOMAIN gates, NEW h \in DOMAIN gates, h \in ToSet(succs[g])
      PROVE  Place(gateList, g) < Place(gateList, h)
  <2>1. PICK pin \in DOMAIN gates[g].qubits : h = Beside(Lines[gates[g].qubits[pin]], g, 1)
    BY <1>3, <1>4 DEF LinksOf, ToSet
  <2>2. PICK q \in 0 .. n - 1 : /\ q = gates[g].qubits[pin] /\ g \in ToSet(Lines[q])
                                /\ Lines[q] \in LineOf(DOMAIN gates)
    BY <1>3, OnItsLine
  <2>3. PICK s : s = Lines[q] /\ s \in LineOf(DOMAIN gates) /\ g \in ToSet(s)
    BY <2>2
  <2>4. PICK i \in DOMAIN s : s[i] = g /\ Place(s, g) = i
    BY <2>3, PlaceOnLine
  <2>5. h = Entry(s, i + 1) /\ h # NoGate
    BY <1>3, <2>1, <2>2, <2>3, <2>4, CircuitGates DEF Beside
  <2>6. i + 1 \in DOMAIN s /\ s[i + 1] = h
    BY <2>5 DEF Entry
  <2>7. DOMAIN s \subseteq Int
    BY <2>3 DEF LineOf
  <2>8. i < i + 1
    BY <2>7
  <2>. QED
    BY <1>3, <2>3, <2>4, <2>6, <2>8 DEF InOrder
<1>. QED
  BY <1>3, <1>4 DEF ListsAll, LineOf

-----------------------------------------------------------------------------
(* The theorems                                                             *)

\* Invariant: the four maps of links always agree with one list of gates for
\* each qubit, along which the gates can be ranked, and an order that is cached
\* is an order of exactly the gates of the circuit.
THEOREM QCirInvHolds == QCirSpec => []QCirInv
<1>1. QCirInit => QCirInv
  BY InitCircuit
<1>2. QCirInv /\ [QCirNext]_qcirVars => QCirInv'
  BY StepKeeps
<1>. QED
  BY <1>1, <1>2, PTL DEF QCirSpec

\* A line is read the same from both ends, and has exactly the gates on its qubit,
\* each of them once: what append, prepend, remove_gate, adjoint_inplace and the
\* operations on qubits do to the four maps fits together.
THEOREM LinesAlwaysAgree == QCirSpec => []LinesAgree
<1>1. ASSUME QCirInv PROVE LinesAgree
  <2>1. PICK n \in Nat : n = numQubits
    BY <1>1 DEF QCirInv, CircuitInv
  <2>2. /\ gates \in Circuits(n) /\ IsFiniteSet(DOMAIN gates)
        /\ Wired(n, gates, Lines, first, last, preds, succs)
    BY <1>1, <2>1, FiniteIds DEF QCirInv, CircuitInv
  <2>3. SUFFICES ASSUME NEW q \in 0 .. n - 1
                 PROVE  /\ Follow(gates, last, preds, q) = Reverse(Lines[q])
                        /\ IsInjective(Lines[q])
                        /\ ToSet(Lines[q]) = {g \in DOMAIN gates : q \in ToSet(gates[g].qubits)}
    BY <2>1, Zenon DEF LinesAgree, QubitIds
  <2>4. Follow(gates, last, preds, q) = Reverse(Lines[q])
    BY <2>2, LinesRead
  <2>5. /\ Lines[q] \in LineOf(DOMAIN gates)
        /\ \A g \in DOMAIN gates : g \in ToSet(Lines[q]) <=> q \in ToSet(gates[g].qubits)
    BY <2>2 DEF Wired, Lined
  <2>6. IsInjective(Lines[q]) /\ ToSet(Lines[q]) \subseteq DOMAIN gates
    BY <2>5, PlaceOnLine DEF LineOf
  <2>. QED
    BY <2>4, <2>5, <2>6
<1>. QED
  BY <1>1, QCirInvHolds, PTL

\* What the circuit answers from what it has cached is right: an order that is
\* handed out without a new search lists every gate once, each one before those
\* behind it, and the depth is the number of gates of a longest chain.
THEOREM CachesAlwaysAgree == QCirSpec => []CachesAgree
<1>1. QCirInv => CachesAgree
  BY CacheIsRight, DepthIsRight DEF QCirInv, CachesAgree
<1>. QED
  BY <1>1, QCirInvHolds, PTL

\* Refinement: every operation changes the lines of gates as its name says.
\* Append puts the gate it was asked for behind those of its lines and prepend
\* before them, adding and removing qubits moves the lines, a copy and the
\* search for an order leave them, and compose is one append after the other.
THEOREM OperationsOnLines == QCirSpec => KeepsTheLines
<1>1. QCirInit => Wires!WireInit
  BY InitCircuit
<1>2. QCirInv /\ [QCirNext]_qcirVars => [Wires!WireNext]_(Wires!wireVars)
  BY StepKeeps DEF WireStep, Wires!wireVars
<1>3. QCirInv => OperationsAsNamed
  BY StepAsNamed DEF QCirInv
<1>. QED
  BY <1>1, <1>2, <1>3, QCirInvHolds, PTL DEF QCirSpec, KeepsTheLines, Wires!WireSpec

=============================================================================
