------------------------------ MODULE RouterCalls ------------------------------
(***************************************************************************)
(* A router on its own: Router::assign_gate is called for gate after gate, *)
(* whichever the caller likes; and the proofs about it.  The lemmas about  *)
(* the steps of a router, that each keeps the invariant of the times       *)
(* (TimesInv) and that of the places (PlacesInv), hold whoever calls it:   *)
(* those about Duostra::map use them too.                                  *)
(***************************************************************************)
EXTENDS Router, CircuitProofs

CONSTANTS Gates,     \* the logical gates that may be assigned
          MaxOps     \* bound: no gate is assigned once so many operations are listed

ASSUME GatesAssumption == (\A g \in Gates : IsGate(g)) /\ MaxOps \in Nat

Init == RouterInit

Assign == Len(operations) < MaxOps /\ \E g \in Gates : AssignGate(g)

\* No further gate: the caller is done.
Stop == Idle /\ Len(operations) >= MaxOps /\ UNCHANGED routerVars

Next == Assign \/ RouteStep \/ Stop

\* A call runs to its end: it is ordinary sequential code.
Spec == Init /\ [][Next]_routerVars /\ WF_routerVars(RouteStep)

\* Every gate given to assign_gate is routed: the searches meet, the walkers
\* become neighbours.
RoutingEnds == phase # "idle" ~> Idle

-----------------------------------------------------------------------------
(* The lemmas: whatever the number of qubits, the device and the placement.  *)

\* Qubits are natural numbers, and there is one.
LEMMA QubitsNat == Qubits \subseteq Nat /\ 0 \in Qubits
  BY NumQubitsAssumption DEF Qubits

\* The router's Max: a nonempty set of qubits has a largest member.
LEMMA MaxOfQubits ==
    ASSUME NEW S, S \subseteq Qubits, S # {}
    PROVE  Max(S) \in S
<1>1. S \subseteq Nat /\ NumQubits \in Nat /\ \A q \in S : q <= NumQubits
  BY NumQubitsAssumption DEF Qubits
<1>. QED
  BY <1>1, MaxOfNaturals

-----------------------------------------------------------------------------
(* The operators of the search.                                            *)

\* The adjacency lists of a device name qubits.
LEMMA DeviceType ==
    ASSUME device \in Devices
    PROVE  device \in [Qubits -> Seq(Qubits)]
  BY RouterAssumption DEF IsDevice

\* A coupled pair is two qubits, and is in both lists.
LEMMA CoupledPair ==
    ASSUME device \in Devices, NEW p \in Qubits, NEW q \in Qubits, IsAdjacency(device, p, q)
    PROVE  p # q /\ IsAdjacency(device, q, p)
  BY RouterAssumption DEF IsDevice

\* The qubit where a search meets the other one was taken by the other one.
LEMMA MeetingPoint ==
    ASSUME device \in Devices, NEW s \in Searches, NEW q \in Qubits,
           NEW source \in BOOLEAN, IsAdjacent(s, q, source)
    PROVE  LET p == TouchedBy(s, q, source)
           IN  /\ p \in s.taken
               /\ p \in Qubits
               /\ s.source[p] # source
               /\ IsAdjacency(device, q, p)
<1>. DEFINE I == {i \in DOMAIN device[q] : Touches(s, q, source, i)}
<1>1. device[q] \in Seq(Qubits)
  BY DeviceType
<1>2. I \subseteq Nat /\ I # {}
  BY <1>1 DEF IsAdjacent
<1>3. Min(I) \in I
  BY <1>2, MinOfNaturals
<1>. QED
  BY <1>1, <1>3 DEF TouchedBy, Touches, Searches, IsAdjacency, ToSet

\* What _touch_adjacency marks and pushes, and what it leaves as it is.
LEMMA TouchFacts ==
    ASSUME device \in Devices, occupiedTime \in [Qubits -> Nat],
           NEW s \in Searches, NEW q \in Qubits, NEW source \in BOOLEAN
    PROVE  LET t == TouchAdjacency(s, q, source)
               fresh == Fresh(s, q, source)
           IN  /\ t \in Searches
               /\ fresh \subseteq Qubits
               /\ fresh \cap s.marked = {}
               /\ \A p \in fresh : IsAdjacency(device, q, p)
               /\ t.taken = s.taken
               /\ t.cost = s.cost
               /\ t.swapTime = s.swapTime
               /\ t.marked = s.marked \cup fresh
               /\ \A p \in Qubits : /\ t.pred[p] = IF p \in fresh THEN q ELSE s.pred[p]
                                    /\ t.source[p] = IF p \in fresh THEN source
                                                                    ELSE s.source[p]
               /\ \A n \in t.queue :
                     n \in s.queue \/ /\ n.id \in fresh
                                      /\ n = [id |-> n.id, source |-> source,
                                              cost |-> Arrival(s, q, n.id)]
<1>. DEFINE fresh == Fresh(s, q, source)
            node(p) == [id |-> p, source |-> source, cost |-> Arrival(s, q, p)]
            t == TouchAdjacency(s, q, source)
<1>1. device[q] \in Seq(Qubits)
  BY DeviceType
<1>2. /\ fresh \subseteq Qubits
      /\ fresh \cap s.marked = {}
      /\ \A p \in fresh : IsAdjacency(device, q, p)
  BY <1>1 DEF Fresh, IsAdjacency, ToSet
<1>3. \A p \in Qubits : Arrival(s, q, p) \in Nat
  BY DEF Arrival, Larger, SwapDelay, Searches
<1>. HIDE DEF fresh
<1>4. /\ t.taken = s.taken
      /\ t.cost = s.cost
      /\ t.swapTime = s.swapTime
      /\ t.marked = s.marked \cup fresh
      /\ t.source = [p \in Qubits |-> IF p \in fresh THEN source ELSE s.source[p]]
      /\ t.pred = [p \in Qubits |-> IF p \in fresh THEN q ELSE s.pred[p]]
      /\ t.queue = s.queue \cup {node(p) : p \in fresh}
      /\ t \in [marked : {t.marked}, taken : {t.taken}, queue : {t.queue},
                source : {t.source}, pred : {t.pred},
                cost : {t.cost}, swapTime : {t.swapTime}]
  BY DEF TouchAdjacency, Mark, Searches, fresh
<1>5. {node(p) : p \in fresh} \subseteq Nodes
  BY <1>2, <1>3 DEF Nodes
<1>6. t \in Searches
  BY <1>2, <1>4, <1>5 DEF Searches
<1>7. \A n \in t.queue :
          n \in s.queue \/ /\ n.id \in fresh
                           /\ n = [id |-> n.id, source |-> source,
                                   cost |-> Arrival(s, q, n.id)]
  BY <1>4
<1>. QED
  BY <1>2, <1>4, <1>6, <1>7 DEF fresh

\* It does not change the source of a qubit that was marked before.
LEMMA TouchSource ==
    ASSUME device \in Devices, occupiedTime \in [Qubits -> Nat],
           NEW s \in Searches, NEW q \in Qubits, NEW source \in BOOLEAN,
           NEW p \in s.marked
    PROVE  TouchAdjacency(s, q, source).source[p] = s.source[p]
<1>. DEFINE fresh == Fresh(s, q, source)
<1>1. fresh \cap s.marked = {}
  BY TouchFacts
<1>. HIDE DEF fresh
<1>2. TouchAdjacency(s, q, source).source =
          [x \in Qubits |-> IF x \in fresh THEN source ELSE s.source[x]]
  BY DEF TouchAdjacency, Mark, Searches, fresh
<1>3. p \in Qubits /\ p \notin fresh
  BY <1>1 DEF Searches
<1>. QED
  BY <1>2, <1>3

\* Touching the neighbours of a taken qubit keeps the search in shape.
LEMMA TouchGrows ==
    ASSUME device \in Devices, occupiedTime \in [Qubits -> Nat],
           NEW s \in Searches, NEW e0 \in Qubits, NEW e1 \in Qubits,
           GrownFrom(s, e0, e1), NEW q \in s.taken
    PROVE  GrownFrom(TouchAdjacency(s, q, s.source[q]), e0, e1)
<1>. DEFINE source == s.source[q]
            t == TouchAdjacency(s, q, source)
            fresh == Fresh(s, q, source)
<1>0. q \in Qubits /\ source \in BOOLEAN /\ s.taken \subseteq Qubits
  BY DEF Searches
<1>1. /\ t \in Searches
      /\ fresh \subseteq Qubits
      /\ fresh \cap s.marked = {}
      /\ \A p \in fresh : IsAdjacency(device, q, p)
      /\ t.taken = s.taken
      /\ t.cost = s.cost
      /\ t.swapTime = s.swapTime
      /\ t.marked = s.marked \cup fresh
  BY <1>0, TouchFacts
<1>2. /\ \A p \in Qubits : /\ t.pred[p] = IF p \in fresh THEN q ELSE s.pred[p]
                           /\ t.source[p] = IF p \in fresh THEN source ELSE s.source[p]
      /\ \A n \in t.queue :
             n \in s.queue \/ /\ n.id \in fresh
                              /\ n = [id |-> n.id, source |-> source,
                                      cost |-> Arrival(s, q, n.id)]
  BY <1>0, TouchFacts
<1>. HIDE DEF t, fresh
<1>3. \A p \in s.marked : p \notin fresh
  BY <1>1
<1>4. \A p \in s.taken : p \in s.marked /\ p \notin fresh /\ t.source[p] = s.source[p]
                         /\ t.pred[p] = s.pred[p]
  BY <1>0, <1>2, <1>3 DEF GrownFrom
<1>5. ASSUME NEW p \in Qubits, NEW x \in Qubits, NEW c \in Nat, x \notin fresh,
             Reaches(s, p, x, c)
      PROVE  Reaches(t, p, x, c)
  BY <1>1, <1>2, <1>4, <1>5 DEF Reaches
<1>6. \A p \in s.taken \ {e0, e1} : /\ Reaches(t, t.pred[p], p, t.cost[p])
                                    /\ t.cost[p] = t.swapTime[p] + SwapDelay
  <2>1. TAKE p \in s.taken \ {e0, e1}
  <2>2. s.pred[p] \in Qubits /\ p \in Qubits /\ s.cost[p] \in Nat
    BY <1>0 DEF Searches
  <2>. QED
    BY <2>2, <1>1, <1>4, <1>5 DEF GrownFrom
<1>7. ASSUME NEW n \in s.queue
      PROVE  /\ n.id \in t.marked \ t.taken
             /\ n.id \notin fresh
             /\ t.source[n.id] = n.source
             /\ Reaches(t, t.pred[n.id], n.id, n.cost)
  <2>1. n.id \in Qubits /\ n.cost \in Nat /\ s.pred[n.id] \in Qubits
    BY DEF Searches, Nodes
  <2>2. n.id \in s.marked \ s.taken
    BY DEF GrownFrom
  <2>. QED
    BY <2>1, <2>2, <1>1, <1>2, <1>3, <1>5 DEF GrownFrom
<1>8. ASSUME NEW n \in t.queue, n \notin s.queue
      PROVE  /\ n.id \in fresh
             /\ n = [id |-> n.id, source |-> source, cost |-> Arrival(s, q, n.id)]
             /\ n.id \in t.marked \ t.taken
             /\ t.source[n.id] = n.source
             /\ Reaches(t, t.pred[n.id], n.id, n.cost)
  <2>1. /\ n.id \in fresh
        /\ n = [id |-> n.id, source |-> source, cost |-> Arrival(s, q, n.id)]
    BY <1>8, <1>2
  <2>2. n.id \in Qubits /\ n.source = source /\ n.cost = Arrival(s, q, n.id)
    BY <2>1, <1>1
  <2>3. n.cost >= s.cost[q] + SwapDelay /\ n.cost >= occupiedTime[n.id] + SwapDelay
    BY <2>2, <1>0 DEF Arrival, Larger, SwapDelay, Searches
  <2>4. t.source[n.id] = source /\ t.pred[n.id] = q /\ t.source[q] = source
    BY <2>1, <2>2, <1>2, <1>4
  <2>. QED
    BY <2>1, <2>2, <2>3, <2>4, <1>1, <1>4 DEF Reaches
<1>9. \A m, n \in t.queue : m.id = n.id => m = n
  <2>1. TAKE m, n \in t.queue
  <2>2. CASE m \in s.queue /\ n \in s.queue
    BY <2>2 DEF GrownFrom
  <2>3. CASE m \notin s.queue /\ n \notin s.queue
    BY <2>3, <1>8
  <2>. QED
    BY <2>2, <2>3, <1>7, <1>8
<1>10. \A p \in t.taken : t.cost[p] >= occupiedTime[p]
  BY <1>1 DEF GrownFrom
<1>11. t.taken \subseteq t.marked /\ {e0, e1} \subseteq t.taken
  BY <1>1 DEF GrownFrom
<1>12. ~t.source[e0] /\ t.source[e1]
  BY <1>4 DEF GrownFrom
<1>13. \A n \in t.queue : /\ n.id \in t.marked \ t.taken
                          /\ t.source[n.id] = n.source
                          /\ Reaches(t, t.pred[n.id], n.id, n.cost)
  BY <1>7, <1>8
<1>14. GrownFrom(t, e0, e1)
  BY <1>1, <1>6, <1>9, <1>10, <1>11, <1>12, <1>13 DEF GrownFrom
<1>. QED
  BY <1>14 DEF t

\* So does taking a node from the queue.
LEMMA TakeGrows ==
    ASSUME occupiedTime \in [Qubits -> Nat],
           NEW s \in Searches, NEW e0 \in Qubits, NEW e1 \in Qubits,
           GrownFrom(s, e0, e1), NEW n \in s.queue
    PROVE  LET t == TakeRoute([s EXCEPT !.queue = @ \ {n}],
                              n.id, n.cost, n.cost - SwapDelay)
           IN  /\ t \in Searches
               /\ GrownFrom(t, e0, e1)
               /\ n.id \in t.taken
               /\ t.source[n.id] = n.source
<1>. DEFINE t == TakeRoute([s EXCEPT !.queue = @ \ {n}],
                           n.id, n.cost, n.cost - SwapDelay)
<1>1. n.id \in Qubits /\ n.cost \in Nat /\ n.source \in BOOLEAN
  BY DEF Searches, Nodes
<1>2. /\ n.id \in s.marked \ s.taken
      /\ s.source[n.id] = n.source
      /\ Reaches(s, s.pred[n.id], n.id, n.cost)
      /\ s.pred[n.id] \in Qubits
  BY <1>1 DEF GrownFrom, Searches
<1>3. n.cost - SwapDelay \in Nat
  BY <1>1, <1>2 DEF Reaches, SwapDelay, Searches
<1>4. /\ t.marked = s.marked
      /\ t.taken = s.taken \cup {n.id}
      /\ t.queue = s.queue \ {n}
      /\ t.source = s.source
      /\ t.pred = s.pred
      /\ t.cost = [s.cost EXCEPT ![n.id] = n.cost]
      /\ t.swapTime = [s.swapTime EXCEPT ![n.id] = n.cost - SwapDelay]
      /\ t \in [marked : {t.marked}, taken : {t.taken}, queue : {t.queue},
                source : {t.source}, pred : {t.pred},
                cost : {t.cost}, swapTime : {t.swapTime}]
  BY DEF TakeRoute, Searches
<1>. HIDE DEF t
<1>5. t \in Searches
  <2>1. /\ t.marked \in SUBSET Qubits /\ t.taken \in SUBSET Qubits
        /\ t.queue \in SUBSET Nodes /\ t.source \in [Qubits -> BOOLEAN]
        /\ t.pred \in [Qubits -> Qubits]
    BY <1>1, <1>4 DEF Searches
  <2>2. t.cost \in [Qubits -> Nat] /\ t.swapTime \in [Qubits -> Nat]
    BY <1>1, <1>3, <1>4 DEF Searches
  <2>. QED
    BY <2>1, <2>2, <1>4 DEF Searches
<1>6. /\ \A p \in Qubits : p # n.id => t.cost[p] = s.cost[p] /\ t.swapTime[p] = s.swapTime[p]
      /\ t.cost[n.id] = n.cost
      /\ t.swapTime[n.id] = n.cost - SwapDelay
  BY <1>1, <1>4 DEF Searches
<1>7. ASSUME NEW p \in Qubits, NEW x \in Qubits, NEW c \in Nat, Reaches(s, p, x, c)
      PROVE  Reaches(t, p, x, c)
  <2>1. p \in s.taken /\ p # n.id
    BY <1>7, <1>2 DEF Reaches
  <2>. QED
    BY <2>1, <1>4, <1>6, <1>7 DEF Reaches
<1>8. s.taken \subseteq Qubits /\ s.queue \subseteq Nodes
  BY DEF Searches
<1>9. \A q \in t.taken : t.cost[q] >= occupiedTime[q]
  <2>1. n.cost >= occupiedTime[n.id]
    BY <1>1, <1>2 DEF Reaches, SwapDelay
  <2>. QED
    BY <2>1, <1>4, <1>6, <1>8 DEF GrownFrom
<1>10. \A q \in t.taken \ {e0, e1} : /\ Reaches(t, t.pred[q], q, t.cost[q])
                                     /\ t.cost[q] = t.swapTime[q] + SwapDelay
  <2>1. TAKE q \in t.taken \ {e0, e1}
  <2>2. CASE q = n.id
    BY <2>2, <1>1, <1>2, <1>3, <1>4, <1>6, <1>7 DEF SwapDelay
  <2>3. CASE q # n.id
    <3>1. q \in s.taken \ {e0, e1} /\ q \in Qubits
      BY <2>3, <1>4, <1>8
    <3>2. s.pred[q] \in Qubits /\ s.cost[q] \in Nat
      BY <3>1 DEF Searches
    <3>3. Reaches(s, s.pred[q], q, s.cost[q]) /\ s.cost[q] = s.swapTime[q] + SwapDelay
      BY <3>1 DEF GrownFrom
    <3>. QED
      BY <2>3, <3>1, <3>2, <3>3, <1>4, <1>6, <1>7
  <2>. QED
    BY <2>2, <2>3
<1>11. \A m \in t.queue : /\ m.id \in t.marked \ t.taken
                          /\ t.source[m.id] = m.source
                          /\ Reaches(t, t.pred[m.id], m.id, m.cost)
  <2>1. TAKE m \in t.queue
  <2>2. m \in s.queue /\ m # n
    BY <1>4
  <2>3. m.id \in Qubits /\ m.cost \in Nat /\ s.pred[m.id] \in Qubits
    BY <2>2 DEF Searches, Nodes
  <2>4. m.id # n.id
    BY <2>2 DEF GrownFrom
  <2>5. /\ m.id \in s.marked \ s.taken
        /\ s.source[m.id] = m.source
        /\ Reaches(s, s.pred[m.id], m.id, m.cost)
    BY <2>2 DEF GrownFrom
  <2>. QED
    BY <2>3, <2>4, <2>5, <1>4, <1>7
<1>12. \A m1, m2 \in t.queue : m1.id = m2.id => m1 = m2
  BY <1>4 DEF GrownFrom
<1>13. t.taken \subseteq t.marked /\ {e0, e1} \subseteq t.taken
  BY <1>2, <1>4 DEF GrownFrom
<1>14. ~t.source[e0] /\ t.source[e1]
  BY <1>4 DEF GrownFrom
<1>15. GrownFrom(t, e0, e1)
  BY <1>9, <1>10, <1>11, <1>12, <1>13, <1>14 DEF GrownFrom
<1>. QED
  BY <1>2, <1>4, <1>5, <1>15 DEF t

\* A marked qubit carries the source it was marked with.
LEMMA MarkSource ==
    ASSUME NEW old \in [Qubits -> BOOLEAN], NEW S, NEW v \in BOOLEAN
    PROVE  [q \in Qubits |-> IF q \in S THEN v ELSE old[q]] \in [Qubits -> BOOLEAN]
  OBVIOUS

\* An end is marked and taken.
LEMMA EndFacts ==
    ASSUME NEW s \in Searches, NEW q \in Qubits, NEW source \in BOOLEAN,
           NEW qs, qs = {q}, NEW m, m = Mark(s, qs, source, q),
           NEW t, t = TakeRoute(m, q, s.cost[q], 0)
    PROVE  /\ t \in Searches
           /\ t.taken = s.taken \cup {q}
           /\ t.marked = s.marked \cup {q}
           /\ t.queue = s.queue
           /\ t.cost = s.cost
           /\ t.source[q] = source
           /\ \A p \in Qubits : p # q => t.source[p] = s.source[p]
<1>1. PICK sources, preds :
        /\ sources = [p \in Qubits |-> IF p \in {q} THEN source ELSE s.source[p]]
        /\ preds = [p \in Qubits |-> IF p \in {q} THEN q ELSE s.pred[p]]
  OBVIOUS
<1>2. t = TakeRoute([s EXCEPT !.marked = @ \cup {q}, !.source = sources, !.pred = preds],
                    q, s.cost[q], 0)
  BY <1>1 DEF Mark
<1>3. /\ t.marked = s.marked \cup {q} /\ t.taken = s.taken \cup {q} /\ t.queue = s.queue
      /\ t.source = sources /\ t.pred = preds
      /\ t.cost = [s.cost EXCEPT ![q] = s.cost[q]]
      /\ t.swapTime = [s.swapTime EXCEPT ![q] = 0]
      /\ t \in [marked : {t.marked}, taken : {t.taken}, queue : {t.queue},
                source : {t.source}, pred : {t.pred}, cost : {t.cost},
                swapTime : {t.swapTime}]
  BY <1>2 DEF TakeRoute, Searches
<1>4. sources \in [Qubits -> BOOLEAN]
  <2>1. s.source \in [Qubits -> BOOLEAN]
    BY DEF Searches
  <2>2. [p \in Qubits |-> IF p \in {q} THEN source ELSE s.source[p]] \in [Qubits -> BOOLEAN]
    BY <2>1, MarkSource
  <2>. QED
    BY <2>2, <1>1, Zenon
<1>5. preds \in [Qubits -> Qubits]
  BY <1>1 DEF Searches
<1>6. t.cost = s.cost /\ t.swapTime \in [Qubits -> Nat]
  BY <1>3 DEF Searches
<1>7. t \in Searches
  BY <1>3, <1>4, <1>5, <1>6 DEF Searches
<1>8. sources[q] = source
  BY <1>1, Zenon
<1>9. ASSUME NEW p \in Qubits, p # q PROVE sources[p] = s.source[p]
  BY <1>1, <1>9, Zenon
<1>. QED
  BY <1>3, <1>6, <1>7, <1>8, <1>9, Zenon

\* A search that takes its two ends is in shape.
LEMMA StartGrows ==
    ASSUME occupiedTime \in [Qubits -> Nat], NEW s \in Searches,
           NEW a \in Qubits, NEW b \in Qubits, a # b,
           s.taken = {}, s.queue = {}, s.cost = occupiedTime
    PROVE  LET s1 == TakeEnds(s, a, b)
           IN  s1 \in Searches /\ GrownFrom(s1, a, b) /\ s1.taken = {a, b}
<1>0. PICK first \in BOOLEAN, second \in BOOLEAN : first = FALSE /\ second = TRUE
  OBVIOUS
<1>1. PICK as, m0, s0 : /\ as = {a} /\ m0 = Mark(s, as, first, a)
                       /\ s0 = TakeRoute(m0, a, s.cost[a], 0)
  OBVIOUS
<1>2. /\ s0 \in Searches /\ s0.taken = {a} /\ s0.marked = s.marked \cup {a}
      /\ s0.queue = {} /\ s0.cost = occupiedTime /\ s0.source[a] = first
  BY <1>1, EndFacts
<1>3. PICK bs, m1, s1 : /\ bs = {b} /\ m1 = Mark(s0, bs, second, b)
                       /\ s1 = TakeRoute(m1, b, s0.cost[b], 0)
  OBVIOUS
<1>4. /\ s1 \in Searches /\ s1.taken = {a, b} /\ s1.marked = s.marked \cup {a, b}
      /\ s1.queue = {} /\ s1.cost = occupiedTime /\ s1.source[a] = first
      /\ s1.source[b] = second
  <2>1. s0 \in Searches
    BY <1>2
  <2>2. /\ s1 \in Searches /\ s1.taken = s0.taken \cup {b}
        /\ s1.marked = s0.marked \cup {b} /\ s1.queue = s0.queue /\ s1.cost = s0.cost
        /\ s1.source[b] = second
    BY <2>1, <1>3, EndFacts
  <2>3. \A p \in Qubits : p # b => s1.source[p] = s0.source[p]
    BY <2>1, <1>3, EndFacts
  <2>. QED
    BY <2>2, <2>3, <1>2
<1>5. GrownFrom(s1, a, b)
  BY <1>0, <1>4 DEF GrownFrom
<1>6. s1 = TakeEnds(s, a, b)
  BY <1>0, <1>1, <1>3, Zenon DEF TakeEnds
<1>. QED
  BY <1>4, <1>5, <1>6

-----------------------------------------------------------------------------
(* Operations                                                              *)

\* A delay is a positive number of time units.
LEMMA DelayType ==
    ASSUME NEW op, NEW n
    PROVE  Delay(op, n) \in {1, 2, 6}
  BY DEF Delay, SwapDelay

\* A gate on one or two qubits becomes an operation of its own type.
LEMMA GateOpType ==
    ASSUME NEW g, IsGate(g), NEW qs \in Seq(Qubits), NEW start \in Nat,
           Len(qs) \in {1, 2}, g.op = "swap" => Len(qs) = 2
    PROVE  /\ GateOp(g, qs, start) \in TimedOps
           /\ On(GateOp(g, qs, start)) = ToSet(qs)
           /\ GateOp(g, qs, start).start = start
<1>1. g.op \in GateTypes /\ g.id \in Nat
  BY DEF IsGate
<1>2. start + Delay(g.op, Len(qs)) \in Nat /\ start < start + Delay(g.op, Len(qs))
  BY DelayType
<1>. QED
  BY <1>1, <1>2 DEF GateOp, TimedOps, On

\* The two qubits of an operation on a pair.
LEMMA PairOn ==
    ASSUME NEW a \in Qubits, NEW b \in Qubits
    PROVE  /\ <<a, b>> \in Seq(Qubits) /\ Len(<<a, b>>) = 2
           /\ ToSet(<<a, b>>) = {a, b}
           /\ <<a>> \in Seq(Qubits) /\ Len(<<a>>) = 1
           /\ ToSet(<<a>>) = {a}
  BY DEF ToSet

\* A SWAP on two qubits becomes an operation, on these two qubits.
LEMMA SwapOpType ==
    ASSUME NEW g, IsGate(g), NEW a \in Qubits, NEW b \in Qubits, NEW start \in Nat
    PROVE  /\ SwapOp(g, a, b, start) \in TimedOps
           /\ On(SwapOp(g, a, b, start)) = {a, b}
           /\ SwapOp(g, a, b, start).start = start
           /\ SwapOp(g, a, b, start).end = start + SwapDelay
<1>1. <<a, b>> \in Seq(Qubits) /\ Len(<<a, b>>) = 2 /\ ToSet(<<a, b>>) = {a, b}
  BY PairOn
<1>2. start + SwapDelay \in Nat /\ start < start + SwapDelay
  BY DEF SwapDelay
<1>3. g.id \in Nat
  BY DEF IsGate
<1>4. SwapOp(g, a, b, start) \in TimedOps
  <2>. DEFINE o == SwapOp(g, a, b, start)
  <2>1. /\ o.qubits = <<a, b>> /\ o.start = start /\ o.end = start + SwapDelay
        /\ o.op = "swap" /\ o.id = g.id /\ o.routing = TRUE
        /\ o \in [op : {o.op}, qubits : {o.qubits}, start : {o.start},
                  end : {o.end}, id : {o.id}, routing : {o.routing}]
    BY DEF SwapOp
  <2>3. "swap" \in GateTypes /\ TRUE \in BOOLEAN
    BY DEF GateTypes
  <2>2. o \in [op : GateTypes, qubits : Seq(Qubits), start : Nat, end : Nat,
               id : Nat, routing : BOOLEAN]
    BY <2>1, <2>3, <1>1, <1>2, <1>3
  <2>. QED
    BY <2>1, <2>2, <1>1, <1>2 DEF TimedOps
<1>. QED
  BY <1>1, <1>4 DEF SwapOp, On

\* An operation is on qubits.
LEMMA OnQubits ==
    ASSUME NEW o \in TimedOps
    PROVE  On(o) \subseteq Qubits
  BY DEF On, TimedOps, ToSet

\* The labels stay a bijection when an operation is applied.
LEMMA LabelsFacts ==
    ASSUME logicalQubit \in [Qubits -> Qubits], NEW o \in TimedOps,
           \A p, q \in Qubits : logicalQubit[p] = logicalQubit[q] => p = q,
           \A l \in Qubits : \E q \in Qubits : logicalQubit[q] = l
    PROVE  /\ LabelsAfter(o) \in [Qubits -> Qubits]
           /\ \A p, q \in Qubits : LabelsAfter(o)[p] = LabelsAfter(o)[q] => p = q
           /\ \A l \in Qubits : \E q \in Qubits : LabelsAfter(o)[q] = l
<1>1. CASE o.op # "swap"
  BY <1>1 DEF LabelsAfter
<1>2. CASE o.op = "swap"
  <2>. DEFINE a == o.qubits[1]
              b == o.qubits[2]
  <2>1. a \in Qubits /\ b \in Qubits
    BY <1>2 DEF TimedOps
  <2>. HIDE DEF a, b
  <2>2. LabelsAfter(o) = [logicalQubit EXCEPT ![a] = logicalQubit[b],
                                              ![b] = logicalQubit[a]]
    BY <1>2 DEF LabelsAfter, a, b
  <2>3. LabelsAfter(o) = [q \in Qubits |-> IF q = b THEN logicalQubit[a]
                                           ELSE IF q = a THEN logicalQubit[b]
                                           ELSE logicalQubit[q]]
    BY <2>1, <2>2
  <2>4. LabelsAfter(o) \in [Qubits -> Qubits]
    BY <2>1, <2>3
  <2>5. \A p, q \in Qubits : LabelsAfter(o)[p] = LabelsAfter(o)[q] => p = q
    BY <2>1, <2>3
  <2>6. ASSUME NEW l \in Qubits
        PROVE  \E q \in Qubits : LabelsAfter(o)[q] = l
    <3>1. PICK q \in Qubits : logicalQubit[q] = l
      OBVIOUS
    <3>2. LabelsAfter(o)[IF q = a THEN b ELSE IF q = b THEN a ELSE q] = l
      BY <2>1, <2>3, <3>1
    <3>. QED
      BY <3>2, <2>1
  <2>. QED
    BY <2>4, <2>5, <2>6
<1>. QED
  BY <1>1, <1>2

\* The table of the router, made anew from the labels, agrees with them.
LEMMA FollowFacts ==
    ASSUME NEW labels \in [Qubits -> Qubits],
           \A l \in Qubits : \E q \in Qubits : labels[q] = l
    PROVE  /\ FollowLabels(labels) \in [Qubits -> Qubits]
           /\ \A l \in Qubits : labels[FollowLabels(labels)[l]] = l
<1>1. ASSUME NEW l \in Qubits
      PROVE  /\ FollowLabels(labels)[l] \in Qubits
             /\ labels[FollowLabels(labels)[l]] = l
  <2>1. FollowLabels(labels)[l] = Max({q \in Qubits : labels[q] = l})
    BY DEF FollowLabels
  <2>2. Max({q \in Qubits : labels[q] = l}) \in {q \in Qubits : labels[q] = l}
    BY MaxOfQubits
  <2>. QED
    BY <2>1, <2>2
<1>. QED
  BY <1>1 DEF FollowLabels

\* An operation that waits for its qubits is listed without an overlap.
LEMMA ApplyKeeps ==
    ASSUME occupiedTime \in [Qubits -> Nat], operations \in Seq(TimedOps),
           NoOverlap, Occupied, NEW o \in TimedOps,
           \A q \in Qubits : q \in On(o) => occupiedTime[q] <= o.start,
           operations' = Append(operations, o),
           occupiedTime' = [q \in Qubits |-> IF q \in On(o) THEN o.end
                                                            ELSE occupiedTime[q]]
    PROVE  /\ occupiedTime' \in [Qubits -> Nat]
           /\ operations' \in Seq(TimedOps)
           /\ NoOverlap'
           /\ Occupied'
<1>. DEFINE n == Len(operations)
<1>0. n \in Nat /\ DOMAIN operations = 1 .. n /\ \A i \in 1 .. n : operations[i] \in TimedOps
  OBVIOUS
<1>1. /\ operations' \in Seq(TimedOps)
      /\ DOMAIN operations' = 1 .. n + 1
      /\ operations'[n + 1] = o
      /\ \A i \in 1 .. n : operations'[i] = operations[i]
  OBVIOUS
<1>. HIDE DEF n
<1>2. o.start \in Nat /\ o.end \in Nat /\ o.start < o.end
  BY DEF TimedOps
<1>3. occupiedTime' \in [Qubits -> Nat]
  BY <1>2
<1>4. \A q \in Qubits : occupiedTime[q] <= occupiedTime'[q]
  BY <1>2
<1>5. ASSUME NEW i \in 1 .. n, NEW q \in Qubits, q \in On(operations[i])
      PROVE  operations[i].end <= occupiedTime[q] /\ operations[i].end \in Nat
  BY <1>0, <1>5 DEF Occupied, TimedOps
<1>6. Occupied'
  <2>1. SUFFICES ASSUME NEW i \in 1 .. n + 1, NEW q \in Qubits, q \in On(operations'[i])
                 PROVE  operations'[i].end <= occupiedTime'[q]
    BY <1>1 DEF Occupied, On
  <2>2. CASE i = n + 1
    BY <2>1, <2>2, <1>1, <1>2
  <2>3. CASE i # n + 1
    <3>1. i \in 1 .. n
      BY <2>3, <1>0
    <3>0. occupiedTime[q] \in Nat /\ occupiedTime'[q] \in Nat
          /\ occupiedTime[q] <= occupiedTime'[q]
      BY <1>3, <1>4
    <3>2. operations[i].end <= occupiedTime[q] /\ operations[i].end \in Nat
      BY <3>1, <2>1, <1>1, <1>5
    <3>3. operations'[i] = operations[i]
      BY <3>1, <1>1
    <3>4. operations[i].end <= occupiedTime'[q]
      BY <3>0, <3>2
    <3>. QED
      BY <3>3, <3>4
  <2>. QED
    BY <2>2, <2>3
<1>7. NoOverlap'
  <2>1. SUFFICES ASSUME NEW i \in 1 .. n + 1, NEW j \in 1 .. n + 1, i < j,
                        On(operations'[i]) \cap On(operations'[j]) # {}
                 PROVE  operations'[i].end <= operations'[j].start
    BY <1>1 DEF NoOverlap, On
  <2>2. i \in 1 .. n
    BY <2>1, <1>0
  <2>3. CASE j = n + 1
    <3>1. PICK q \in On(operations[i]) : q \in On(o)
      BY <2>1, <2>2, <2>3, <1>1
    <3>2. q \in Qubits
      BY <3>1, OnQubits
    <3>3. operations[i].end <= occupiedTime[q] /\ operations[i].end \in Nat
      BY <2>2, <3>1, <3>2, <1>5
    <3>4. occupiedTime[q] <= o.start /\ occupiedTime[q] \in Nat
      BY <3>1, <3>2
    <3>. QED
      BY <2>2, <2>3, <3>3, <3>4, <1>1, <1>2
  <2>4. CASE j # n + 1
    <3>1. j \in 1 .. n
      BY <2>4, <1>0
    <3>. QED
      BY <2>1, <2>2, <3>1, <1>0, <1>1 DEF NoOverlap
  <2>. QED
    BY <2>3, <2>4
<1>. QED
  BY <1>1, <1>3, <1>6, <1>7

\* Where a search has met, the gate waits for the two chains of SWAPs.
LEMMA MeetFits ==
    ASSUME occupiedTime \in [Qubits -> Nat], occupiedTime' = occupiedTime,
           NEW s \in Searches, search' = s, NEW e0 \in Qubits, NEW e1 \in Qubits,
           GrownFrom(s, e0, e1), IsGate(gate'), swapIds' \in BOOLEAN,
           NEW q0 \in s.taken, ~s.source[q0], NEW q1 \in s.taken, s.source[q1],
           Meet(s, q0, q1)
    PROVE  /\ front' \in Qubits \X Qubits
           /\ pending' \subseteq TimedOps
           /\ PendingFit'
           /\ TraceGoesBack'
<1>. DEFINE qs == IF swapIds' THEN <<q1, q0>> ELSE <<q0, q1>>
            start == Larger(s.cost[q0], s.cost[q1])
            o == MeetingGate(s, q0, q1)
<1>1. q0 \in Qubits /\ q1 \in Qubits /\ s.cost[q0] \in Nat /\ s.cost[q1] \in Nat
  BY DEF Searches
<1>2. qs \in Seq(Qubits) /\ Len(qs) = 2 /\ ToSet(qs) = {q0, q1}
  <2>1. CASE swapIds'
    <3>1. qs = <<q1, q0>>
      BY <2>1
    <3>2. /\ <<q1, q0>> \in Seq(Qubits) /\ Len(<<q1, q0>>) = 2
          /\ ToSet(<<q1, q0>>) = {q1, q0}
      BY <1>1, PairOn
    <3>. QED
      BY <3>1, <3>2
  <2>2. CASE ~swapIds'
    <3>1. qs = <<q0, q1>>
      BY <2>2
    <3>. QED
      BY <3>1, <1>1, PairOn
  <2>. QED
    BY <2>1, <2>2
<1>3. start \in Nat /\ start >= s.cost[q0] /\ start >= s.cost[q1]
  BY <1>1 DEF Larger
<1>4. o \in TimedOps /\ On(o) = {q0, q1} /\ o.start = start
  <2>. HIDE DEF qs, start
  <2>1. /\ GateOp(gate', qs, start) \in TimedOps
        /\ On(GateOp(gate', qs, start)) = ToSet(qs)
        /\ GateOp(gate', qs, start).start = start
    BY <1>2, <1>3, GateOpType
  <2>. QED
    BY <2>1, <1>2 DEF MeetingGate, qs, start
<1>. HIDE DEF qs, start, o
<1>5. pending' = {o} /\ front' = <<q0, q1>> /\ phase' = "trace"
  BY DEF Meet, o
<1>6. PendingFit'
  <2>1. \A q \in Qubits : q \in On(o) => occupiedTime[q] <= o.start
    <3>1. occupiedTime[q0] <= s.cost[q0] /\ occupiedTime[q1] <= s.cost[q1]
      BY DEF GrownFrom
    <3>2. occupiedTime[q0] \in Nat /\ occupiedTime[q1] \in Nat
      BY <1>1
    <3>. QED
      BY <3>1, <3>2, <1>1, <1>3, <1>4
  <2>. QED
    BY <2>1, <1>5 DEF PendingFit, On
<1>7. TraceGoesBack'
  BY <1>1, <1>3, <1>4, <1>5 DEF TraceGoesBack, On
<1>. QED
  BY <1>1, <1>4, <1>5, <1>6, <1>7

-----------------------------------------------------------------------------
(* The inductive invariant                                                 *)

\* The state after placement, before any gate, satisfies the invariant.
LEMMA InitTimes == RouterInit => TimesInv
<1>. SUFFICES ASSUME RouterInit PROVE TimesInv
  OBVIOUS
<1>1. /\ logicalToPhysical \in [Qubits -> Qubits]
      /\ \A p, q \in Qubits : logicalToPhysical[p] = logicalToPhysical[q] => p = q
      /\ \A q \in Qubits : \E l \in Qubits : logicalToPhysical[l] = q
  BY RouterAssumption DEF RouterInit, Bijection, Injection, Surjection, IsInjective
<1>2. \A q \in Qubits : logicalQubit[q] \in Qubits /\ logicalToPhysical[logicalQubit[q]] = q
  BY <1>1 DEF RouterInit
<1>3. logicalQubit \in [Qubits -> Qubits]
  BY <1>2 DEF RouterInit
<1>4. PlacementConsistent
  BY <1>1, <1>2 DEF PlacementConsistent
<1>5. search \in Searches /\ search.taken = {} /\ search.marked = {} /\ search.queue = {}
      /\ search.cost = [q \in Qubits |-> 0]
  <2>1. [q \in Qubits |-> FALSE] \in [Qubits -> BOOLEAN]
    BY Zenon
  <2>2. search = NoSearch
    BY DEF RouterInit
  <2>. QED
    BY <2>1, <2>2, QubitsNat DEF NoSearch, Searches
<1>6. IsGate(gate)
  BY QubitsNat DEF RouterInit, IsGate, GateTypes
<1>7. RouterTypeOK
  <2>1. swapIds \in BOOLEAN
    BY Zenon DEF RouterInit
  <2>2. <<0, 0>> \in Qubits \X Qubits /\ <<>> \in Seq(TimedOps)
    BY QubitsNat
  <2>. QED
    BY <1>1, <1>3, <1>5, <1>6, <2>1, <2>2, QubitsNat DEF RouterTypeOK, RouterInit
<1>8. NoOverlap /\ Occupied
  BY DEF RouterInit, NoOverlap, Occupied
<1>9. SearchForest /\ SearchStartsFresh /\ PendingFit /\ TraceGoesBack /\ PhasesOfRouters
  BY <1>5 DEF RouterInit, SearchForest, SearchStartsFresh, PendingFit, TraceGoesBack,
              PhasesOfRouters
<1>. QED
  BY <1>4, <1>7, <1>8, <1>9 DEF TimesInv

\* A gate on one qubit
LEMMA ExecuteSingleKeeps ==
    ASSUME TimesInv, NEW g, IsGate(g), ExecuteSingle(g)
    PROVE  TimesInv'
<1>. DEFINE q == logicalToPhysical[g.qubits[1]]
            o == GateOp(g, <<q>>, occupiedTime[q])
<1>. USE DEF TimesInv
<1>1. q \in Qubits /\ g.op # "swap"
  BY DEF ExecuteSingle, IsGate, RouterTypeOK
<1>2. occupiedTime[q] \in Nat
  BY <1>1 DEF RouterTypeOK
<1>3. /\ o \in TimedOps /\ On(o) = {q} /\ o.start = occupiedTime[q]
  <2>. HIDE DEF q
  <2>1. <<q>> \in Seq(Qubits) /\ Len(<<q>>) = 1 /\ ToSet(<<q>>) = {q}
    BY <1>1, PairOn
  <2>. QED
    BY <2>1, <1>1, <1>2, GateOpType
<1>. HIDE DEF o
<1>4. /\ occupiedTime' = [occupiedTime EXCEPT ![q] = o.end]
      /\ operations' = Append(operations, o)
      /\ search' = [search EXCEPT !.marked = @ \ {q}, !.taken = @ \ {q},
                                  !.cost = [@ EXCEPT ![q] = o.end]]
      /\ phase = "idle" /\ gate' = g
      /\ UNCHANGED <<device, tables, config, logicalQubit, logicalToPhysical, phase,
                     ends, front, swapIds, pending>>
  BY DEF ExecuteSingle, Idle, deviceVars, o
<1>. HIDE DEF q
<1>5. occupiedTime' = [p \in Qubits |-> IF p \in On(o) THEN o.end ELSE occupiedTime[p]]
  BY <1>1, <1>3, <1>4 DEF RouterTypeOK
<1>6. /\ occupiedTime' \in [Qubits -> Nat]
      /\ operations' \in Seq(TimedOps)
      /\ NoOverlap'
      /\ Occupied'
  <2>1. occupiedTime \in [Qubits -> Nat] /\ operations \in Seq(TimedOps)
    BY DEF RouterTypeOK
  <2>2. \A p \in Qubits : p \in On(o) => occupiedTime[p] <= o.start
    BY <1>2, <1>3
  <2>. QED
    BY <2>1, <2>2, <1>3, <1>4, <1>5, ApplyKeeps
<1>7. pending = {}
  BY <1>4 DEF PhasesOfRouters
<1>8. /\ search' \in Searches
      /\ search'.marked = search.marked \ {q}
      /\ search'.taken = search.taken \ {q}
      /\ search'.queue = search.queue
      /\ search'.cost = [search.cost EXCEPT ![q] = o.end]
  <2>1. search \in Searches /\ o.end \in Nat
    BY <1>3 DEF RouterTypeOK, TimedOps
  <2>. QED
    BY <2>1, <1>4 DEF Searches
<1>9. RouterTypeOK'
  BY <1>4, <1>6, <1>8 DEF RouterTypeOK
<1>10. PlacementConsistent'
  BY <1>4 DEF PlacementConsistent, Idle
<1>11. SearchStartsFresh'
  BY <1>4, <1>8 DEF SearchStartsFresh, Idle
<1>12. SearchForest' /\ PendingFit' /\ TraceGoesBack' /\ PhasesOfRouters'
  BY <1>4, <1>7 DEF SearchForest, PendingFit, TraceGoesBack, PhasesOfRouters
<1>. QED
  BY <1>6, <1>9, <1>10, <1>11, <1>12

\* A search starts from the two qubits that hold those of the gate, and has met at once
\* if these are coupled.
LEMMA SearchStarts ==
    ASSUME TimesInv, NEW g, IsGate(g), DuostraRouting(g)
    PROVE  \E t0, t1 \in Qubits, s \in Searches :
              /\ t0 # t1
              /\ \A i \in {1, 2} : logicalQubit[<<t0, t1>>[i]] =
                                   g.qubits[IF swapIds' THEN 3 - i ELSE i]
              /\ search' = s /\ GrownFrom(s, t0, t1)
              /\ \/ IsAdjacency(device, t0, t1) /\ Meet(s, t0, t1)
                 \/ phase' = "search" /\ front' = <<t0, t1>> /\ UNCHANGED pending
              /\ ends' = <<t0, t1>> /\ swapIds' \in BOOLEAN /\ gate' = g
              /\ Len(g.qubits) = 2 /\ config.duostra /\ pending = {} /\ phase = "idle"
              /\ UNCHANGED <<device, tables, config, occupiedTime, logicalQubit,
                             logicalToPhysical, operations>>
<1>1. Len(g.qubits) = 2 /\ phase = "idle" /\ config.duostra
  BY DEF DuostraRouting, Idle
<1>2. PICK x \in Qubits, y \in Qubits : x # y /\ g.qubits = <<x, y>>
  BY <1>1 DEF IsGate
<1>3. PICK a, b : a = logicalToPhysical[g.qubits[1]] /\ b = logicalToPhysical[g.qubits[2]]
  OBVIOUS
<1>4. /\ a \in Qubits /\ b \in Qubits /\ a # b
      /\ logicalQubit[a] = x /\ logicalQubit[b] = y
  BY <1>1, <1>2, <1>3 DEF TimesInv, RouterTypeOK, PlacementConsistent, Idle
<1>5. PICK t0, t1 : /\ t0 = IF IsSwapped(a, b) THEN b ELSE a
                    /\ t1 = IF IsSwapped(a, b) THEN a ELSE b
  OBVIOUS
<1>6. /\ gate' = g /\ ends' = <<t0, t1>> /\ swapIds' = IsSwapped(a, b)
      /\ \E s1 \in {TakeEnds(search, t0, t1)} :
         \E s2 \in {TouchAdjacency(s1, t0, FALSE)} :
            /\ search' = TouchAdjacency(s2, t1, TRUE)
            /\ \/ IsAdjacent(s1, t0, FALSE) /\ Meet(s2, t0, t1)
               \/ phase' = "search" /\ front' = <<t0, t1>> /\ UNCHANGED pending
      /\ UNCHANGED <<device, tables, config, occupiedTime, logicalQubit,
                     logicalToPhysical, operations>>
  BY <1>3, <1>5 DEF DuostraRouting, deviceVars
<1>7. t0 \in Qubits /\ t1 \in Qubits /\ t0 # t1
  BY <1>4, <1>5
<1>8. swapIds' \in BOOLEAN
  <2>1. IsSwapped(a, b) \in BOOLEAN
    BY Zenon DEF IsSwapped
  <2>. QED
    BY <2>1, <1>6
<1>9. \A i \in {1, 2} : logicalQubit[<<t0, t1>>[i]] = g.qubits[IF swapIds' THEN 3 - i ELSE i]
  BY <1>2, <1>4, <1>5, <1>6
<1>10. PICK s1 : s1 = TakeEnds(search, t0, t1)
  OBVIOUS
<1>11. PICK s2 : s2 = TouchAdjacency(s1, t0, FALSE)
  OBVIOUS
<1>12. PICK s : s = TouchAdjacency(s2, t1, TRUE)
  OBVIOUS
<1>13. /\ search' = s
       /\ \/ IsAdjacent(s1, t0, FALSE) /\ Meet(s2, t0, t1)
          \/ phase' = "search" /\ front' = <<t0, t1>> /\ UNCHANGED pending
  BY <1>6, <1>10, <1>11, <1>12
<1>14. /\ search.taken = {} /\ search.queue = {} /\ search.cost = occupiedTime
       /\ search \in Searches /\ pending = {}
  BY <1>1 DEF SearchStartsFresh, Idle, TimesInv, RouterTypeOK, PhasesOfRouters
<1>15. device \in Devices /\ occupiedTime \in [Qubits -> Nat]
       /\ FALSE \in BOOLEAN /\ TRUE \in BOOLEAN
  BY DEF TimesInv, RouterTypeOK
<1>16. s1 \in Searches /\ GrownFrom(s1, t0, t1) /\ s1.taken = {t0, t1}
  BY <1>7, <1>10, <1>14, <1>15, StartGrows
<1>17. s1.source[t0] = FALSE
  BY <1>7, <1>16 DEF GrownFrom, Searches
<1>18. /\ s2 \in Searches /\ GrownFrom(s2, t0, t1)
       /\ s2.taken = s1.taken
  <2>1. s2 = TouchAdjacency(s1, t0, s1.source[t0])
    BY <1>11, <1>17
  <2>2. GrownFrom(s2, t0, t1)
    BY <2>1, <1>7, <1>15, <1>16, TouchGrows
  <2>. QED
    BY <2>2, <1>7, <1>11, <1>15, <1>16, TouchFacts
<1>19. t1 \in s2.taken /\ s2.source[t1] = TRUE
  BY <1>7, <1>18 DEF GrownFrom, Searches
<1>20. s \in Searches /\ GrownFrom(s, t0, t1) /\ s.cost = s2.cost
  <2>1. s = TouchAdjacency(s2, t1, s2.source[t1])
    BY <1>12, <1>19
  <2>2. GrownFrom(s, t0, t1)
    BY <2>1, <1>7, <1>15, <1>18, <1>19, TouchGrows
  <2>. QED
    BY <2>2, <1>7, <1>12, <1>15, <1>18, TouchFacts
<1>21. CASE IsAdjacent(s1, t0, FALSE) /\ Meet(s2, t0, t1)
  <2>1. PICK p \in s1.taken : s1.source[p] # FALSE /\ IsAdjacency(device, t0, p)
    BY <1>21, <1>7, <1>15, <1>16, MeetingPoint
  <2>2. IsAdjacency(device, t0, t1)
    BY <2>1, <1>16, <1>17
  <2>3. Meet(s, t0, t1)
    BY <1>20, <1>21 DEF Meet, MeetingGate
  <2>. QED
    BY <2>2, <2>3, <1>1, <1>6, <1>7, <1>8, <1>9, <1>13, <1>14, <1>20
<1>22. CASE phase' = "search" /\ front' = <<t0, t1>> /\ UNCHANGED pending
  BY <1>22, <1>1, <1>6, <1>7, <1>8, <1>9, <1>13, <1>14, <1>20
<1>. QED
  BY <1>13, <1>21, <1>22

\* The search starts.
LEMMA DuostraRoutingKeeps ==
    ASSUME TimesInv, NEW g, IsGate(g), DuostraRouting(g)
    PROVE  TimesInv'
<1>. USE DEF TimesInv
<1>1. PICK t0 \in Qubits, t1 \in Qubits, s \in Searches :
        /\ search' = s /\ GrownFrom(s, t0, t1)
        /\ \/ Meet(s, t0, t1)
           \/ phase' = "search" /\ front' = <<t0, t1>> /\ UNCHANGED pending
        /\ ends' = <<t0, t1>> /\ swapIds' \in BOOLEAN /\ gate' = g /\ config.duostra
        /\ pending = {}
        /\ UNCHANGED <<device, tables, config, occupiedTime, logicalQubit,
                       logicalToPhysical, operations>>
  <2>. HIDE DEF TimesInv
  <2>. QED
    BY SearchStarts
<1>2. t0 \in s.taken /\ t1 \in s.taken /\ ~s.source[t0] /\ s.source[t1]
  BY <1>1 DEF GrownFrom
<1>3. device \in Devices /\ occupiedTime \in [Qubits -> Nat]
  BY DEF RouterTypeOK
<1>4. SearchForest'
  <2>1. GrownFrom(search, ends[1], ends[2])' <=> GrownFrom(s, t0, t1)
    BY <1>1 DEF GrownFrom, Reaches
  <2>. QED
    BY <2>1, <1>1 DEF SearchForest
<1>5. /\ front' \in Qubits \X Qubits
      /\ pending' \subseteq TimedOps
      /\ phase' \in {"search", "trace"}
      /\ PendingFit'
      /\ TraceGoesBack'
      /\ PhasesOfRouters'
  <2>1. CASE Meet(s, t0, t1)
    <3>1. phase' = "trace"
      BY <2>1 DEF Meet
    <3>. QED
      BY <2>1, <3>1, <1>1, <1>2, <1>3, MeetFits DEF PhasesOfRouters
  <2>2. CASE phase' = "search" /\ front' = <<t0, t1>> /\ UNCHANGED pending
    BY <2>2, <1>1 DEF PendingFit, TraceGoesBack, PhasesOfRouters
  <2>. QED
    BY <1>1, <2>1, <2>2
<1>6. RouterTypeOK'
  <2>1. search' \in Searches /\ search'.taken \subseteq search'.marked
    BY <1>1 DEF GrownFrom
  <2>. QED
    BY <2>1, <1>1, <1>5 DEF RouterTypeOK
<1>7. PlacementConsistent' /\ NoOverlap' /\ Occupied' /\ SearchStartsFresh'
  BY <1>1, <1>5 DEF PlacementConsistent, NoOverlap, Occupied, SearchStartsFresh, Idle, On
<1>. QED
  BY <1>4, <1>5, <1>6, <1>7

\* One qubit more is taken; where it meets the other end, the two are coupled and of one
\* tree each.
LEMMA SearchGrows ==
    ASSUME TimesInv, Propagate
    PROVE  \E s \in Searches, q0, q1 \in Qubits :
              /\ search' = s /\ GrownFrom(s, ends[1], ends[2])
              /\ \/ /\ Meet(s, q0, q1) /\ IsAdjacency(device, q0, q1)
                    /\ q0 \in s.taken /\ ~s.source[q0] /\ q1 \in s.taken /\ s.source[q1]
                 \/ UNCHANGED <<phase, front, pending>>
              /\ phase = "search" /\ pending = {}
              /\ UNCHANGED <<device, tables, config, occupiedTime, logicalQubit,
                             logicalToPhysical, operations, gate, ends, swapIds>>
<1>1. PICK next, s1, s2 :
        /\ next \in search.queue
        /\ s1 = TakeRoute([search EXCEPT !.queue = @ \ {next}],
                          next.id, next.cost, next.cost - SwapDelay)
        /\ s2 = TouchAdjacency(s1, next.id, next.source)
        /\ phase = "search" /\ search' = s2
        /\ \/ /\ IsAdjacent(s1, next.id, next.source)
              /\ IF next.source
                 THEN Meet(s2, TouchedBy(s1, next.id, next.source), next.id)
                 ELSE Meet(s2, next.id, TouchedBy(s1, next.id, next.source))
           \/ UNCHANGED <<phase, front, pending>>
        /\ UNCHANGED <<device, tables, config, occupiedTime, logicalQubit,
                       logicalToPhysical, operations, gate, ends, swapIds>>
  BY DEF Propagate, deviceVars
<1>2. /\ search \in Searches /\ occupiedTime \in [Qubits -> Nat] /\ device \in Devices
      /\ ends[1] \in Qubits /\ ends[2] \in Qubits
  BY DEF TimesInv, RouterTypeOK
<1>3. GrownFrom(search, ends[1], ends[2]) /\ pending = {}
  BY <1>1 DEF TimesInv, SearchForest, PhasesOfRouters
<1>4. next.id \in Qubits /\ next.source \in BOOLEAN
  BY <1>1, <1>2 DEF Searches, Nodes
<1>5. /\ s1 \in Searches
      /\ GrownFrom(s1, ends[1], ends[2])
      /\ next.id \in s1.taken
      /\ s1.source[next.id] = next.source
  BY <1>1, <1>2, <1>3, TakeGrows
<1>6. s2 \in Searches /\ s2.taken = s1.taken
  BY <1>1, <1>2, <1>4, <1>5, TouchFacts
<1>7. GrownFrom(s2, ends[1], ends[2])
  <2>1. s2 = TouchAdjacency(s1, next.id, s1.source[next.id])
    BY <1>1, <1>5
  <2>. QED
    BY <2>1, <1>2, <1>5, TouchGrows
<1>8. \A p \in s1.taken : p \in Qubits /\ s2.source[p] = s1.source[p]
  <2>1. \A p \in s1.taken : p \in Qubits /\ p \in s1.marked
    BY <1>5 DEF GrownFrom, Searches
  <2>2. \A p \in s1.marked : s2.source[p] = s1.source[p]
    BY <1>1, <1>2, <1>4, <1>5, TouchSource
  <2>. QED
    BY <2>1, <2>2
<1>9. CASE /\ IsAdjacent(s1, next.id, next.source)
           /\ IF next.source
              THEN Meet(s2, TouchedBy(s1, next.id, next.source), next.id)
              ELSE Meet(s2, next.id, TouchedBy(s1, next.id, next.source))
  <2>1. PICK other : other = TouchedBy(s1, next.id, next.source)
    OBVIOUS
  <2>2. /\ other \in s1.taken /\ other \in Qubits /\ s1.source[other] # next.source
        /\ IsAdjacency(device, next.id, other)
    BY <2>1, <1>2, <1>4, <1>5, <1>9, MeetingPoint
  <2>3. /\ other \in s2.taken /\ next.id \in s2.taken
        /\ s2.source[other] # next.source /\ s2.source[next.id] = next.source
        /\ s2.source[other] \in BOOLEAN
        /\ IsAdjacency(device, other, next.id)
    <3>1. IsAdjacency(device, other, next.id)
      BY <2>2, <1>2, <1>4, CoupledPair
    <3>. QED
      BY <3>1, <2>2, <1>5, <1>6, <1>8 DEF Searches
  <2>4. CASE next.source
    <3>1. ~s2.source[other] /\ s2.source[next.id] /\ Meet(s2, other, next.id)
      BY <2>1, <2>3, <2>4, <1>9
    <3>. QED
      BY <3>1, <2>2, <2>3, <1>1, <1>3, <1>4, <1>6, <1>7
  <2>5. CASE ~next.source
    <3>1. s2.source[other] /\ ~s2.source[next.id]
      BY <2>3, <2>5, <1>4
    <3>2. Meet(s2, next.id, other)
      BY <2>1, <2>5, <1>9
    <3>. QED
      BY <3>1, <3>2, <2>2, <2>3, <1>1, <1>3, <1>4, <1>6, <1>7
  <2>. QED
    BY <2>4, <2>5
<1>10. CASE UNCHANGED <<phase, front, pending>>
  BY <1>10, <1>1, <1>3, <1>4, <1>6, <1>7
<1>. QED
  BY <1>1, <1>9, <1>10

\* One qubit more is taken; it may meet the other end.
LEMMA PropagateKeeps ==
    ASSUME TimesInv, Propagate
    PROVE  TimesInv'
<1>1. PICK s \in Searches, q0 \in Qubits, q1 \in Qubits :
        /\ search' = s /\ GrownFrom(s, ends[1], ends[2])
        /\ \/ /\ Meet(s, q0, q1)
              /\ q0 \in s.taken /\ ~s.source[q0] /\ q1 \in s.taken /\ s.source[q1]
           \/ UNCHANGED <<phase, front, pending>>
        /\ phase = "search" /\ pending = {}
        /\ UNCHANGED <<device, tables, config, occupiedTime, logicalQubit,
                       logicalToPhysical, operations, gate, ends, swapIds>>
  BY SearchGrows
<1>. USE DEF TimesInv
<1>2. occupiedTime \in [Qubits -> Nat] /\ ends[1] \in Qubits /\ ends[2] \in Qubits
      /\ IsGate(gate') /\ swapIds' \in BOOLEAN
  BY <1>1 DEF RouterTypeOK
<1>3. SearchForest'
  <2>1. GrownFrom(search, ends[1], ends[2])' <=> GrownFrom(s, ends[1], ends[2])
    BY <1>1 DEF GrownFrom, Reaches
  <2>. QED
    BY <2>1, <1>1 DEF SearchForest
<1>4. /\ front' \in Qubits \X Qubits
      /\ pending' \subseteq TimedOps
      /\ phase' \in {"search", "trace"}
      /\ PendingFit'
      /\ TraceGoesBack'
      /\ PhasesOfRouters'
  <2>1. CASE /\ Meet(s, q0, q1)
             /\ q0 \in s.taken /\ ~s.source[q0] /\ q1 \in s.taken /\ s.source[q1]
    <3>1. phase' = "trace"
      BY <2>1 DEF Meet
    <3>. QED
      BY <2>1, <3>1, <1>1, <1>2, MeetFits DEF PhasesOfRouters
  <2>2. CASE UNCHANGED <<phase, front, pending>>
    BY <2>2, <1>1 DEF PendingFit, TraceGoesBack, PhasesOfRouters, RouterTypeOK
  <2>. QED
    BY <1>1, <2>1, <2>2
<1>5. RouterTypeOK'
  <2>1. search' \in Searches /\ search'.taken \subseteq search'.marked
    BY <1>1 DEF GrownFrom
  <2>. QED
    BY <2>1, <1>1, <1>4 DEF RouterTypeOK
<1>6. PlacementConsistent' /\ NoOverlap' /\ Occupied' /\ SearchStartsFresh'
  BY <1>1, <1>4 DEF PlacementConsistent, NoOverlap, Occupied, SearchStartsFresh, Idle, On
<1>. QED
  BY <1>3, <1>4, <1>5, <1>6

\* One SWAP more is listed: it ends when the operations listed before it start.
LEMMA TraceBackKeeps ==
    ASSUME TimesInv, TraceBack
    PROVE  TimesInv'
<1>. USE DEF TimesInv
<1>1. PICK i \in {1, 2} :
        LET q == front[i]
            p == search.pred[q]
        IN  /\ phase = "trace"
            /\ q # ends[i]
            /\ pending' = pending \cup {SwapOp(gate, q, p, search.swapTime[q])}
            /\ front' = [front EXCEPT ![i] = p]
            /\ UNCHANGED <<device, tables, config, occupiedTime, logicalQubit,
                           logicalToPhysical, search, phase, gate, ends, swapIds,
                           operations>>
  BY DEF TraceBack, deviceVars
<1>. DEFINE q == front[i]
            p == search.pred[q]
            o == SwapOp(gate, q, p, search.swapTime[q])
            side == [x \in Qubits |-> IF search.source[x] THEN 2 ELSE 1]
<1>2. /\ search \in Searches /\ occupiedTime \in [Qubits -> Nat]
      /\ ends[1] \in Qubits /\ ends[2] \in Qubits
      /\ front \in Qubits \X Qubits /\ IsGate(gate)
      /\ pending \subseteq TimedOps
  BY DEF RouterTypeOK
<1>3. GrownFrom(search, ends[1], ends[2])
  BY <1>1 DEF SearchForest
<1>4. q \in search.taken /\ q \in Qubits /\ side[q] = i
  BY <1>1, <1>2 DEF TraceGoesBack
<1>5. q \in search.taken \ {ends[1], ends[2]}
  <2>1. ~search.source[ends[1]] /\ search.source[ends[2]]
    BY <1>3 DEF GrownFrom
  <2>. QED
    BY <2>1, <1>1, <1>2, <1>4
<1>6. /\ p \in search.taken /\ p \in Qubits
      /\ search.source[p] = search.source[q]
      /\ search.cost[q] = search.swapTime[q] + SwapDelay
      /\ search.swapTime[q] >= search.cost[p]
      /\ search.swapTime[q] >= occupiedTime[q]
      /\ search.cost[p] >= occupiedTime[p]
      /\ search.cost[q] \in Nat /\ search.cost[p] \in Nat /\ search.swapTime[q] \in Nat
  <2>1. /\ Reaches(search, p, q, search.cost[q])
        /\ search.cost[q] = search.swapTime[q] + SwapDelay
    BY <1>3, <1>5 DEF GrownFrom
  <2>2. p \in search.taken /\ p \in Qubits /\ search.source[p] = search.source[q]
    BY <2>1, <1>2, <1>4 DEF Reaches, Searches
  <2>3. /\ search.cost[q] \in Nat /\ search.cost[p] \in Nat /\ search.swapTime[q] \in Nat
        /\ occupiedTime[q] \in Nat
    BY <1>2, <1>4, <2>2 DEF Searches
  <2>4. search.cost[p] >= occupiedTime[p]
    BY <1>3, <2>2 DEF GrownFrom
  <2>. QED
    BY <2>1, <2>2, <2>3, <2>4 DEF Reaches, SwapDelay
<1>7. side[p] = i
  BY <1>4, <1>6
<1>8. /\ o \in TimedOps /\ On(o) = {q, p}
      /\ o.start = search.swapTime[q] /\ o.end = search.cost[q]
  <2>. DEFINE start == search.swapTime[q]
  <2>1. q \in Qubits /\ p \in Qubits /\ start \in Nat /\ IsGate(gate)
    BY <1>2, <1>4, <1>6
  <2>. HIDE DEF p, q, start
  <2>2. /\ SwapOp(gate, q, p, start) \in TimedOps
        /\ On(SwapOp(gate, q, p, start)) = {q, p}
        /\ SwapOp(gate, q, p, start).start = start
        /\ SwapOp(gate, q, p, start).end = start + SwapDelay
    BY <2>1, SwapOpType
  <2>. QED
    BY <2>2, <1>6 DEF start
<1>9. \A o2 \in pending, x \in Qubits : x \in On(o2) =>
          /\ x \in search.taken
          /\ o2.start >= search.cost[front[side[x]]]
  BY <1>1 DEF TraceGoesBack
<1>10. /\ phase = "trace"
       /\ pending' = pending \cup {o}
       /\ front' = [front EXCEPT ![i] = p]
       /\ UNCHANGED <<device, tables, config, occupiedTime, logicalQubit,
                      logicalToPhysical, search, phase, gate, ends, swapIds,
                      operations>>
  BY <1>1
<1>11. front' \in Qubits \X Qubits /\ front'[i] = p
       /\ \A j \in {1, 2} : j # i => front'[j] = front[j]
  BY <1>2, <1>6, <1>10
<1>11a. \A x \in Qubits : side[x] \in {1, 2}
  OBVIOUS
<1>11b. \A o2 \in pending : o2.start \in Nat /\ o2.end \in Nat
  BY <1>2 DEF TimedOps
<1>12. PendingFit'
  <2>1. \A x \in Qubits : x \in On(o) => occupiedTime[x] <= o.start
    <3>1. occupiedTime[q] \in Nat /\ occupiedTime[p] \in Nat
      BY <1>2, <1>4, <1>6
    <3>2. occupiedTime[q] <= o.start
      BY <3>1, <1>6, <1>8
    <3>3. occupiedTime[p] <= o.start
      BY <3>1, <1>6, <1>8
    <3>. QED
      BY <3>2, <3>3, <1>8
  <2>2. ASSUME NEW o2 \in pending, On(o) \cap On(o2) # {}
        PROVE  o.end <= o2.start
    <3>1. PICK x \in {q, p} : x \in On(o2)
      BY <2>2, <1>8
    <3>2. side[x] = i /\ x \in Qubits
      BY <1>4, <1>6, <1>7
    <3>. QED
      BY <3>1, <3>2, <1>6, <1>8, <1>9, <1>11b
  <2>. HIDE DEF o, p, q, side
  <2>3. ASSUME NEW o1 \in pending', NEW o2 \in pending', o1 # o2
        PROVE  InTurn(o1, o2)
    <3>1. CASE o1 \in pending /\ o2 \in pending
      BY <2>3, <3>1 DEF PendingFit
    <3>2. CASE o1 = o
      BY <2>2, <2>3, <3>2, <1>10 DEF InTurn
    <3>3. CASE o2 = o
      BY <2>2, <2>3, <3>3, <1>10 DEF InTurn
    <3>. QED
      BY <3>1, <3>2, <3>3, <1>10
  <2>4. \A o1 \in pending', x \in Qubits : x \in On(o1) => occupiedTime[x] <= o1.start
    BY <2>1, <1>10 DEF PendingFit
  <2>. QED
    BY <2>3, <2>4, <1>10 DEF PendingFit, InTurn, On
<1>13. TraceGoesBack'
  <2>1. ASSUME NEW o2 \in pending', NEW x \in Qubits, x \in On(o2)
        PROVE  x \in search.taken /\ o2.start >= search.cost[front'[side[x]]]
    <3>1. CASE o2 = o
      <4>1. side[x] = i /\ x \in search.taken
        BY <2>1, <3>1, <1>4, <1>6, <1>7, <1>8
      <4>. QED
        BY <4>1, <3>1, <1>6, <1>8, <1>11
    <3>2. CASE o2 \in pending /\ side[x] # i
      BY <2>1, <3>2, <1>9, <1>11, <1>11a
    <3>3. CASE o2 \in pending /\ side[x] = i
      <4>1. o2.start >= search.cost[q] /\ x \in search.taken
        BY <2>1, <3>3, <1>9
      <4>2. search.cost[q] >= search.cost[p]
        BY <1>6 DEF SwapDelay
      <4>3. o2.start >= search.cost[p]
        BY <4>1, <4>2, <3>3, <1>6, <1>11b
      <4>. QED
        BY <4>1, <4>3, <3>3, <1>11
    <3>. QED
      BY <3>1, <3>2, <3>3, <1>10
  <2>2. /\ front'[1] \in search.taken /\ ~search.source[front'[1]]
        /\ front'[2] \in search.taken /\ search.source[front'[2]]
    BY <1>1, <1>6, <1>10, <1>11 DEF TraceGoesBack
  <2>3. /\ phase' = "trace" /\ search' = search
        /\ \A x \in Qubits : (IF search.source[x] THEN 2 ELSE 1) = side[x]
    BY <1>10
  <2>. HIDE DEF o, p, q, side
  <2>. QED
    BY <2>1, <2>2, <2>3 DEF TraceGoesBack, On
<1>14. RouterTypeOK'
  BY <1>2, <1>8, <1>10, <1>11 DEF RouterTypeOK
<1>15. SearchForest'
  BY <1>10 DEF SearchForest, GrownFrom, Reaches
<1>16. /\ PlacementConsistent' /\ NoOverlap' /\ Occupied' /\ SearchStartsFresh'
       /\ PhasesOfRouters'
  BY <1>10 DEF PlacementConsistent, NoOverlap, Occupied, SearchStartsFresh, Idle, On,
               PhasesOfRouters
<1>. QED
  BY <1>12, <1>13, <1>14, <1>15, <1>16

\* The waiting operation that starts first is applied.
LEMMA ApplyInOrderKeeps ==
    ASSUME TimesInv, ApplyInOrder
    PROVE  TimesInv'
<1>. USE DEF TimesInv
<1>1. PICK o \in pending :
        /\ phase \in {"trace", "apply"}
        /\ \A other \in pending : o.start <= other.start
        /\ ApplyGate(o)
        /\ pending' = pending \ {o}
        /\ phase' = "apply"
        /\ UNCHANGED <<device, tables, config, logicalToPhysical, search,
                       gate, ends, front, swapIds>>
  BY DEF ApplyInOrder, deviceVars, routeVars
<1>2. /\ o \in TimedOps /\ occupiedTime \in [Qubits -> Nat] /\ operations \in Seq(TimedOps)
      /\ logicalQubit \in [Qubits -> Qubits]
  BY DEF RouterTypeOK
<1>3. /\ logicalQubit' = LabelsAfter(o)
      /\ occupiedTime' = [q \in Qubits |-> IF q \in On(o) THEN o.end ELSE occupiedTime[q]]
      /\ operations' = Append(operations, o)
  BY <1>1 DEF ApplyGate
<1>4. \A q \in Qubits : q \in On(o) => occupiedTime[q] <= o.start
  BY DEF PendingFit
<1>5. /\ occupiedTime' \in [Qubits -> Nat]
      /\ operations' \in Seq(TimedOps)
      /\ NoOverlap'
      /\ Occupied'
  BY <1>2, <1>3, <1>4, ApplyKeeps
<1>6. /\ logicalQubit' \in [Qubits -> Qubits]
      /\ \A p, q \in Qubits : logicalQubit'[p] = logicalQubit'[q] => p = q
      /\ \A l \in Qubits : \E q \in Qubits : logicalQubit'[q] = l
  <2>1. /\ \A p, q \in Qubits : logicalQubit[p] = logicalQubit[q] => p = q
        /\ \A l \in Qubits : \E q \in Qubits : logicalQubit[q] = l
    BY DEF PlacementConsistent
  <2>2. PICK labels : labels = LabelsAfter(o)
    OBVIOUS
  <2>3. /\ labels \in [Qubits -> Qubits]
        /\ \A p, q \in Qubits : labels[p] = labels[q] => p = q
        /\ \A l \in Qubits : \E q \in Qubits : labels[q] = l
    <3>. HIDE DEF TimesInv
    <3>. QED
      BY <1>2, <2>1, <2>2, LabelsFacts
  <2>4. logicalQubit' = labels
    BY <1>3, <2>2
  <2>. QED
    BY <2>3, <2>4
<1>7. PendingFit'
  <2>1. ASSUME NEW o2 \in pending', NEW q \in Qubits, q \in On(o2)
        PROVE  occupiedTime'[q] <= o2.start
    <3>1. o2 \in pending /\ o2 # o /\ o2 \in TimedOps
      BY <1>1 DEF RouterTypeOK
    <3>2. CASE q \notin On(o)
      BY <2>1, <3>1, <3>2, <1>3 DEF PendingFit
    <3>3. CASE q \in On(o)
      <4>1. InTurn(o, o2) /\ On(o) \cap On(o2) # {}
        BY <2>1, <3>1, <3>3 DEF PendingFit
      <4>2. o.end <= o2.start \/ o2.end <= o.start
        BY <4>1 DEF InTurn
      <4>3. /\ o.start \in Nat /\ o.end \in Nat /\ o.start < o.end
            /\ o2.start \in Nat /\ o2.end \in Nat /\ o2.start < o2.end
            /\ o.start <= o2.start
        BY <1>1, <1>2, <3>1 DEF TimedOps
      <4>4. o.end <= o2.start
        BY <4>2, <4>3
      <4>. QED
        BY <4>4, <3>3, <1>3
    <3>. QED
      BY <3>2, <3>3
  <2>2. \A o1, o2 \in pending' : o1 = o2 \/ InTurn(o1, o2)
    BY <1>1 DEF PendingFit
  <2>. QED
    BY <2>1, <2>2 DEF PendingFit, InTurn, On
<1>8. RouterTypeOK'
  BY <1>1, <1>5, <1>6 DEF RouterTypeOK
<1>9. PlacementConsistent' /\ SearchForest' /\ SearchStartsFresh' /\ TraceGoesBack'
      /\ PhasesOfRouters'
  BY <1>1, <1>6 DEF PlacementConsistent, SearchForest, SearchStartsFresh, TraceGoesBack,
                    PhasesOfRouters, Idle
<1>. QED
  BY <1>5, <1>7, <1>8, <1>9

\* The end of duostra_routing: the table follows the labels, the fields are reset.
LEMMA FinishDuostraKeeps ==
    ASSUME TimesInv, FinishDuostra
    PROVE  TimesInv'
<1>. USE DEF TimesInv
<1>1. /\ phase = "apply" /\ pending = {} /\ phase' = "idle"
      /\ search' = ResetAll(search, occupiedTime)
      /\ logicalToPhysical' = FollowLabels(logicalQubit)
      /\ UNCHANGED <<device, tables, config, occupiedTime, logicalQubit, gate, ends,
                     front, swapIds, pending, operations>>
  BY DEF FinishDuostra, deviceVars, routeVars
<1>2. /\ logicalToPhysical' \in [Qubits -> Qubits]
      /\ \A l \in Qubits : logicalQubit[logicalToPhysical'[l]] = l
  BY <1>1, FollowFacts DEF RouterTypeOK, PlacementConsistent
<1>3. /\ search' \in Searches /\ search'.marked = {} /\ search'.taken = {}
      /\ search'.queue = {} /\ search'.cost = occupiedTime
  BY <1>1 DEF ResetAll, Searches, RouterTypeOK
<1>4. RouterTypeOK'
  BY <1>1, <1>2, <1>3 DEF RouterTypeOK
<1>5. PlacementConsistent'
  BY <1>1, <1>2 DEF PlacementConsistent
<1>6. NoOverlap' /\ Occupied'
  BY <1>1 DEF NoOverlap, Occupied, On
<1>7. SearchForest' /\ SearchStartsFresh' /\ PendingFit' /\ TraceGoesBack' /\ PhasesOfRouters'
  BY <1>1, <1>3 DEF SearchForest, SearchStartsFresh, PendingFit, TraceGoesBack,
                    PhasesOfRouters
<1>. QED
  BY <1>4, <1>5, <1>6, <1>7

\* apsp_routing starts.
LEMMA ApspRoutingKeeps ==
    ASSUME TimesInv, NEW g, IsGate(g), ApspRouting(g)
    PROVE  TimesInv'
<1>. USE DEF TimesInv
<1>1. PICK x \in Qubits, y \in Qubits : g.qubits = <<x, y>>
  <2>1. Len(g.qubits) = 2
    BY DEF ApspRouting
  <2>. QED
    BY <2>1 DEF IsGate
<1>2. /\ logicalToPhysical[g.qubits[1]] \in Qubits
      /\ logicalToPhysical[g.qubits[2]] \in Qubits
  BY <1>1 DEF RouterTypeOK
<1>3. /\ phase = "idle" /\ ~config.duostra /\ gate' = g /\ phase' = "walk"
      /\ ends' \in Qubits \X Qubits /\ front' \in Qubits \X Qubits
      /\ swapIds' = FALSE
      /\ UNCHANGED <<device, tables, config, occupiedTime, logicalQubit,
                     logicalToPhysical, search, pending, operations>>
  BY <1>2 DEF ApspRouting, Idle, deviceVars
<1>4. swapIds' \in BOOLEAN
  BY <1>3, Zenon
<1>5. pending = {}
  BY <1>3 DEF PhasesOfRouters
<1>6. RouterTypeOK'
  BY <1>3, <1>4 DEF RouterTypeOK
<1>7. PlacementConsistent' /\ NoOverlap' /\ Occupied' /\ SearchForest' /\ SearchStartsFresh'
      /\ PendingFit' /\ TraceGoesBack' /\ PhasesOfRouters'
  BY <1>3, <1>5 DEF PlacementConsistent, NoOverlap, Occupied, On, SearchForest,
       SearchStartsFresh, PendingFit, TraceGoesBack, PhasesOfRouters, Idle
<1>. QED
  BY <1>6, <1>7

\* When two qubits are free is a time at which each of them is.
LEMMA SwapCostFacts ==
    ASSUME occupiedTime \in [Qubits -> Nat], NEW p \in Qubits, NEW q \in Qubits
    PROVE  /\ SwapCost(p, q) \in Nat
           /\ occupiedTime[p] <= SwapCost(p, q)
           /\ occupiedTime[q] <= SwapCost(p, q)
  BY DEF SwapCost, Larger

\* One of the two ends moves by a SWAP.
LEMMA ApspSwapKeeps ==
    ASSUME TimesInv, ApspSwap
    PROVE  TimesInv'
<1>. USE DEF TimesInv
<1>1. PICK q \in Qubits, n \in Qubits :
        /\ ApplyGate(SwapOp(gate, q, n, SwapCost(q, n)))
        /\ front' \in Qubits \X Qubits
  <2>. DEFINE n0 == NextHop(front[1], ends[2])
              n1 == NextHop(front[2], ends[1])
  <2>1. front[1] \in Qubits /\ front[2] \in Qubits
    BY DEF RouterTypeOK
  <2>2. /\ n0 \in Qubits /\ n1 \in Qubits
        /\ \/ /\ ApplyGate(SwapOp(gate, front[1], n0, SwapCost(front[1], n0)))
              /\ front' = <<n0, front[2]>>
           \/ /\ ApplyGate(SwapOp(gate, front[2], n1, SwapCost(front[2], n1)))
              /\ front' = <<front[1], n1>>
    BY DEF ApspSwap
  <2>. HIDE DEF n0, n1
  <2>. QED
    BY <2>1, <2>2
<1>2. /\ phase = "walk"
      /\ UNCHANGED <<device, tables, config, logicalToPhysical, search, phase, gate,
                     ends, swapIds, pending>>
  BY DEF ApspSwap, deviceVars
<1>. DEFINE o == SwapOp(gate, q, n, SwapCost(q, n))
<1>3. /\ occupiedTime \in [Qubits -> Nat] /\ operations \in Seq(TimedOps)
      /\ logicalQubit \in [Qubits -> Qubits] /\ IsGate(gate)
  BY DEF RouterTypeOK
<1>4. /\ SwapCost(q, n) \in Nat
      /\ occupiedTime[q] <= SwapCost(q, n)
      /\ occupiedTime[n] <= SwapCost(q, n)
  BY <1>3, SwapCostFacts
<1>5. o \in TimedOps /\ On(o) = {q, n} /\ o.start = SwapCost(q, n)
  BY <1>3, <1>4, SwapOpType
<1>6. /\ logicalQubit' = LabelsAfter(o)
      /\ occupiedTime' = [p \in Qubits |-> IF p \in On(o) THEN o.end ELSE occupiedTime[p]]
      /\ operations' = Append(operations, o)
  BY <1>1 DEF ApplyGate
<1>. HIDE DEF o
<1>7. \A p \in Qubits : p \in On(o) => occupiedTime[p] <= o.start
  BY <1>4, <1>5
<1>8. /\ occupiedTime' \in [Qubits -> Nat]
      /\ operations' \in Seq(TimedOps)
      /\ NoOverlap'
      /\ Occupied'
  BY <1>3, <1>5, <1>6, <1>7, ApplyKeeps
<1>9. /\ logicalQubit' \in [Qubits -> Qubits]
      /\ \A p1, p2 \in Qubits : logicalQubit'[p1] = logicalQubit'[p2] => p1 = p2
      /\ \A l \in Qubits : \E p \in Qubits : logicalQubit'[p] = l
  <2>1. /\ LabelsAfter(o) \in [Qubits -> Qubits]
        /\ \A p1, p2 \in Qubits : LabelsAfter(o)[p1] = LabelsAfter(o)[p2] => p1 = p2
        /\ \A l \in Qubits : \E p \in Qubits : LabelsAfter(o)[p] = l
    BY <1>3, <1>5, LabelsFacts DEF PlacementConsistent
  <2>. QED
    BY <2>1, <1>6
<1>10. pending = {}
  BY <1>2 DEF PhasesOfRouters
<1>11. RouterTypeOK'
  BY <1>1, <1>2, <1>8, <1>9 DEF RouterTypeOK
<1>12. PlacementConsistent' /\ SearchForest' /\ SearchStartsFresh' /\ PendingFit'
       /\ TraceGoesBack' /\ PhasesOfRouters'
  BY <1>2, <1>9, <1>10 DEF PlacementConsistent, SearchForest, SearchStartsFresh,
       PendingFit, TraceGoesBack, PhasesOfRouters, Idle
<1>. QED
  BY <1>8, <1>11, <1>12

\* The gate is applied when the two ends are neighbours.
LEMMA ApspGateKeeps ==
    ASSUME TimesInv, ApspGate
    PROVE  TimesInv'
<1>. USE DEF TimesInv
<1>. DEFINE o == GateOp(gate, front, SwapCost(front[1], front[2]))
<1>1. /\ phase = "walk" /\ phase' = "idle"
      /\ ApplyGate(o)
      /\ logicalToPhysical' = FollowLabels(LabelsAfter(o))
      /\ UNCHANGED <<device, tables, config, search, gate, ends, front, swapIds, pending>>
  BY DEF ApspGate, deviceVars, routeVars
<1>2. PICK q \in Qubits, n \in Qubits : front = <<q, n>>
  BY DEF RouterTypeOK
<1>3. /\ occupiedTime \in [Qubits -> Nat] /\ operations \in Seq(TimedOps)
      /\ logicalQubit \in [Qubits -> Qubits] /\ IsGate(gate)
  BY DEF RouterTypeOK
<1>4. /\ SwapCost(q, n) \in Nat
      /\ occupiedTime[q] <= SwapCost(q, n)
      /\ occupiedTime[n] <= SwapCost(q, n)
  BY <1>3, SwapCostFacts
<1>5. o \in TimedOps /\ On(o) = {q, n} /\ o.start = SwapCost(q, n)
  <2>1. <<q, n>> \in Seq(Qubits) /\ Len(<<q, n>>) = 2 /\ ToSet(<<q, n>>) = {q, n}
    BY PairOn
  <2>2. o = GateOp(gate, <<q, n>>, SwapCost(q, n))
    BY <1>2
  <2>. HIDE DEF o
  <2>. QED
    BY <2>1, <2>2, <1>3, <1>4, GateOpType
<1>. HIDE DEF o
<1>6. /\ logicalQubit' = LabelsAfter(o)
      /\ occupiedTime' = [p \in Qubits |-> IF p \in On(o) THEN o.end ELSE occupiedTime[p]]
      /\ operations' = Append(operations, o)
  BY <1>1 DEF ApplyGate
<1>7. \A p \in Qubits : p \in On(o) => occupiedTime[p] <= o.start
  BY <1>4, <1>5
<1>8. /\ occupiedTime' \in [Qubits -> Nat]
      /\ operations' \in Seq(TimedOps)
      /\ NoOverlap'
      /\ Occupied'
  BY <1>3, <1>5, <1>6, <1>7, ApplyKeeps
<1>9. /\ LabelsAfter(o) \in [Qubits -> Qubits]
      /\ \A p1, p2 \in Qubits : LabelsAfter(o)[p1] = LabelsAfter(o)[p2] => p1 = p2
      /\ \A l \in Qubits : \E p \in Qubits : LabelsAfter(o)[p] = l
  BY <1>3, <1>5, LabelsFacts DEF PlacementConsistent
<1>10. /\ logicalToPhysical' \in [Qubits -> Qubits]
       /\ \A l \in Qubits : logicalQubit'[logicalToPhysical'[l]] = l
  BY <1>1, <1>6, <1>9, FollowFacts
<1>11. pending = {} /\ ~config.duostra
  BY <1>1 DEF PhasesOfRouters
<1>12. RouterTypeOK'
  BY <1>1, <1>6, <1>8, <1>9, <1>10 DEF RouterTypeOK
<1>13. PlacementConsistent'
  BY <1>6, <1>9, <1>10 DEF PlacementConsistent
<1>14. SearchForest' /\ SearchStartsFresh' /\ PendingFit' /\ TraceGoesBack' /\ PhasesOfRouters'
  BY <1>1, <1>11 DEF SearchForest, SearchStartsFresh, PendingFit, TraceGoesBack,
                     PhasesOfRouters
<1>. QED
  BY <1>8, <1>12, <1>13, <1>14

\* Nothing changes.
LEMMA StutterKeeps ==
    ASSUME TimesInv, UNCHANGED routerVars
    PROVE  TimesInv'
<1>. USE DEF TimesInv, routerVars, deviceVars, routeVars
<1>1. RouterTypeOK'
  BY DEF RouterTypeOK
<1>2. SearchForest'
  BY DEF SearchForest, GrownFrom, Reaches
<1>3. PlacementConsistent' /\ NoOverlap' /\ Occupied' /\ SearchStartsFresh'
  BY DEF PlacementConsistent, NoOverlap, Occupied, On, SearchStartsFresh, Idle
<1>4. PendingFit' /\ TraceGoesBack' /\ PhasesOfRouters'
  BY DEF PendingFit, InTurn, On, TraceGoesBack, PhasesOfRouters
<1>. QED
  BY <1>1, <1>2, <1>3, <1>4

-----------------------------------------------------------------------------
(* The tables                                                              *)

\* The predecessors that tables may name, for the device dev
Hops(dev, tab) ==
    /\ tab.pred \in [Qubits -> [Qubits -> Qubits \cup {NoQubit}]]
    /\ \A i, j \in Qubits : tab.pred[i][j] \in Qubits => IsAdjacency(dev, tab.pred[i][j], j)

\* They are coupled in the tables of a fresh topology, ...
LEMMA InitHops == ASSUME NEW dev, IsDevice(dev) PROVE Hops(dev, InitTables(dev))
<1>1. InitTables(dev).pred = [i \in Qubits |-> [j \in Qubits |->
                                 IF IsAdjacency(dev, i, j) THEN i ELSE NoQubit]]
  BY DEF InitTables
<1>2. NoQubit \notin Qubits
  BY NumQubitsAssumption DEF NoQubit, Qubits
<1>. QED
  BY <1>1, <1>2 DEF Hops

\* ... and every iteration of floyd_warshall keeps that.
LEMMA RelaxHops ==
    ASSUME NEW dev, NEW tab, NEW k \in Qubits, Hops(dev, tab)
    PROVE  Hops(dev, Relax(tab, k))
<1>. DEFINE shorter == {p \in Reaching(tab, k) :
                          tab.dist[p[1]][p[2]] > tab.dist[p[1]][k] + tab.dist[k][p[2]]}
<1>1. Relax(tab, k).pred = [i \in Qubits |-> [j \in Qubits |->
          IF <<i, j>> \in shorter THEN tab.pred[k][j] ELSE tab.pred[i][j]]]
  <2>1. Relax(tab, k) = Through(tab, k, shorter)
    BY DEF Relax
  <2>. HIDE DEF shorter
  <2>. QED
    BY <2>1 DEF Through
<1>. HIDE DEF shorter
<1>. QED
  BY <1>1 DEF Hops

\* So the tables of a device lead over coupled pairs.
LEMMA PathHops == ASSUME NEW dev, IsDevice(dev) PROVE Hops(dev, CalculatePath(dev))
<1>. DEFINE Tables(f) == [k \in 0 .. NumQubits |->
                            IF k = 0 THEN InitTables(dev) ELSE Relax(f[k - 1], k - 1)]
            after == CHOOSE f : f = Tables(f)
            Computed == {n \in Nat : n <= NumQubits =>
                          \E f : /\ f = [k \in 0 .. n |-> f[k]]
                                /\ f[0] = InitTables(dev)
                                /\ \A k \in 1 .. n : f[k] = Relax(f[k - 1], k - 1)}
<1>1. CalculatePath(dev) = after[NumQubits]
  BY DEF CalculatePath
<1>2. 0 \in Computed
  <2>. DEFINE f == [k \in 0 .. 0 |-> InitTables(dev)]
  <2>1. f = [k \in 0 .. 0 |-> f[k]] /\ f[0] = InitTables(dev)
    OBVIOUS
  <2>2. 1 .. 0 = {}
    OBVIOUS
  <2>. HIDE DEF f
  <2>3. \A k \in 1 .. 0 : f[k] = Relax(f[k - 1], k - 1)
    BY <2>2
  <2>. QED
    BY <2>1, <2>3
<1>3. ASSUME NEW n \in Nat, n \in Computed
      PROVE  n + 1 \in Computed
  <2>1. SUFFICES ASSUME n + 1 <= NumQubits
                 PROVE  \E g : /\ g = [k \in 0 .. n + 1 |-> g[k]]
                               /\ g[0] = InitTables(dev)
                               /\ \A k \in 1 .. n + 1 : g[k] = Relax(g[k - 1], k - 1)
    OBVIOUS
  <2>2. n <= NumQubits
    BY <2>1, NumQubitsAssumption
  <2>3. PICK f : /\ f[0] = InitTables(dev)
                 /\ \A k \in 1 .. n : f[k] = Relax(f[k - 1], k - 1)
    BY <1>3, <2>2
  <2>. DEFINE g == [k \in 0 .. n + 1 |-> IF k = n + 1 THEN Relax(f[n], n) ELSE f[k]]
  <2>4. g = [k \in 0 .. n + 1 |-> g[k]]
    OBVIOUS
  <2>5. g[0] = InitTables(dev)
    BY <2>3
  <2>6. \A k \in 0 .. n : g[k] = f[k]
    OBVIOUS
  <2>7. g[n + 1] = Relax(f[n], n)
    OBVIOUS
  <2>. HIDE DEF g
  <2>8. ASSUME NEW k \in 1 .. n + 1
        PROVE  g[k] = Relax(g[k - 1], k - 1)
    <3>1. CASE k = n + 1
      <4>1. k - 1 = n
        BY <3>1
      <4>. QED
        BY <3>1, <4>1, <2>6, <2>7
    <3>2. CASE k # n + 1
      <4>1. k \in 1 .. n /\ k - 1 \in 0 .. n /\ k \in 0 .. n
        BY <3>2
      <4>. QED
        BY <4>1, <2>3, <2>6
    <3>. QED
      BY <3>1, <3>2
  <2>. QED
    BY <2>4, <2>5, <2>8
<1>4. NumQubits \in Computed
  <2>1. Nat \subseteq Computed
    <3>. HIDE DEF Computed
    <3>. QED
      BY <1>2, <1>3, SetInduction
  <2>. QED
    BY <2>1, NumQubitsAssumption
<1>5. after = Tables(after)
  <2>1. PICK f : /\ f = [k \in 0 .. NumQubits |-> f[k]]
                 /\ f[0] = InitTables(dev)
                 /\ \A k \in 1 .. NumQubits : f[k] = Relax(f[k - 1], k - 1)
    BY <1>4, NumQubitsAssumption
  <2>2. \A k \in 0 .. NumQubits : k # 0 => k \in 1 .. NumQubits
    BY NumQubitsAssumption
  <2>3. \A k \in 0 .. NumQubits :
           f[k] = IF k = 0 THEN InitTables(dev) ELSE Relax(f[k - 1], k - 1)
    BY <2>1, <2>2
  <2>4. f = Tables(f)
    BY <2>1, <2>3, Zenon
  <2>. QED
    BY <2>4
<1>. DEFINE Kept == {n \in Nat : n <= NumQubits => Hops(dev, after[n])}
<1>6. after[0] = InitTables(dev) /\ \A n \in Qubits : after[n + 1] = Relax(after[n], n)
  <2>. HIDE DEF after
  <2>1. 0 \in 0 .. NumQubits /\ \A n \in Qubits : /\ n + 1 \in 0 .. NumQubits
                                                  /\ n + 1 # 0 /\ (n + 1) - 1 = n
    BY NumQubitsAssumption DEF Qubits
  <2>. QED
    BY <1>5, <2>1
<1>. HIDE DEF after
<1>7. 0 \in Kept
  BY <1>6, InitHops
<1>8. ASSUME NEW n \in Nat, n \in Kept PROVE n + 1 \in Kept
  <2>1. SUFFICES ASSUME n + 1 <= NumQubits PROVE Hops(dev, after[n + 1])
    OBVIOUS
  <2>2. n \in Qubits /\ n <= NumQubits
    BY <2>1, NumQubitsAssumption DEF Qubits
  <2>. QED
    BY <1>6, <1>8, <2>2, RelaxHops
<1>9. NumQubits \in Kept
  <2>1. Nat \subseteq Kept
    <3>. HIDE DEF Kept
    <3>. QED
      BY <1>7, <1>8, SetInduction
  <2>. QED
    BY <2>1, NumQubitsAssumption
<1>. QED
  BY <1>1, <1>9, NumQubitsAssumption

-----------------------------------------------------------------------------
(* The inductive invariant of the places                                   *)

\* A fresh router satisfies it.
LEMMA InitPlaces == RouterInit => PlacesInv
<1>. SUFFICES ASSUME RouterInit PROVE PlacesInv
  OBVIOUS
<1>1. operations = <<>> /\ pending = {} /\ phase = "idle" /\ device \in Devices
      /\ tables = CalculatePath(device)
  BY DEF RouterInit
<1>2. HopsAreCoupled
  <2>1. Hops(device, tables)
    BY <1>1, PathHops, RouterAssumption
  <2>. QED
    BY <2>1 DEF HopsAreCoupled, Hops
<1>3. OnCoupledPairs /\ PendingCoupled /\ EndsHoldGate /\ TreesStay
  BY <1>1 DEF OnCoupledPairs, PendingCoupled, EndsHoldGate, TreesStay
<1>4. ChainsLead /\ GateEndsChains
  BY <1>1 DEF ChainsLead, GateEndsChains
<1>. QED
  BY <1>2, <1>3, <1>4 DEF PlacesInv

\* An operation on a coupled pair, or on one qubit, is listed.
LEMMA AppendCoupled ==
    ASSUME operations \in Seq(TimedOps), OnCoupledPairs, NEW o \in TimedOps,
           Len(o.qubits) = 2 => IsAdjacency(device, o.qubits[1], o.qubits[2]),
           operations' = Append(operations, o), device' = device
    PROVE  OnCoupledPairs'
<1>1. \A i \in DOMAIN operations' :
          \/ operations'[i] = o
          \/ i \in DOMAIN operations /\ operations'[i] = operations[i]
  OBVIOUS
<1>. QED
  BY <1>1 DEF OnCoupledPairs

\* What an operation that waits says of its own fields
LEMMA SwapOpFields ==
    ASSUME NEW g, NEW a, NEW b, NEW start
    PROVE  /\ SwapOp(g, a, b, start).qubits = <<a, b>>
           /\ SwapOp(g, a, b, start).qubits[1] = a
           /\ SwapOp(g, a, b, start).qubits[2] = b
           /\ SwapOp(g, a, b, start).op = "swap"
           /\ SwapOp(g, a, b, start).start = start
           /\ SwapOp(g, a, b, start).routing
  BY DEF SwapOp

\* Where a search has met, the gate is what waits, and its two places are a coupled pair
\* with one qubit of each tree.
LEMMA MeetPlaces ==
    ASSUME device \in Devices, device' = device, NEW s \in Searches, search' = s,
           swapIds' \in BOOLEAN, NEW q0 \in s.taken, ~s.source[q0], NEW q1 \in s.taken,
           s.source[q1], IsAdjacency(device, q0, q1), Meet(s, q0, q1)
    PROVE  PendingCoupled' /\ ChainsLead' /\ GateEndsChains'
<1>. DEFINE qs == IF swapIds' THEN <<q1, q0>> ELSE <<q0, q1>>
<1>0. PICK o : o = MeetingGate(s, q0, q1)
  OBVIOUS
<1>1. q0 \in Qubits /\ q1 \in Qubits /\ s.cost[q0] \in Nat /\ s.cost[q1] \in Nat
      /\ s.source[q0] \in BOOLEAN /\ s.source[q1] \in BOOLEAN
  BY DEF Searches
<1>2. IsAdjacency(device, q1, q0)
  BY <1>1, CoupledPair
<1>3. /\ o.qubits = qs /\ o.op = gate'.op /\ o.id = gate'.id /\ ~o.routing
      /\ o.start = Larger(s.cost[q0], s.cost[q1])
  BY <1>0 DEF MeetingGate, GateOp
<1>4. /\ Len(qs) = 2
      /\ qs[1] = IF swapIds' THEN q1 ELSE q0
      /\ qs[2] = IF swapIds' THEN q0 ELSE q1
  OBVIOUS
<1>5. o.start >= s.cost[q0] /\ o.start >= s.cost[q1]
  BY <1>1, <1>3 DEF Larger
<1>6. /\ o.qubits[IF swapIds' THEN 3 - 1 ELSE 1] = q0
      /\ o.qubits[IF swapIds' THEN 3 - 2 ELSE 2] = q1
  BY <1>3, <1>4
<1>. HIDE DEF qs
<1>7. pending' = {o} /\ front' = <<q0, q1>> /\ phase' = "trace"
  BY <1>0 DEF Meet
<1>8. Entered' = {}
  BY <1>3, <1>7 DEF Entered
<1>9. PendingCoupled'
  BY <1>2, <1>3, <1>4, <1>7 DEF PendingCoupled, IsAdjacency, qs
<1>10. ChainsLead'
  <2>1. ASSUME NEW i \in {1, 2}, NEW c \in Qubits, Begins(i, c)'
        PROVE  /\ c \in search'.taken /\ search'.source[c] = (i = 2)
               /\ Meeting(o, i)' = c
    <3>1. CASE i = 1
      BY <3>1, <2>1, <1>1, <1>6, <1>7 DEF Begins, Meeting
    <3>2. CASE i = 2
      BY <3>2, <2>1, <1>1, <1>6, <1>7 DEF Begins, Meeting
    <3>. QED
      BY <3>1, <3>2
  <2>. QED
    BY <2>1, <1>3, <1>7, <1>8 DEF ChainsLead, Meeting
<1>11. GateEndsChains'
  <2>1. Meeting(o, 1)' = q0 /\ Meeting(o, 2)' = q1
    BY <1>6 DEF Meeting
  <2>2. \A i \in {1, 2} : /\ Meeting(o, i)' \in search'.taken
                          /\ search'.source[Meeting(o, i)'] = (i = 2)
                          /\ o.start >= search'.cost[Meeting(o, i)']
    BY <2>1, <1>1, <1>5
  <2>3. Len(o.qubits) = 2
    BY <1>3, <1>4
  <2>. QED
    BY <2>2, <2>3, <1>3, <1>7, <1>8 DEF GateEndsChains, Meeting
<1>. QED
  BY <1>9, <1>10, <1>11

\* While the trees grow they stay trees.
LEMMA GrownTrees ==
    ASSUME NEW s \in Searches, NEW e0 \in Qubits, NEW e1 \in Qubits, GrownFrom(s, e0, e1)
    PROVE  \A q \in s.taken \ {e0, e1} :
              /\ s.pred[q] \in s.taken
              /\ IsAdjacency(device, s.pred[q], q)
              /\ s.source[s.pred[q]] = s.source[q]
              /\ s.cost[q] = s.swapTime[q] + SwapDelay
              /\ s.cost[q] > s.cost[s.pred[q]]
<1>. SUFFICES ASSUME NEW q \in s.taken \ {e0, e1}
              PROVE  /\ s.pred[q] \in s.taken
                     /\ IsAdjacency(device, s.pred[q], q)
                     /\ s.source[s.pred[q]] = s.source[q]
                     /\ s.cost[q] = s.swapTime[q] + SwapDelay
                     /\ s.cost[q] > s.cost[s.pred[q]]
  OBVIOUS
<1>1. Reaches(s, s.pred[q], q, s.cost[q]) /\ s.cost[q] = s.swapTime[q] + SwapDelay
  BY DEF GrownFrom
<1>2. q \in Qubits /\ s.pred[q] \in Qubits /\ s.cost[q] \in Nat /\ s.cost[s.pred[q]] \in Nat
  BY DEF Searches
<1>. QED
  BY <1>1, <1>2 DEF Reaches, SwapDelay

LEMMA TreesGrow ==
    ASSUME TimesInv', phase' \in {"search", "trace"}, device' = device,
           occupiedTime' = occupiedTime
    PROVE  TreesStay'
<1>1. search' \in Searches /\ ends'[1] \in Qubits /\ ends'[2] \in Qubits
      /\ GrownFrom(search, ends[1], ends[2])'
  BY DEF TimesInv, RouterTypeOK, SearchForest
<1>2. GrownFrom(search', ends'[1], ends'[2])
  BY <1>1 DEF GrownFrom, Reaches
<1>3. ~search'.source[ends'[1]] /\ search'.source[ends'[2]]
  BY <1>2 DEF GrownFrom
<1>. QED
  BY <1>1, <1>2, <1>3, GrownTrees DEF TreesStay

\* Nothing waits, so nothing is said of what waits.
LEMMA NothingWaits ==
    ASSUME pending' = {}, phase' # "trace"
    PROVE  PendingCoupled' /\ ChainsLead' /\ GateEndsChains'
  BY DEF PendingCoupled, ChainsLead, GateEndsChains

\* What no call changes
LEMMA HopsStay ==
    ASSUME HopsAreCoupled, UNCHANGED <<device, tables>>
    PROVE  HopsAreCoupled'
  BY DEF HopsAreCoupled

\* The operation listed last
LEMMA LastListed ==
    ASSUME operations \in Seq(TimedOps), NEW o, operations' = Append(operations, o)
    PROVE  Last(operations') = o
  BY DEF Last

\* Nothing is listed.
LEMMA NothingListed ==
    ASSUME operations \in Seq(TimedOps), OnCoupledPairs, UNCHANGED <<device, operations>>
    PROVE  OnCoupledPairs' /\ AppliedWhereItIs
<1>1. OnCoupledPairs'
  BY DEF OnCoupledPairs
<1>2. Len(operations') = Len(operations) /\ ~(Len(operations) > Len(operations))
  <2>1. Len(operations) \in Nat
    OBVIOUS
  <2>. QED
    BY <2>1
<1>. QED
  BY <1>1, <1>2 DEF AppliedWhereItIs

\* A gate on one qubit is applied where its qubit is.
LEMMA ExecuteSinglePlaces ==
    ASSUME TimesInv, PlacesInv, NEW g, IsGate(g), ExecuteSingle(g)
    PROVE  PlacesInv' /\ AppliedWhereItIs
<1>1. PICK x \in Qubits : g.qubits = <<x>>
  BY DEF ExecuteSingle, IsGate
<1>. DEFINE q == logicalToPhysical[x]
            o == GateOp(g, <<q>>, occupiedTime[q])
<1>2. /\ operations' = Append(operations, o)
      /\ phase = "idle" /\ phase' = "idle" /\ gate' = g
      /\ device' = device /\ tables' = tables /\ pending' = pending
  BY <1>1 DEF ExecuteSingle, Idle, deviceVars
<1>3. q \in Qubits /\ occupiedTime[q] \in Nat /\ operations \in Seq(TimedOps)
      /\ logicalQubit[q] = x
  BY <1>2 DEF TimesInv, RouterTypeOK, PlacementConsistent, Idle
<1>4. o \in TimedOps /\ o.qubits = <<q>> /\ Len(o.qubits) = 1
  <2>1. <<q>> \in Seq(Qubits) /\ Len(<<q>>) = 1 /\ g.op # "swap"
    BY <1>1, <1>3, PairOn DEF IsGate
  <2>2. o.qubits = <<q>>
    BY DEF GateOp
  <2>. HIDE DEF q
  <2>. QED
    BY <2>1, <2>2, <1>3, GateOpType
<1>. HIDE DEF o
<1>5. OnCoupledPairs'
  BY <1>2, <1>3, <1>4, AppendCoupled DEF PlacesInv
<1>6. AppliedWhereItIs
  <2>1. Last(operations') = o
    BY <1>2, <1>3, LastListed
  <2>2. DOMAIN o.qubits = {1} /\ o.qubits[1] = q /\ gate'.qubits[1] = x
    BY <1>1, <1>2, <1>4
  <2>. QED
    BY <2>1, <2>2, <1>3 DEF AppliedWhereItIs
<1>7. pending' = {}
  BY <1>2 DEF TimesInv, PhasesOfRouters
<1>8. EndsHoldGate' /\ TreesStay'
  BY <1>2 DEF EndsHoldGate, TreesStay
<1>9. HopsAreCoupled'
  BY <1>2, HopsStay DEF PlacesInv
<1>. QED
  BY <1>2, <1>5, <1>6, <1>7, <1>8, <1>9, NothingWaits DEF PlacesInv

\* The end of duostra_routing
LEMMA FinishDuostraPlaces ==
    ASSUME TimesInv, PlacesInv, FinishDuostra
    PROVE  PlacesInv' /\ AppliedWhereItIs
<1>1. /\ pending' = {} /\ phase' = "idle"
      /\ device' = device /\ tables' = tables /\ operations' = operations
  BY DEF FinishDuostra, deviceVars
<1>2. EndsHoldGate' /\ TreesStay'
  BY <1>1 DEF EndsHoldGate, TreesStay
<1>. QED
  BY <1>1, <1>2, HopsStay, NothingListed, NothingWaits
     DEF PlacesInv, TimesInv, RouterTypeOK

\* The start of apsp_routing: the walkers stand on the qubits of the gate.
LEMMA ApspRoutingPlaces ==
    ASSUME TimesInv, PlacesInv, NEW g, IsGate(g), ApspRouting(g)
    PROVE  PlacesInv' /\ AppliedWhereItIs
<1>1. PICK x \in Qubits, y \in Qubits : g.qubits = <<x, y>>
  <2>1. Len(g.qubits) = 2
    BY DEF ApspRouting
  <2>. QED
    BY <2>1 DEF IsGate
<1>2. /\ phase = "idle" /\ phase' = "walk" /\ gate' = g
      /\ front' = <<logicalToPhysical[x], logicalToPhysical[y]>>
      /\ UNCHANGED <<device, tables, logicalQubit, pending, operations>>
  BY <1>1 DEF ApspRouting, Idle, deviceVars
<1>3. pending' = {}
  BY <1>2 DEF TimesInv, PhasesOfRouters
<1>4. EndsHoldGate'
  <2>1. logicalQubit[logicalToPhysical[x]] = x /\ logicalQubit[logicalToPhysical[y]] = y
    BY <1>2 DEF TimesInv, PlacementConsistent, Idle
  <2>2. \A i \in {1, 2} : logicalQubit'[front'[i]] = gate'.qubits[i]
    BY <2>1, <1>1, <1>2
  <2>. QED
    BY <2>2, <1>1, <1>2 DEF EndsHoldGate
<1>5. TreesStay'
  BY <1>2 DEF TreesStay
<1>. QED
  BY <1>2, <1>3, <1>4, <1>5, HopsStay, NothingListed, NothingWaits
     DEF PlacesInv, TimesInv, RouterTypeOK

\* The end of apsp_routing: the walkers are neighbours and hold the qubits of the gate.
LEMMA ApspGatePlaces ==
    ASSUME TimesInv, PlacesInv, ApspGate
    PROVE  PlacesInv' /\ AppliedWhereItIs
<1>1. PICK q \in Qubits, n \in Qubits : front = <<q, n>>
  BY DEF TimesInv, RouterTypeOK
<1>. DEFINE o == GateOp(gate, <<q, n>>, SwapCost(q, n))
<1>2. /\ phase = "walk" /\ phase' = "idle" /\ IsAdjacency(device, q, n)
      /\ ApplyGate(o)
      /\ UNCHANGED <<device, tables, gate, pending>>
  BY <1>1 DEF ApspGate, deviceVars, routeVars, FrontAdjacent
<1>3. o \in TimedOps /\ o.qubits = <<q, n>>
  <2>1. <<q, n>> \in Seq(Qubits) /\ Len(<<q, n>>) = 2
    BY PairOn
  <2>2. IsGate(gate) /\ SwapCost(q, n) \in Nat
    BY SwapCostFacts DEF TimesInv, RouterTypeOK
  <2>3. o.qubits = <<q, n>>
    BY DEF GateOp
  <2>. QED
    BY <2>1, <2>2, <2>3, GateOpType
<1>. HIDE DEF o
<1>4. operations' = Append(operations, o) /\ operations \in Seq(TimedOps)
  BY <1>2 DEF ApplyGate, TimesInv, RouterTypeOK
<1>5. OnCoupledPairs'
  BY <1>2, <1>3, <1>4, AppendCoupled DEF PlacesInv
<1>6. AppliedWhereItIs
  <2>1. Last(operations') = o
    BY <1>4, LastListed
  <2>2. logicalQubit[q] = gate.qubits[1] /\ logicalQubit[n] = gate.qubits[2]
    BY <1>1, <1>2 DEF PlacesInv, EndsHoldGate
  <2>3. DOMAIN o.qubits = {1, 2} /\ o.qubits[1] = q /\ o.qubits[2] = n
    BY <1>3
  <2>. QED
    BY <2>1, <2>2, <2>3, <1>2 DEF AppliedWhereItIs
<1>7. pending' = {}
  BY <1>2 DEF TimesInv, PhasesOfRouters
<1>8. EndsHoldGate' /\ TreesStay'
  BY <1>2 DEF EndsHoldGate, TreesStay
<1>. QED
  BY <1>2, <1>5, <1>6, <1>7, <1>8, HopsStay, NothingWaits DEF PlacesInv

\* What a SWAP does to the labels
LEMMA SwapLabels ==
    ASSUME logicalQubit \in [Qubits -> Qubits], NEW a \in Qubits, NEW b \in Qubits,
           NEW o, o.op = "swap", o.qubits[1] = a, o.qubits[2] = b
    PROVE  /\ LabelsAfter(o)[a] = logicalQubit[b]
           /\ LabelsAfter(o)[b] = logicalQubit[a]
           /\ \A q \in Qubits \ {a, b} : LabelsAfter(o)[q] = logicalQubit[q]
  BY DEF LabelsAfter

\* A gate on two qubits is on two different ones.
LEMMA TwoQubits ==
    ASSUME NEW g, IsGate(g), Len(g.qubits) = 2
    PROVE  g.qubits[1] \in Qubits /\ g.qubits[2] \in Qubits /\ g.qubits[1] # g.qubits[2]
  BY DEF IsGate

\* A walker takes its logical qubit with it, over a coupled pair and past the other one.
LEMMA WalkPlaces ==
    ASSUME TimesInv, PlacesInv, phase = "walk", ~FrontAdjacent,
           NEW q \in Qubits, NEW r \in Qubits, NEW n \in Qubits, NEW target \in Qubits,
           \/ front = <<q, r>> /\ front' = <<n, r>>
           \/ front = <<r, q>> /\ front' = <<r, n>>,
           n = NextHop(q, target), ApplyGate(SwapOp(gate, q, n, SwapCost(q, n))),
           UNCHANGED <<device, tables, search, phase, gate, pending>>
    PROVE  PlacesInv' /\ AppliedWhereItIs
<1>1. /\ device \in Devices /\ logicalQubit \in [Qubits -> Qubits] /\ IsGate(gate)
      /\ operations \in Seq(TimedOps) /\ occupiedTime \in [Qubits -> Nat]
  BY DEF TimesInv, RouterTypeOK
<1>2. IsAdjacency(device, n, q)
  BY DEF PlacesInv, HopsAreCoupled, NextHop
<1>3. IsAdjacency(device, q, n) /\ q # n
  BY <1>1, <1>2, CoupledPair
<1>4. r # n
  BY <1>2, <1>3 DEF FrontAdjacent
<1>5. PICK o : o = SwapOp(gate, q, n, SwapCost(q, n))
  OBVIOUS
<1>6. /\ o.qubits = <<q, n>> /\ o.qubits[1] = q /\ o.qubits[2] = n
      /\ o.op = "swap" /\ o.routing /\ o \in TimedOps
  <2>1. SwapCost(q, n) \in Nat
    BY <1>1, SwapCostFacts
  <2>2. o \in TimedOps
    BY <2>1, <1>1, <1>5, SwapOpType
  <2>. QED
    BY <2>2, <1>5, SwapOpFields
<1>7. logicalQubit' = LabelsAfter(o) /\ operations' = Append(operations, o)
  BY <1>5 DEF ApplyGate
<1>8. OnCoupledPairs'
  BY <1>1, <1>3, <1>6, <1>7, AppendCoupled DEF PlacesInv
<1>9. AppliedWhereItIs
  <2>1. Last(operations') = o
    BY <1>1, <1>7, LastListed
  <2>. QED
    BY <2>1, <1>6 DEF AppliedWhereItIs
<1>10. Len(gate.qubits) = 2 /\ \A i \in {1, 2} : logicalQubit[front[i]] = gate.qubits[i]
  BY DEF PlacesInv, EndsHoldGate
<1>11. q # r
  BY <1>1, <1>10, TwoQubits
<1>12. logicalQubit'[n] = logicalQubit[q] /\ logicalQubit'[r] = logicalQubit[r]
  <2>1. /\ LabelsAfter(o)[n] = logicalQubit[q]
        /\ \A x \in Qubits \ {q, n} : LabelsAfter(o)[x] = logicalQubit[x]
    BY <1>1, <1>6, SwapLabels
  <2>. QED
    BY <2>1, <1>4, <1>7, <1>11
<1>13. \A i \in {1, 2} : logicalQubit'[front'[i]] = gate.qubits[i]
  <2>1. CASE front = <<q, r>> /\ front' = <<n, r>>
    BY <2>1, <1>10, <1>12
  <2>2. CASE front = <<r, q>> /\ front' = <<r, n>>
    BY <2>2, <1>10, <1>12
  <2>. QED
    BY <2>1, <2>2
<1>14. EndsHoldGate'
  BY <1>10, <1>13 DEF EndsHoldGate
<1>15. TreesStay'
  BY DEF TreesStay
<1>16. pending' = {}
  BY DEF TimesInv, PhasesOfRouters
<1>. QED
  BY <1>8, <1>9, <1>14, <1>15, <1>16, HopsStay, NothingWaits DEF PlacesInv

LEMMA ApspSwapPlaces ==
    ASSUME TimesInv, PlacesInv, ApspSwap
    PROVE  PlacesInv' /\ AppliedWhereItIs
<1>1. PICK q0 \in Qubits, q1 \in Qubits : front = <<q0, q1>>
  BY DEF TimesInv, RouterTypeOK
<1>2. ends[1] \in Qubits /\ ends[2] \in Qubits
  BY DEF TimesInv, RouterTypeOK
<1>3. PICK n0, n1 : n0 = NextHop(q0, ends[2]) /\ n1 = NextHop(q1, ends[1])
  OBVIOUS
<1>4. /\ phase = "walk" /\ ~FrontAdjacent /\ n0 \in Qubits /\ n1 \in Qubits
      /\ \/ ApplyGate(SwapOp(gate, q0, n0, SwapCost(q0, n0))) /\ front' = <<n0, q1>>
         \/ ApplyGate(SwapOp(gate, q1, n1, SwapCost(q1, n1))) /\ front' = <<q0, n1>>
      /\ UNCHANGED <<device, tables, search, phase, gate, pending>>
  BY <1>1, <1>3 DEF ApspSwap, deviceVars
<1>. QED
  BY <1>1, <1>2, <1>3, <1>4, WalkPlaces

\* One SWAP more is listed: it comes before those that are listed of its chain.
LEMMA TraceBackPlaces ==
    ASSUME TimesInv, PlacesInv, TraceBack
    PROVE  PlacesInv' /\ AppliedWhereItIs
<1>0. PICK i \in {1, 2} :
        /\ phase = "trace" /\ front[i] # ends[i]
        /\ pending' = pending \cup {SwapOp(gate, front[i], search.pred[front[i]],
                                          search.swapTime[front[i]])}
        /\ front' = [front EXCEPT ![i] = search.pred[front[i]]]
        /\ UNCHANGED <<device, tables, occupiedTime, logicalQubit, search, phase, gate, ends,
                       swapIds, operations>>
  BY DEF TraceBack, deviceVars
<1>1. PICK q, p, o :
        /\ q = front[i] /\ p = search.pred[q]
        /\ o = SwapOp(gate, q, p, search.swapTime[q])
        /\ phase = "trace" /\ q # ends[i]
        /\ pending' = pending \cup {o}
        /\ front' = [front EXCEPT ![i] = p]
        /\ UNCHANGED <<device, tables, occupiedTime, logicalQubit, search, phase, gate, ends,
                       swapIds, operations>>
  BY <1>0
<1>2. /\ search \in Searches /\ device \in Devices /\ front \in Qubits \X Qubits
      /\ ends[1] \in Qubits /\ ends[2] \in Qubits /\ operations \in Seq(TimedOps)
  BY DEF TimesInv, RouterTypeOK
<1>3. /\ ChainsLead /\ GateEndsChains /\ TreesStay /\ EndsHoldGate /\ PendingCoupled
      /\ GrownFrom(search, ends[1], ends[2])
  BY <1>1 DEF PlacesInv, TimesInv, SearchForest
<1>4. /\ q \in search.taken /\ q \in Qubits /\ search.source[q] = (i = 2)
      /\ \A x \in Entered : search.source[x] = (i = 2) =>
            search.cost[q] < search.cost[x] /\ search.pred[x] \in Entered \cup {q}
      /\ \A g \in pending : ~g.routing => Meeting(g, i) \in Entered \cup {q}
  <2>1. q \in Qubits /\ Begins(i, q)
    BY <1>1, <1>2 DEF Begins
  <2>. QED
    BY <2>1, <1>1, <1>3 DEF ChainsLead
<1>5. q \in search.taken \ {ends[1], ends[2]}
  <2>1. ~search.source[ends[1]] /\ search.source[ends[2]]
    BY <1>3 DEF GrownFrom
  <2>2. CASE i = 1
    BY <2>1, <2>2, <1>1, <1>4
  <2>3. CASE i = 2
    BY <2>1, <2>3, <1>1, <1>4
  <2>. QED
    BY <2>2, <2>3
<1>6. /\ p \in search.taken /\ p \in Qubits
      /\ search.source[p] = search.source[q]
      /\ search.cost[q] > search.cost[p]
      /\ IsAdjacency(device, p, q)
  <2>1. \A x \in search.taken \ {ends[1], ends[2]} :
           /\ search.pred[x] \in search.taken
           /\ IsAdjacency(device, search.pred[x], x)
           /\ search.source[search.pred[x]] = search.source[x]
           /\ search.cost[x] > search.cost[search.pred[x]]
    BY <1>2, <1>3, GrownTrees
  <2>2. search.taken \subseteq Qubits
    BY <1>2 DEF Searches
  <2>. QED
    BY <2>1, <2>2, <1>1, <1>5
<1>7. /\ o.qubits = <<q, p>> /\ o.qubits[1] = q /\ o.qubits[2] = p /\ o.routing
  BY <1>1, SwapOpFields
<1>8. PendingCoupled'
  <2>1. IsAdjacency(device, q, p)
    BY <1>2, <1>4, <1>6, CoupledPair
  <2>. QED
    BY <2>1, <1>1, <1>3, <1>7 DEF PendingCoupled
<1>9. Entered' = Entered \cup {q}
  BY <1>1, <1>7 DEF Entered
<1>10. \A x \in Entered : /\ x \in search.taken \ {ends[1], ends[2]} /\ x \in Qubits
                          /\ search.cost[x] \in Nat
  <2>1. TAKE x \in Entered
  <2>2. PICK g \in pending : g.routing /\ x = g.qubits[1]
    BY DEF Entered
  <2>3. x \in search.taken \ {ends[1], ends[2]}
    <3>1. phase = "trace"
      BY <1>1
    <3>. QED
      BY <2>2, <3>1, <1>3 DEF ChainsLead
  <2>4. search.taken \subseteq Qubits /\ search.cost \in [Qubits -> Nat]
    BY <1>2 DEF Searches
  <2>. QED
    BY <2>3, <2>4
<1>11. /\ search.cost[q] \in Nat /\ search.cost[p] \in Nat
  BY <1>2, <1>4, <1>6 DEF Searches
<1>12. \A x \in Entered : search.pred[x] = p => x = q
  <2>1. SUFFICES ASSUME NEW x \in Entered, search.pred[x] = p, x # q PROVE FALSE
    OBVIOUS
  <2>2. search.source[x] = search.source[p]
    BY <2>1, <1>1, <1>3, <1>10 DEF TreesStay
  <2>3. search.cost[q] < search.cost[x] /\ p \in Entered \cup {q}
    BY <2>1, <2>2, <1>4, <1>6
  <2>4. p # q
    BY <1>6, <1>11
  <2>5. search.cost[q] < search.cost[p]
    BY <2>3, <2>4, <1>4, <1>6
  <2>. QED
    BY <2>5, <1>6, <1>11
<1>13. front'[i] = p /\ \A j \in {1, 2} : j # i => front'[j] = front[j]
  BY <1>1, <1>2
<1>14. ASSUME NEW j \in {1, 2}, NEW c, c = front'[j]
       PROVE  /\ c \in search.taken /\ search.source[c] = (j = 2)
              /\ \A x \in Entered' : search.source[x] = (j = 2) =>
                    /\ search.cost[c] < search.cost[x]
                    /\ search.pred[x] \in Entered' \cup {c}
              /\ \A g \in pending' : ~g.routing => Meeting(g, j) \in Entered' \cup {c}
  <2>1. CASE j = i
    <3>1. c = p
      BY <2>1, <1>13, <1>14
    <3>2. \A x \in Entered' : search.source[x] = (j = 2) =>
                    /\ search.cost[c] < search.cost[x]
                    /\ search.pred[x] \in Entered' \cup {c}
      <4>1. SUFFICES ASSUME NEW x \in Entered', search.source[x] = (j = 2)
                     PROVE  /\ search.cost[c] < search.cost[x]
                            /\ search.pred[x] \in Entered' \cup {c}
        OBVIOUS
      <4>2. CASE x = q
        BY <4>2, <3>1, <1>1, <1>6
      <4>3. CASE x \in Entered
        <5>1. search.cost[q] < search.cost[x] /\ search.pred[x] \in Entered \cup {q}
          BY <4>1, <4>3, <2>1, <1>4
        <5>2. search.cost[x] \in Nat
          BY <4>3, <1>10
        <5>. QED
          BY <5>1, <5>2, <3>1, <1>6, <1>9, <1>11
      <4>. QED
        BY <4>1, <4>2, <4>3, <1>9
    <3>3. \A g \in pending' : ~g.routing => Meeting(g, j) \in Entered' \cup {c}
      BY <2>1, <1>1, <1>4, <1>7, <1>9
    <3>. QED
      BY <3>1, <3>2, <3>3, <2>1, <1>4, <1>6
  <2>2. CASE j # i
    <3>1. c = front[j] /\ c \in Qubits
      BY <2>2, <1>2, <1>13, <1>14
    <3>2. /\ c \in search.taken /\ search.source[c] = (j = 2)
          /\ \A x \in Entered : search.source[x] = (j = 2) =>
                search.cost[c] < search.cost[x] /\ search.pred[x] \in Entered \cup {c}
          /\ \A g \in pending : ~g.routing => Meeting(g, j) \in Entered \cup {c}
      <4>1. Begins(j, c)
        BY <3>1, <1>1 DEF Begins
      <4>. QED
        BY <4>1, <3>1, <1>1, <1>3 DEF ChainsLead
    <3>3. search.source[q] # (j = 2)
      BY <2>2, <1>4
    <3>. QED
      BY <3>2, <3>3, <1>1, <1>7, <1>9
  <2>. QED
    BY <2>1, <2>2
<1>15. ChainsLead'
  <2>1. \A g \in pending' : g.routing =>
            /\ g.qubits[1] \in search.taken \ {ends[1], ends[2]}
            /\ g = SwapOp(gate, g.qubits[1], search.pred[g.qubits[1]],
                          search.swapTime[g.qubits[1]])
    BY <1>1, <1>3, <1>5, <1>7 DEF ChainsLead
  <2>2. \A x, y \in Entered' : search.pred[x] = search.pred[y] => x = y
    BY <1>1, <1>3, <1>9, <1>12 DEF ChainsLead
  <2>. QED
    BY <2>1, <2>2, <1>1, <1>14 DEF ChainsLead, Begins, Meeting
<1>16. GateEndsChains'
  <2>1. PICK g \in pending :
          /\ \A other \in pending : ~other.routing => other = g
          /\ g.op = gate.op /\ g.id = gate.id /\ ~g.routing /\ Len(g.qubits) = 2
          /\ \A j \in {1, 2} :
                /\ Meeting(g, j) \in search.taken
                /\ search.source[Meeting(g, j)] = (j = 2)
                /\ g.start >= search.cost[Meeting(g, j)]
                /\ \A x \in Entered : search.source[x] = (j = 2) =>
                      search.cost[x] <= search.cost[Meeting(g, j)]
    BY <1>1, <1>3 DEF GateEndsChains
  <2>2. search.cost[q] <= search.cost[Meeting(g, i)]
    <3>1. CASE Meeting(g, i) = q
      BY <3>1, <1>11
    <3>2. CASE Meeting(g, i) \in Entered
      <4>1. search.cost[q] < search.cost[Meeting(g, i)] /\ search.cost[Meeting(g, i)] \in Nat
        BY <3>2, <2>1, <1>4, <1>10
      <4>. QED
        BY <4>1, <1>11
    <3>. QED
      BY <3>1, <3>2, <2>1, <1>4
  <2>3. \A j \in {1, 2} : \A x \in Entered' : search.source[x] = (j = 2) =>
            search.cost[x] <= search.cost[Meeting(g, j)]
    BY <2>1, <2>2, <1>4, <1>9
  <2>4. \A j \in {1, 2} : Meeting(g, j)' = Meeting(g, j)
    BY <1>1 DEF Meeting
  <2>5. g \in pending' /\ \A other \in pending' : ~other.routing => other = g
    BY <2>1, <1>1, <1>7
  <2>. QED
    BY <2>1, <2>3, <2>4, <2>5, <1>1 DEF GateEndsChains
<1>17. TreesStay'
  BY <1>1, TraceBackKeeps, TreesGrow
<1>18. EndsHoldGate'
  BY <1>1, <1>3 DEF EndsHoldGate, Brought
<1>. QED
  BY <1>1, <1>2, <1>8, <1>15, <1>16, <1>17, <1>18, HopsStay, NothingListed DEF PlacesInv

\* Where a chain begins is one place, which holds the logical qubit that end brings.
LEMMA ChainBegins ==
    ASSUME TimesInv, PlacesInv, NEW i \in {1, 2},
           (phase = "trace" /\ front = ends) \/ phase = "apply"
    PROVE  \E c \in Qubits : Begins(i, c) /\ logicalQubit[c] = Brought(i)
<1>1. Brought(i) \in Qubits
  <2>1. IsGate(gate) /\ Len(gate.qubits) = 2 /\ swapIds \in BOOLEAN
    BY DEF TimesInv, RouterTypeOK, PlacesInv, EndsHoldGate
  <2>2. gate.qubits[1] \in Qubits /\ gate.qubits[2] \in Qubits
    BY <2>1, TwoQubits
  <2>3. 3 - i \in {1, 2}
    OBVIOUS
  <2>. QED
    BY <2>2, <2>3 DEF Brought
<1>2. CASE phase = "trace" /\ front = ends
  <2>1. ends[i] \in Qubits
    BY DEF TimesInv, RouterTypeOK
  <2>2. Begins(i, ends[i]) /\ logicalQubit[ends[i]] = Brought(i)
    BY <1>2 DEF Begins, PlacesInv, EndsHoldGate
  <2>. QED
    BY <2>1, <2>2
<1>3. CASE phase = "apply"
  <2>1. PICK c \in Qubits : logicalQubit[c] = Brought(i)
    BY <1>1 DEF TimesInv, PlacementConsistent
  <2>. QED
    BY <2>1, <1>3 DEF Begins
<1>. QED
  BY <1>2, <1>3

\* When the gate is the operation that starts first, no SWAP waits: the chains have
\* brought its qubits to where it is.
LEMMA GateIsLast ==
    ASSUME TimesInv, PlacesInv, NEW o \in pending, ~o.routing,
           \A other \in pending : o.start <= other.start
    PROVE  Entered = {} /\ pending = {o}
<1>1. /\ ChainsLead /\ GateEndsChains /\ TreesStay /\ search \in Searches
      /\ phase \in {"trace", "apply"} /\ pending \subseteq TimedOps
  BY DEF PlacesInv, TimesInv, RouterTypeOK, PhasesOfRouters
<1>2. /\ \A other \in pending : ~other.routing => other = o
      /\ \A i \in {1, 2} :
            /\ Meeting(o, i) \in search.taken
            /\ o.start >= search.cost[Meeting(o, i)]
            /\ \A x \in Entered : search.source[x] = (i = 2) =>
                  search.cost[x] <= search.cost[Meeting(o, i)]
  BY <1>1 DEF GateEndsChains
<1>3. \A s \in pending : ~s.routing
  <2>1. SUFFICES ASSUME NEW s \in pending, s.routing PROVE FALSE
    OBVIOUS
  <2>2. PICK x : x = s.qubits[1]
    OBVIOUS
  <2>3. /\ x \in search.taken \ {ends[1], ends[2]} /\ x \in Entered
        /\ s.start = search.swapTime[x]
    BY <2>1, <2>2, <1>1, SwapOpFields DEF ChainsLead, Entered
  <2>4. search.cost[x] = search.swapTime[x] + SwapDelay
    BY <2>3, <1>1 DEF TreesStay
  <2>5. PICK i \in {1, 2} : search.source[x] = (i = 2)
    <3>1. search.source[x] \in BOOLEAN
      BY <2>3, <1>1 DEF Searches
    <3>. QED
      BY <3>1
  <2>6. search.cost[x] <= search.cost[Meeting(o, i)] /\ o.start >= search.cost[Meeting(o, i)]
    BY <2>3, <2>5, <1>2
  <2>7. /\ search.cost[x] \in Nat /\ search.cost[Meeting(o, i)] \in Nat /\ o.start \in Nat
        /\ search.swapTime[x] \in Nat
    BY <2>3, <1>1, <1>2 DEF Searches, TimedOps
  <2>8. o.start <= search.swapTime[x]
    BY <2>3
  <2>. QED
    BY <2>4, <2>6, <2>7, <2>8 DEF SwapDelay
<1>. QED
  BY <1>2, <1>3 DEF Entered

\* The operation that starts first is applied where the chains begin: a SWAP brings the
\* qubit of its chain one place further.
LEMMA SwapMoves ==
    ASSUME TimesInv, PlacesInv, NEW o \in pending, o.routing,
           \A other \in pending : o.start <= other.start,
           NEW i \in {1, 2}, NEW c \in Qubits, Begins(i, c), search.source[o.qubits[1]] = (i = 2)
    PROVE  /\ o.qubits[2] = c
           /\ \A x \in Entered \ {o.qubits[1]} : search.source[x] = (i = 2) =>
                 /\ search.cost[o.qubits[1]] < search.cost[x]
                 /\ search.pred[x] \in Entered
           /\ \A g \in pending : ~g.routing => Meeting(g, i) \in Entered
<1>1. /\ ChainsLead /\ GateEndsChains /\ TreesStay /\ search \in Searches
      /\ phase \in {"trace", "apply"}
  BY DEF PlacesInv, TimesInv, RouterTypeOK, PhasesOfRouters
<1>2. PICK q, p : q = o.qubits[1] /\ p = search.pred[q]
  OBVIOUS
<1>3. /\ \A s \in pending : s.routing =>
            /\ s.qubits[1] \in search.taken \ {ends[1], ends[2]}
            /\ s.start = search.swapTime[s.qubits[1]]
            /\ s.qubits[2] = search.pred[s.qubits[1]]
      /\ q \in Entered /\ o.qubits[2] = p
  <2>1. \A s \in pending : s.routing =>
            /\ s.qubits[1] \in search.taken \ {ends[1], ends[2]}
            /\ s = SwapOp(gate, s.qubits[1], search.pred[s.qubits[1]],
                          search.swapTime[s.qubits[1]])
    BY <1>1 DEF ChainsLead
  <2>2. \A s \in pending : s.routing =>
            /\ s.qubits[1] \in search.taken \ {ends[1], ends[2]}
            /\ s.start = search.swapTime[s.qubits[1]]
            /\ s.qubits[2] = search.pred[s.qubits[1]]
    BY <2>1, SwapOpFields
  <2>3. q \in Entered
    BY <1>2 DEF Entered
  <2>. QED
    BY <2>2, <2>3, <1>2
<1>4. \A x \in Entered : /\ x \in search.taken \ {ends[1], ends[2]}
                         /\ search.pred[x] \in search.taken
                         /\ search.source[search.pred[x]] = search.source[x]
                         /\ search.cost[x] > search.cost[search.pred[x]]
                         /\ search.cost[x] \in Nat /\ search.cost[search.pred[x]] \in Nat
  <2>1. \A x \in Entered : x \in search.taken \ {ends[1], ends[2]} /\ x \in Qubits
    BY <1>1, <1>3 DEF Entered, Searches
  <2>. QED
    BY <2>1, <1>1 DEF TreesStay, Searches
<1>5. \A x \in Entered : search.cost[q] <= search.cost[x]
  <2>1. TAKE x \in Entered
  <2>2. PICK s \in pending : s.routing /\ s.qubits[1] = x
    BY DEF Entered
  <2>3. search.swapTime[q] <= search.swapTime[x]
    BY <2>2, <1>2, <1>3
  <2>4. /\ search.cost[q] = search.swapTime[q] + SwapDelay
        /\ search.cost[x] = search.swapTime[x] + SwapDelay
    BY <1>1, <1>3, <1>4 DEF TreesStay
  <2>5. search.swapTime[q] \in Nat /\ search.swapTime[x] \in Nat
    BY <1>1, <1>3, <1>4 DEF Searches
  <2>. QED
    BY <2>3, <2>4, <2>5 DEF SwapDelay
<1>6. /\ \A x \in Entered : search.source[x] = (i = 2) => search.pred[x] \in Entered \cup {c}
      /\ \A g \in pending : ~g.routing => Meeting(g, i) \in Entered \cup {c}
      /\ \A x, y \in Entered : search.pred[x] = search.pred[y] => x = y
  BY <1>1 DEF ChainsLead
<1>7. p \notin Entered
  <2>1. search.cost[q] > search.cost[p] /\ search.cost[q] \in Nat /\ search.cost[p] \in Nat
    BY <1>2, <1>3, <1>4
  <2>. QED
    BY <2>1, <1>5
<1>8. p = c
  BY <1>2, <1>3, <1>6, <1>7
<1>9. ASSUME NEW x \in Entered, x # q, search.source[x] = (i = 2)
      PROVE  search.cost[q] < search.cost[x] /\ search.pred[x] \in Entered
  <2>1. search.pred[x] # c
    BY <1>2, <1>3, <1>6, <1>8, <1>9
  <2>2. search.pred[x] \in Entered
    BY <2>1, <1>6, <1>9
  <2>3. /\ search.cost[q] <= search.cost[search.pred[x]]
        /\ search.cost[search.pred[x]] < search.cost[x]
        /\ search.cost[q] \in Nat /\ search.cost[x] \in Nat
        /\ search.cost[search.pred[x]] \in Nat
    BY <2>2, <1>3, <1>4, <1>5
  <2>. QED
    BY <2>2, <2>3
<1>10. ASSUME NEW g \in pending, ~g.routing
       PROVE  Meeting(g, i) \in Entered
  <2>1. search.cost[q] <= search.cost[Meeting(g, i)]
    BY <1>1, <1>2, <1>3, <1>10 DEF GateEndsChains
  <2>2. search.cost[q] > search.cost[c] /\ search.cost[q] \in Nat /\ search.cost[c] \in Nat
    BY <1>2, <1>3, <1>4, <1>8
  <2>3. Meeting(g, i) # c
    BY <2>1, <2>2
  <2>. QED
    BY <2>3, <1>6, <1>10
<1>. QED
  BY <1>2, <1>3, <1>8, <1>9, <1>10

LEMMA ApplyInOrderPlaces ==
    ASSUME TimesInv, PlacesInv, ApplyInOrder
    PROVE  PlacesInv' /\ AppliedWhereItIs
<1>1. PICK o \in pending :
        /\ (phase = "trace" /\ front = ends) \/ phase = "apply"
        /\ \A other \in pending : o.start <= other.start
        /\ ApplyGate(o)
        /\ pending' = pending \ {o}
        /\ phase' = "apply"
        /\ UNCHANGED <<device, tables, search, gate, ends, front, swapIds>>
  BY DEF ApplyInOrder, deviceVars, routeVars
<1>2. /\ search \in Searches /\ device \in Devices /\ operations \in Seq(TimedOps)
      /\ logicalQubit \in [Qubits -> Qubits] /\ o \in TimedOps /\ phase \in {"trace", "apply"}
  BY <1>1 DEF TimesInv, RouterTypeOK
<1>3. ChainsLead /\ GateEndsChains /\ TreesStay /\ EndsHoldGate /\ PendingCoupled
  BY DEF PlacesInv
<1>4. logicalQubit' = LabelsAfter(o) /\ operations' = Append(operations, o)
  BY <1>1 DEF ApplyGate
<1>5. OnCoupledPairs' /\ PendingCoupled' /\ EndsHoldGate' /\ TreesStay'
  <2>1. OnCoupledPairs'
    BY <1>1, <1>2, <1>3, <1>4, AppendCoupled DEF PlacesInv, PendingCoupled
  <2>2. PendingCoupled' /\ EndsHoldGate' /\ TreesStay'
    BY <1>1, <1>2, <1>3 DEF PendingCoupled, EndsHoldGate, TreesStay
  <2>. QED
    BY <2>1, <2>2
<1>6. Last(operations') = o
  BY <1>2, <1>4, LastListed
<1>7. PICK c1 \in Qubits, c2 \in Qubits :
        /\ Begins(1, c1) /\ logicalQubit[c1] = Brought(1)
        /\ Begins(2, c2) /\ logicalQubit[c2] = Brought(2)
  BY <1>1, ChainBegins
<1>8. CASE ~o.routing
  <2>1. Entered = {} /\ pending' = {}
    BY <1>1, <1>8, GateIsLast
  <2>2. Meeting(o, 1) = c1 /\ Meeting(o, 2) = c2 /\ Len(o.qubits) = 2
    BY <2>1, <1>2, <1>3, <1>7, <1>8 DEF ChainsLead, GateEndsChains
  <2>3. /\ logicalQubit[Meeting(o, 1)] = Brought(1) /\ logicalQubit[Meeting(o, 2)] = Brought(2)
    BY <2>2, <1>7
  <2>4. /\ logicalQubit[o.qubits[1]] = gate.qubits[1]
        /\ logicalQubit[o.qubits[2]] = gate.qubits[2]
    <3>1. CASE swapIds
      BY <3>1, <2>3 DEF Meeting, Brought
    <3>2. CASE ~swapIds
      BY <3>2, <2>3 DEF Meeting, Brought
    <3>. QED
      BY <3>1, <3>2
  <2>5. DOMAIN o.qubits = {1, 2}
    BY <2>2, <1>2 DEF TimedOps
  <2>6. AppliedWhereItIs
    BY <2>4, <2>5, <1>1, <1>6 DEF AppliedWhereItIs
  <2>. QED
    BY <2>1, <2>6, <1>1, <1>5, HopsStay, NothingWaits DEF PlacesInv
<1>9. CASE o.routing
  <2>1. PICK q, p : q = o.qubits[1] /\ p = search.pred[q]
    OBVIOUS
  <2>2. /\ q \in search.taken \ {ends[1], ends[2]} /\ q \in Qubits /\ p \in search.taken
        /\ p \in Qubits /\ search.source[p] = search.source[q]
        /\ o.qubits[2] = p /\ o.op = "swap" /\ q \in Entered
    <3>1. /\ q \in search.taken \ {ends[1], ends[2]}
          /\ o = SwapOp(gate, q, p, search.swapTime[q])
      BY <2>1, <1>2, <1>3, <1>9 DEF ChainsLead
    <3>2. o.qubits[2] = p /\ o.op = "swap"
      BY <3>1, SwapOpFields
    <3>3. q \in Entered
      BY <2>1, <1>9 DEF Entered
    <3>4. /\ p \in search.taken /\ search.source[p] = search.source[q]
          /\ search.taken \subseteq Qubits
      <4>1. \A x \in search.taken \ {ends[1], ends[2]} :
               /\ search.pred[x] \in search.taken
               /\ search.source[search.pred[x]] = search.source[x]
        BY <1>2, <1>3 DEF TreesStay
      <4>2. search.taken \subseteq Qubits
        BY <1>2 DEF Searches
      <4>3. q \in search.taken \ {ends[1], ends[2]}
        BY <3>1
      <4>. QED
        BY <4>1, <4>2, <4>3, <2>1
    <3>. QED
      BY <3>1, <3>2, <3>3, <3>4
  <2>3. Entered' = Entered \ {q}
    <3>1. \A s \in pending : s.routing /\ s.qubits[1] = q => s = o
      <4>1. SUFFICES ASSUME NEW s \in pending, s.routing, s.qubits[1] = q PROVE s = o
        OBVIOUS
      <4>2. /\ s = SwapOp(gate, q, search.pred[q], search.swapTime[q])
            /\ o = SwapOp(gate, q, search.pred[q], search.swapTime[q])
        BY <4>1, <2>1, <1>2, <1>3, <1>9 DEF ChainsLead
      <4>. QED
        BY <4>2
    <3>. QED
      BY <3>1, <2>1, <1>1, <1>9 DEF Entered
  <2>4. AppliedWhereItIs
    BY <1>6, <1>9 DEF AppliedWhereItIs
  <2>5. /\ logicalQubit'[q] = logicalQubit[p]
        /\ \A x \in Qubits \ {q, p} : logicalQubit'[x] = logicalQubit[x]
    BY <2>1, <2>2, <1>2, <1>4, SwapLabels
  <2>6. \A x, y \in Qubits : logicalQubit'[x] = logicalQubit'[y] => x = y
    BY ApplyInOrderKeeps DEF TimesInv, PlacementConsistent
  <2>7. ASSUME NEW i \in {1, 2}, NEW d \in Qubits, logicalQubit'[d] = Brought(i)
        PROVE  /\ d \in search.taken /\ search.source[d] = (i = 2)
               /\ \A x \in Entered' : search.source[x] = (i = 2) =>
                     /\ search.cost[d] < search.cost[x]
                     /\ search.pred[x] \in Entered' \cup {d}
               /\ \A g \in pending' : ~g.routing => Meeting(g, i) \in Entered' \cup {d}
    <3>1. PICK c \in Qubits : Begins(i, c) /\ logicalQubit[c] = Brought(i)
      BY <1>7
    <3>2. /\ c \in search.taken /\ search.source[c] = (i = 2)
          /\ \A x \in Entered : search.source[x] = (i = 2) =>
                search.cost[c] < search.cost[x] /\ search.pred[x] \in Entered \cup {c}
          /\ \A g \in pending : ~g.routing => Meeting(g, i) \in Entered \cup {c}
      BY <3>1, <1>2, <1>3 DEF ChainsLead
    <3>3. CASE search.source[q] = (i = 2)
      <4>1. /\ p = c
            /\ \A x \in Entered \ {q} : search.source[x] = (i = 2) =>
                  search.cost[q] < search.cost[x] /\ search.pred[x] \in Entered
            /\ \A g \in pending : ~g.routing => Meeting(g, i) \in Entered
        BY <3>1, <3>3, <2>1, <2>2, <1>1, <1>9, SwapMoves
      <4>2. d = q
        BY <4>1, <3>1, <2>2, <2>5, <2>6, <2>7
      <4>. QED
        BY <4>1, <4>2, <3>3, <2>2, <2>3, <1>1
    <3>4. CASE search.source[q] # (i = 2)
      <4>1. c # q /\ c # p
        BY <3>2, <3>4, <2>2
      <4>2. d = c
        BY <4>1, <3>1, <2>5, <2>6, <2>7
      <4>3. \A x \in Entered' : search.source[x] = (i = 2) =>
               search.cost[d] < search.cost[x] /\ search.pred[x] \in Entered' \cup {d}
        <5>1. TAKE x \in Entered'
        <5>2. HAVE search.source[x] = (i = 2)
        <5>3. x \in Entered
          BY <2>3
        <5>4. search.source[search.pred[x]] = search.source[x]
          BY <5>3, <1>2, <1>3 DEF ChainsLead, Entered, TreesStay
        <5>5. search.pred[x] # q
          BY <5>2, <5>4, <3>4
        <5>. QED
          BY <5>2, <5>3, <5>5, <4>2, <3>2, <2>3
      <4>4. \A g \in pending' : ~g.routing => Meeting(g, i) \in Entered' \cup {d}
        <5>1. TAKE g \in pending'
        <5>2. HAVE ~g.routing
        <5>3. g \in pending
          BY <1>1
        <5>4. search.source[Meeting(g, i)] = (i = 2)
          BY <5>2, <5>3, <1>2, <1>3 DEF GateEndsChains
        <5>5. Meeting(g, i) # q
          BY <5>4, <3>4
        <5>. QED
          BY <5>2, <5>3, <5>5, <4>2, <3>2, <2>3
      <4>. QED
        BY <4>2, <4>3, <4>4, <3>2
    <3>. QED
      BY <3>3, <3>4
  <2>8. ChainsLead'
    <3>1. \A s \in pending' : s.routing =>
              /\ s.qubits[1] \in search.taken \ {ends[1], ends[2]}
              /\ s = SwapOp(gate, s.qubits[1], search.pred[s.qubits[1]],
                            search.swapTime[s.qubits[1]])
      BY <1>1, <1>2, <1>3 DEF ChainsLead
    <3>2. \A x, y \in Entered' : search.pred[x] = search.pred[y] => x = y
      BY <2>3, <1>2, <1>3 DEF ChainsLead
    <3>3. \A i \in {1, 2} : Brought(i)' = Brought(i)
      BY <1>1 DEF Brought
    <3>. QED
      BY <3>1, <3>2, <3>3, <2>7, <1>1 DEF ChainsLead, Begins, Meeting
  <2>9. GateEndsChains'
    <3>1. PICK g \in pending :
            /\ \A other \in pending : ~other.routing => other = g
            /\ g.op = gate.op /\ g.id = gate.id /\ ~g.routing /\ Len(g.qubits) = 2
            /\ \A j \in {1, 2} :
                  /\ Meeting(g, j) \in search.taken
                  /\ search.source[Meeting(g, j)] = (j = 2)
                  /\ g.start >= search.cost[Meeting(g, j)]
                  /\ \A x \in Entered : search.source[x] = (j = 2) =>
                        search.cost[x] <= search.cost[Meeting(g, j)]
      BY <1>2, <1>3 DEF GateEndsChains
    <3>2. g \in pending' /\ \A other \in pending' : ~other.routing => other = g
      BY <3>1, <1>1, <1>9
    <3>3. \A j \in {1, 2} : Meeting(g, j)' = Meeting(g, j)
      BY <1>1 DEF Meeting
    <3>. QED
      BY <3>1, <3>2, <3>3, <2>3, <1>1 DEF GateEndsChains
  <2>. QED
    BY <2>4, <2>8, <2>9, <1>1, <1>5, HopsStay DEF PlacesInv
<1>. QED
  BY <1>8, <1>9

\* Nothing changes.
LEMMA StutterPlaces ==
    ASSUME TimesInv, PlacesInv, UNCHANGED routerVars
    PROVE  PlacesInv' /\ AppliedWhereItIs
<1>. USE DEF routerVars, deviceVars, routeVars
<1>1. HopsAreCoupled' /\ OnCoupledPairs' /\ AppliedWhereItIs
  BY HopsStay, NothingListed DEF PlacesInv, TimesInv, RouterTypeOK
<1>2. PendingCoupled' /\ EndsHoldGate' /\ TreesStay'
  BY DEF PlacesInv, PendingCoupled, EndsHoldGate, Brought, TreesStay
<1>3. ChainsLead' /\ GateEndsChains'
  BY DEF PlacesInv, ChainsLead, GateEndsChains, Begins, Brought, Entered, Meeting
<1>. QED
  BY <1>1, <1>2, <1>3 DEF PlacesInv

\* The search starts from where the qubits of the gate are; if these are neighbours it
\* has met at once.
LEMMA DuostraRoutingPlaces ==
    ASSUME TimesInv, PlacesInv, NEW g, IsGate(g), DuostraRouting(g)
    PROVE  PlacesInv' /\ AppliedWhereItIs
<1>1. PICK t0 \in Qubits, t1 \in Qubits, s \in Searches :
        /\ \A i \in {1, 2} : logicalQubit[<<t0, t1>>[i]] =
                             g.qubits[IF swapIds' THEN 3 - i ELSE i]
        /\ search' = s /\ GrownFrom(s, t0, t1)
        /\ \/ IsAdjacency(device, t0, t1) /\ Meet(s, t0, t1)
           \/ phase' = "search" /\ UNCHANGED pending
        /\ ends' = <<t0, t1>> /\ swapIds' \in BOOLEAN /\ gate' = g
        /\ Len(g.qubits) = 2 /\ pending = {}
        /\ UNCHANGED <<device, tables, occupiedTime, logicalQubit, operations>>
  BY SearchStarts
<1>2. device \in Devices /\ operations \in Seq(TimedOps)
  BY DEF TimesInv, RouterTypeOK
<1>3. phase' \in {"search", "trace"}
  BY <1>1 DEF Meet
<1>4. EndsHoldGate'
  BY <1>1, <1>3 DEF EndsHoldGate, Brought
<1>5. TreesStay'
  BY <1>1, <1>3, DuostraRoutingKeeps, TreesGrow
<1>6. PendingCoupled' /\ ChainsLead' /\ GateEndsChains'
  <2>1. CASE IsAdjacency(device, t0, t1) /\ Meet(s, t0, t1)
    <3>1. t0 \in s.taken /\ t1 \in s.taken /\ ~s.source[t0] /\ s.source[t1]
      BY <1>1 DEF GrownFrom
    <3>. QED
      BY <2>1, <3>1, <1>1, <1>2, MeetPlaces
  <2>2. CASE phase' = "search" /\ UNCHANGED pending
    BY <2>2, <1>1, NothingWaits
  <2>. QED
    BY <2>1, <2>2, <1>1
<1>. QED
  BY <1>1, <1>2, <1>4, <1>5, <1>6, HopsStay, NothingListed DEF PlacesInv

\* Where a search meets the other one, the two are coupled and of one tree each.
LEMMA PropagatePlaces ==
    ASSUME TimesInv, PlacesInv, Propagate
    PROVE  PlacesInv' /\ AppliedWhereItIs
<1>1. PICK s \in Searches, q0 \in Qubits, q1 \in Qubits :
        /\ search' = s
        /\ \/ /\ Meet(s, q0, q1) /\ IsAdjacency(device, q0, q1)
              /\ q0 \in s.taken /\ ~s.source[q0] /\ q1 \in s.taken /\ s.source[q1]
           \/ UNCHANGED <<phase, front, pending>>
        /\ phase = "search" /\ pending = {}
        /\ UNCHANGED <<device, tables, occupiedTime, logicalQubit, operations, gate, ends,
                       swapIds>>
  BY SearchGrows
<1>2. device \in Devices /\ operations \in Seq(TimedOps) /\ swapIds' \in BOOLEAN
  BY <1>1 DEF TimesInv, RouterTypeOK
<1>3. phase' \in {"search", "trace"}
  BY <1>1 DEF Meet
<1>4. TreesStay'
  BY <1>1, <1>3, PropagateKeeps, TreesGrow
<1>5. EndsHoldGate'
  BY <1>1, <1>3 DEF PlacesInv, EndsHoldGate, Brought
<1>6. PendingCoupled' /\ ChainsLead' /\ GateEndsChains'
  BY <1>1, <1>2, MeetPlaces, NothingWaits
<1>. QED
  BY <1>1, <1>2, <1>4, <1>5, <1>6, HopsStay, NothingListed DEF PlacesInv

-----------------------------------------------------------------------------
(* The steps of a router, one by one                                       *)

\* What Router::assign_gate starts with keeps the invariant.
LEMMA AssignGateKeeps ==
    ASSUME RouterInv, NEW g, IsGate(g), AssignGate(g)
    PROVE  RouterInv' /\ AppliedWhereItIs
  BY ExecuteSingleKeeps, DuostraRoutingKeeps, ApspRoutingKeeps, ExecuteSinglePlaces,
     DuostraRoutingPlaces, ApspRoutingPlaces DEF AssignGate, RouterInv

\* So does every step of its loops.
LEMMA RouteStepKeeps ==
    ASSUME RouterInv, RouteStep
    PROVE  RouterInv' /\ AppliedWhereItIs
<1>1. TimesInv /\ PlacesInv
  BY DEF RouterInv
<1>2. TimesInv'
  BY <1>1, PropagateKeeps, TraceBackKeeps, ApplyInOrderKeeps, FinishDuostraKeeps,
     ApspSwapKeeps, ApspGateKeeps DEF RouteStep
<1>3. PlacesInv' /\ AppliedWhereItIs
  BY <1>1, PropagatePlaces, TraceBackPlaces, ApplyInOrderPlaces, FinishDuostraPlaces,
     ApspSwapPlaces, ApspGatePlaces DEF RouteStep
<1>. QED
  BY <1>2, <1>3 DEF RouterInv

\* A step of somebody else does not matter.
LEMMA RestKeeps ==
    ASSUME RouterInv, UNCHANGED routerVars
    PROVE  RouterInv' /\ AppliedWhereItIs
  BY StutterKeeps, StutterPlaces DEF RouterInv

\* A placed device satisfies the invariant.
LEMMA InitKeeps == RouterInit => RouterInv
  BY InitTimes, InitPlaces DEF RouterInv

-----------------------------------------------------------------------------
(* What a step adds to the list of operations                              *)

\* The call has listed its gate.
Finished == Idle \/ (phase = "apply" /\ pending = {})

\* The operation o is listed: it waits until its qubits are free.
Lists(o) ==
    /\ o \in TimedOps
    /\ logicalQubit' = LabelsAfter(o)
    /\ occupiedTime' = [q \in Qubits |-> IF q \in On(o) THEN o.end ELSE occupiedTime[q]]
    /\ operations' = Append(operations, o)
    /\ \A q \in On(o) : occupiedTime[q] <= o.start

ListsNothing == UNCHANGED <<operations, logicalQubit, occupiedTime>>

\* It is a SWAP to bring the qubits of a gate together, or it is the gate g.
IsRouting(o) == o.routing /\ o.op = "swap" /\ Len(o.qubits) = 2
IsFor(o, g) == ~o.routing /\ o.id = g.id /\ o.op = g.op /\ Len(o.qubits) = Len(g.qubits)

\* One of the qubits that it moves is a qubit of the gate g, another one is not.
MovesOneOf(o, g) == \E p, q \in On(o) : /\ logicalQubit[p] \in ToSet(g.qubits)
                                        /\ logicalQubit[q] \notin ToSet(g.qubits)

\* The operations on two qubits of which only one holds a qubit of the gate
LEMMA OneMoves ==
    ASSUME RouterInv, NEW o, NEW a \in Qubits, NEW b \in Qubits, On(o) = {a, b},
           Len(gate.qubits) = 2, NEW i \in {1, 2}, logicalQubit[a] = gate.qubits[i],
           logicalQubit[b] # gate.qubits[3 - i], a # b
    PROVE  MovesOneOf(o, gate)
<1>1. IsGate(gate) /\ \A p, q \in Qubits : logicalQubit[p] = logicalQubit[q] => p = q
  BY DEF RouterInv, TimesInv, RouterTypeOK, PlacementConsistent
<1>2. ToSet(gate.qubits) = {gate.qubits[i], gate.qubits[3 - i]}
  <2>1. PICK x, y : gate.qubits = <<x, y>>
    BY <1>1 DEF IsGate
  <2>2. ToSet(gate.qubits) = {x, y}
    BY <2>1 DEF ToSet
  <2>3. i = 1 \/ i = 2
    OBVIOUS
  <2>. QED
    BY <2>1, <2>2, <2>3
<1>3. logicalQubit[b] # gate.qubits[i]
  BY <1>1
<1>. QED
  BY <1>2, <1>3 DEF MovesOneOf

\* The gate on one qubit is listed at once, one on two qubits later.
LEMMA AssignGateLists ==
    ASSUME RouterInv, NEW g, IsGate(g), AssignGate(g)
    PROVE  /\ UNCHANGED <<device, tables, config>> /\ gate' = g
           /\ \/ ListsNothing /\ ~Finished'
              \/ \E o : Lists(o) /\ IsFor(o, g) /\ Finished'
<1>1. RouterTypeOK
  BY DEF RouterInv, TimesInv
<1>2. CASE ExecuteSingle(g)
  <2>1. PICK q : q = logicalToPhysical[g.qubits[1]]
    OBVIOUS
  <2>2. PICK o : o = GateOp(g, <<q>>, occupiedTime[q])
    OBVIOUS
  <2>3. q \in Qubits /\ g.op # "swap" /\ occupiedTime[q] \in Nat /\ Len(g.qubits) = 1
    BY <1>1, <1>2, <2>1 DEF ExecuteSingle, IsGate, RouterTypeOK
  <2>4. /\ occupiedTime' = [occupiedTime EXCEPT ![q] = o.end]
        /\ operations' = Append(operations, o)
        /\ phase = "idle" /\ gate' = g
        /\ UNCHANGED <<device, tables, config, logicalQubit, phase>>
    BY <1>2, <2>1, <2>2 DEF ExecuteSingle, Idle, deviceVars
  <2>5. o \in TimedOps /\ On(o) = {q} /\ o.start = occupiedTime[q]
    <3>1. <<q>> \in Seq(Qubits) /\ Len(<<q>>) = 1 /\ ToSet(<<q>>) = {q}
      BY <2>3, PairOn
    <3>. QED
      BY <2>2, <2>3, <3>1, GateOpType
  <2>6. o.op = g.op /\ o.id = g.id /\ ~o.routing /\ o.qubits = <<q>>
    BY <2>2 DEF GateOp
  <2>7. occupiedTime' = [p \in Qubits |-> IF p \in On(o) THEN o.end ELSE occupiedTime[p]]
    BY <1>1, <2>3, <2>4, <2>5 DEF RouterTypeOK
  <2>8. \A p \in On(o) : occupiedTime[p] <= o.start
    BY <2>3, <2>5
  <2>9. Lists(o)
    BY <2>3, <2>4, <2>5, <2>6, <2>7, <2>8 DEF Lists, LabelsAfter
  <2>10. IsFor(o, g)
    BY <2>3, <2>6 DEF IsFor
  <2>. QED
    BY <2>4, <2>9, <2>10 DEF Finished, Idle
<1>3. CASE DuostraRouting(g)
  <2>1. /\ phase' \in {"search", "trace"} /\ gate' = g
        /\ UNCHANGED <<device, tables, config, occupiedTime, logicalQubit, operations>>
    BY <1>3 DEF DuostraRouting, Meet, deviceVars
  <2>. QED
    BY <2>1 DEF ListsNothing, Finished, Idle
<1>4. CASE ApspRouting(g)
  BY <1>4 DEF ApspRouting, deviceVars, ListsNothing, Finished, Idle
<1>. QED
  BY <1>2, <1>3, <1>4 DEF AssignGate

\* So it is with a SWAP of the chains that were searched: the other end's qubit is on its own
\* chain ...
LEMMA SwapBrings ==
    ASSUME RouterInv, NEW o \in pending, o.routing, IsRouting(o),
           \A other \in pending : o.start <= other.start,
           (phase = "trace" /\ front = ends) \/ phase = "apply"
    PROVE  MovesOneOf(o, gate)
<1>1. TimesInv /\ PlacesInv
  BY DEF RouterInv
<1>2. /\ ChainsLead /\ TreesStay /\ search \in Searches /\ o \in TimedOps
      /\ device \in Devices /\ PendingCoupled /\ phase # "idle" /\ IsGate(gate)
      /\ swapIds \in BOOLEAN
  BY <1>1 DEF PlacesInv, TimesInv, RouterTypeOK
<1>3. PICK q, p : q = o.qubits[1] /\ p = o.qubits[2]
  OBVIOUS
<1>4. q \in Qubits /\ p \in Qubits /\ On(o) = {q, p} /\ q # p
  <2>1. o.qubits \in Seq(Qubits) /\ Len(o.qubits) = 2
    BY <1>2 DEF TimedOps, IsRouting
  <2>2. q \in Qubits /\ p \in Qubits /\ On(o) = {q, p}
    BY <1>3, <2>1 DEF On, ToSet
  <2>3. IsAdjacency(device, q, p)
    BY <1>2, <1>3, <2>1 DEF PendingCoupled
  <2>. QED
    BY <1>2, <2>2, <2>3, CoupledPair
<1>5. q \in search.taken \ {ends[1], ends[2]} /\ p = search.pred[q]
  <2>1. PICK r, t : r = search.pred[q] /\ t = search.swapTime[q]
    OBVIOUS
  <2>2. q \in search.taken \ {ends[1], ends[2]} /\ o = SwapOp(gate, q, r, t)
    BY <1>2, <1>3, <2>1 DEF ChainsLead
  <2>3. o.qubits[2] = r
    BY <2>2, SwapOpFields
  <2>4. p = search.pred[q]
    BY <1>3, <2>1, <2>3
  <2>. QED
    BY <2>2, <2>4
<1>6. PICK i \in {1, 2} : search.source[q] = (i = 2)
  <2>1. search.source[q] \in BOOLEAN
    BY <1>2, <1>4 DEF Searches
  <2>. QED
    BY <2>1
<1>7. 3 - i \in {1, 2} /\ search.source[q] # (3 - i = 2)
  BY <1>6
<1>8. PICK c \in Qubits : Begins(i, c) /\ logicalQubit[c] = Brought(i)
  BY <1>1, ChainBegins
<1>9. PICK d \in Qubits : Begins(3 - i, d) /\ logicalQubit[d] = Brought(3 - i)
  BY <1>1, <1>7, ChainBegins
<1>10. p = c
  BY <1>1, <1>3, <1>6, <1>8, SwapMoves
<1>11. search.source[d] = (3 - i = 2)
  BY <1>2, <1>7, <1>9 DEF ChainsLead
<1>12. d # q
  BY <1>7, <1>11
<1>13. logicalQubit[q] # Brought(3 - i)
  BY <1>1, <1>4, <1>9, <1>12 DEF TimesInv, PlacementConsistent
<1>14. Len(gate.qubits) = 2
  BY <1>1, <1>2 DEF PlacesInv, EndsHoldGate
<1>15. PICK j \in {1, 2} : Brought(i) = gate.qubits[j] /\ Brought(3 - i) = gate.qubits[3 - j]
  <2>1. i = 1 \/ i = 2
    OBVIOUS
  <2>. QED
    BY <2>1, <1>2 DEF Brought
<1>. QED
  BY <1>4, <1>8, <1>10, <1>13, <1>14, <1>15, OneMoves

\* ... and with one of a walker, which passes the other one by.
LEMMA WalkBrings ==
    ASSUME RouterInv, phase = "walk", ~FrontAdjacent, NEW i \in {1, 2},
           NEW q \in Qubits, q = front[i], NEW n \in Qubits, NEW target \in Qubits,
           n = NextHop(q, target), NEW o, On(o) = {q, n}
    PROVE  MovesOneOf(o, gate)
<1>1. /\ front[1] \in Qubits /\ front[2] \in Qubits /\ device \in Devices
      /\ \A x, y \in Qubits : logicalQubit[x] = logicalQubit[y] => x = y
  BY DEF RouterInv, TimesInv, RouterTypeOK, PlacementConsistent
<1>2. /\ Len(gate.qubits) = 2
      /\ logicalQubit[front[1]] = gate.qubits[1] /\ logicalQubit[front[2]] = gate.qubits[2]
  BY DEF RouterInv, PlacesInv, EndsHoldGate
<1>3. IsAdjacency(device, n, q)
  BY DEF RouterInv, PlacesInv, HopsAreCoupled, NextHop
<1>4. IsAdjacency(device, q, n) /\ q # n
  BY <1>1, <1>3, CoupledPair
<1>5. n # front[3 - i] /\ 3 - i \in {1, 2}
  <2>1. CASE i = 1
    BY <1>4, <2>1 DEF FrontAdjacent
  <2>2. CASE i = 2
    BY <1>3, <2>2 DEF FrontAdjacent
  <2>. QED
    BY <2>1, <2>2
<1>6. logicalQubit[n] # gate.qubits[3 - i] /\ logicalQubit[q] = gate.qubits[i]
  <2>1. CASE i = 1
    BY <1>1, <1>2, <1>5, <2>1
  <2>2. CASE i = 2
    BY <1>1, <1>2, <1>5, <2>2
  <2>. QED
    BY <2>1, <2>2
<1>. QED
  BY <1>2, <1>4, <1>6, OneMoves

\* Each step lists at most one operation, and the call's gate is the last one; the others
\* bring one of its qubits to the other one.
LEMMA RouteStepLists ==
    ASSUME RouterInv, RouteStep
    PROVE  /\ UNCHANGED <<device, tables, config, gate>> /\ ~Idle
           /\ \/ ListsNothing /\ (Finished <=> Finished')
              \/ /\ ~Finished
                 /\ \E o : Lists(o) /\ \/ IsRouting(o) /\ MovesOneOf(o, gate) /\ ~Finished'
                                       \/ IsFor(o, gate) /\ Finished'
<1>1. /\ TimesInv /\ PlacesInv /\ RouterTypeOK /\ occupiedTime \in [Qubits -> Nat]
      /\ IsGate(gate)
  BY DEF RouterInv, TimesInv, RouterTypeOK
<1>2. CASE Propagate
  <2>1. /\ phase = "search" /\ phase' \in {"search", "trace"}
        /\ UNCHANGED <<device, tables, config, gate, occupiedTime, logicalQubit, operations>>
    BY <1>2 DEF Propagate, Meet, deviceVars
  <2>. QED
    BY <2>1 DEF ListsNothing, Finished, Idle
<1>3. CASE TraceBack
  <2>1. /\ phase = "trace" /\ phase' = "trace"
        /\ UNCHANGED <<device, tables, config, gate, occupiedTime, logicalQubit, operations>>
    BY <1>3 DEF TraceBack, deviceVars
  <2>. QED
    BY <2>1 DEF ListsNothing, Finished, Idle
<1>4. CASE ApplyInOrder
  <2>1. PICK o \in pending :
        /\ (phase = "trace" /\ front = ends) \/ phase = "apply"
        /\ \A other \in pending : o.start <= other.start
        /\ ApplyGate(o)
        /\ pending' = pending \ {o}
        /\ phase' = "apply"
        /\ UNCHANGED <<device, tables, config, search, gate, ends, front, swapIds>>
    BY <1>4 DEF ApplyInOrder, deviceVars, routeVars
  <2>2. \A q \in On(o) : occupiedTime[q] <= o.start
    <3>1. o \in TimedOps
      BY <1>1 DEF RouterTypeOK
    <3>. QED
      BY <1>1, <3>1, OnQubits DEF TimesInv, PendingFit
  <2>3. Lists(o)
    BY <1>1, <2>1, <2>2 DEF ApplyGate, RouterTypeOK, Lists
  <2>4. ~Finished /\ (Finished' <=> pending' = {})
    BY <2>1 DEF Finished, Idle
  <2>5. PICK last \in pending : /\ \A other \in pending : ~other.routing => other = last
                                /\ last.op = gate.op /\ last.id = gate.id
                                /\ ~last.routing /\ Len(last.qubits) = 2
    BY <1>1 DEF PlacesInv, GateEndsChains
  <2>6. CASE ~o.routing
    <3>1. pending' = {}
      BY <1>1, <2>1, <2>6, GateIsLast
    <3>2. Len(gate.qubits) = 2
      BY <1>1, <2>1 DEF PlacesInv, EndsHoldGate
    <3>3. IsFor(o, gate)
      BY <2>5, <2>6, <3>2 DEF IsFor
    <3>. QED
      BY <2>1, <2>3, <2>4, <3>1, <3>3 DEF Idle
  <2>7. CASE o.routing
    <3>1. last \in pending'
      BY <2>1, <2>5, <2>7
    <3>2. o = SwapOp(gate, o.qubits[1], search.pred[o.qubits[1]],
                     search.swapTime[o.qubits[1]])
      BY <1>1, <2>7 DEF PlacesInv, ChainsLead
    <3>3. IsRouting(o)
      <4>1. o.op = "swap"
        BY <3>2, SwapOpFields
      <4>2. Len(o.qubits) = 2
        BY <1>1, <4>1 DEF RouterTypeOK, TimedOps
      <4>. QED
        BY <2>7, <4>1, <4>2 DEF IsRouting
    <3>4. MovesOneOf(o, gate)
      BY <1>1, <2>1, <2>7, <3>2, <3>3, SwapBrings
    <3>. QED
      BY <2>1, <2>3, <2>4, <3>1, <3>3, <3>4 DEF Idle
  <2>. QED
    BY <2>6, <2>7
<1>5. CASE FinishDuostra
  BY <1>5 DEF FinishDuostra, deviceVars, routeVars, ListsNothing, Finished, Idle
<1>6. CASE ApspSwap
  <2>1. PICK q \in Qubits, n \in Qubits, i \in {1, 2}, target \in Qubits :
           /\ q = front[i] /\ n = NextHop(q, target)
           /\ ApplyGate(SwapOp(gate, q, n, SwapCost(q, n)))
    <3>1. PICK n0, n1 : n0 = NextHop(front[1], ends[2]) /\ n1 = NextHop(front[2], ends[1])
      OBVIOUS
    <3>2. front[1] \in Qubits /\ front[2] \in Qubits /\ ends[1] \in Qubits /\ ends[2] \in Qubits
      BY <1>1 DEF RouterTypeOK
    <3>3. /\ n0 \in Qubits /\ n1 \in Qubits
          /\ \/ ApplyGate(SwapOp(gate, front[1], n0, SwapCost(front[1], n0)))
             \/ ApplyGate(SwapOp(gate, front[2], n1, SwapCost(front[2], n1)))
      BY <1>6, <3>1 DEF ApspSwap
    <3>4. CASE ApplyGate(SwapOp(gate, front[1], n0, SwapCost(front[1], n0)))
      BY <3>1, <3>2, <3>3, <3>4
    <3>5. CASE ApplyGate(SwapOp(gate, front[2], n1, SwapCost(front[2], n1)))
      BY <3>1, <3>2, <3>3, <3>5
    <3>. QED
      BY <3>3, <3>4, <3>5
  <2>2. /\ phase = "walk" /\ phase' = "walk" /\ ~FrontAdjacent
        /\ UNCHANGED <<device, tables, config, gate>>
    BY <1>6 DEF ApspSwap, deviceVars
  <2>3. PICK o : o = SwapOp(gate, q, n, SwapCost(q, n))
    OBVIOUS
  <2>4. /\ SwapCost(q, n) \in Nat
        /\ occupiedTime[q] <= SwapCost(q, n)
        /\ occupiedTime[n] <= SwapCost(q, n)
    BY <1>1, SwapCostFacts
  <2>5. o \in TimedOps /\ On(o) = {q, n} /\ o.start = SwapCost(q, n)
    BY <1>1, <2>3, <2>4, SwapOpType
  <2>6. o.routing /\ o.op = "swap" /\ Len(o.qubits) = 2
    <3>1. o.routing /\ o.op = "swap"
      BY <2>3, SwapOpFields
    <3>. QED
      BY <2>5, <3>1 DEF TimedOps
  <2>7. Lists(o) /\ IsRouting(o)
    BY <2>1, <2>3, <2>4, <2>5, <2>6 DEF ApplyGate, Lists, IsRouting
  <2>8. MovesOneOf(o, gate)
    BY <2>1, <2>2, <2>5, WalkBrings
  <2>. QED
    BY <2>2, <2>7, <2>8 DEF Finished, Idle
<1>7. CASE ApspGate
  <2>1. PICK q \in Qubits, n \in Qubits : front = <<q, n>>
    BY <1>1 DEF RouterTypeOK
  <2>2. PICK o : o = GateOp(gate, <<q, n>>, SwapCost(q, n))
    OBVIOUS
  <2>3. /\ phase = "walk" /\ phase' = "idle" /\ ApplyGate(o)
        /\ UNCHANGED <<device, tables, config, gate>>
    BY <1>7, <2>1, <2>2 DEF ApspGate, deviceVars, routeVars
  <2>4. /\ SwapCost(q, n) \in Nat
        /\ occupiedTime[q] <= SwapCost(q, n)
        /\ occupiedTime[n] <= SwapCost(q, n)
    BY <1>1, SwapCostFacts
  <2>5. o \in TimedOps /\ On(o) = {q, n} /\ o.start = SwapCost(q, n)
    <3>1. <<q, n>> \in Seq(Qubits) /\ Len(<<q, n>>) = 2 /\ ToSet(<<q, n>>) = {q, n}
      BY PairOn
    <3>. QED
      BY <1>1, <2>2, <2>4, <3>1, GateOpType
  <2>6. Len(gate.qubits) = 2
    BY <1>1, <2>3 DEF PlacesInv, EndsHoldGate
  <2>7. IsFor(o, gate)
    BY <2>2, <2>6 DEF IsFor, GateOp
  <2>8. Lists(o)
    BY <2>3, <2>4, <2>5 DEF ApplyGate, Lists
  <2>. QED
    BY <2>3, <2>7, <2>8 DEF Finished, Idle
<1>. QED
  BY <1>2, <1>3, <1>4, <1>5, <1>6, <1>7 DEF RouteStep

-----------------------------------------------------------------------------
(* The theorems: for any number of qubits, any devices, any placements and   *)
(* any gates.                                                                *)

\* Every step of a router keeps the invariant, and applies a gate where its
\* operands are.
LEMMA StepKeeps == RouterInv /\ [Next]_routerVars => RouterInv' /\ AppliedWhereItIs
<1>. SUFFICES ASSUME RouterInv, [Next]_routerVars PROVE RouterInv' /\ AppliedWhereItIs
  OBVIOUS
<1>1. CASE Assign
  <2>1. PICK g \in Gates : AssignGate(g)
    BY <1>1 DEF Assign
  <2>2. IsGate(g)
    BY GatesAssumption
  <2>. QED
    BY <2>1, <2>2, AssignGateKeeps
<1>2. CASE RouteStep
  BY <1>2, RouteStepKeeps
<1>3. CASE UNCHANGED routerVars
  BY <1>3, RestKeeps
<1>. QED
  BY <1>1, <1>2, <1>3 DEF Next, Stop

\* The loops of both routers keep their invariant, for every device (connected
\* or not), number of qubits, placement and sequence of gates.
THEOREM RouterInvHolds == Spec => []RouterInv
<1>1. Init => RouterInv
  BY InitKeeps DEF Init
<1>2. RouterInv /\ [Next]_routerVars => RouterInv'
  BY StepKeeps
<1>. QED
  BY <1>1, <1>2, PTL DEF Spec

\* The state keeps its types.
THEOREM RouterTypes == Spec => []RouterTypeOK
<1>1. RouterInv => RouterTypeOK
  BY DEF RouterInv, TimesInv
<1>. QED
  BY <1>1, RouterInvHolds, PTL

\* Operations that share a physical qubit never overlap, and are listed in the
\* order of their times.
THEOREM OperationsNeverOverlap == Spec => []NoOverlap
<1>1. RouterInv => NoOverlap
  BY DEF RouterInv, TimesInv
<1>. QED
  BY <1>1, RouterInvHolds, PTL

\* Every operation on two qubits that a router of either type lists is on a
\* coupled pair, whatever tables Floyd and Warshall's loop leaves and wherever
\* the two searches meet.
THEOREM OperationsOnCoupledPairs == Spec => []OnCoupledPairs
<1>1. RouterInv => OnCoupledPairs
  BY DEF RouterInv, PlacesInv
<1>. QED
  BY <1>1, RouterInvHolds, PTL

\* A gate is applied to the physical qubits that hold its operands at that
\* moment, control first, in whichever order the unstable sort of _traceback
\* leaves the SWAPs that bring them there.
THEOREM GatesMeetTheirOperands == Spec => GateOnItsQubits
<1>1. RouterInv /\ [Next]_routerVars => AppliedWhereItIs
  BY StepKeeps
<1>. QED
  BY <1>1, RouterInvHolds, PTL DEF Spec, GateOnItsQubits

\* Every logical qubit is on exactly one physical qubit, and between gates the
\* router knows which.
THEOREM PlacementStaysConsistent == Spec => []PlacementConsistent
<1>1. RouterInv => PlacementConsistent
  BY DEF RouterInv, TimesInv
<1>. QED
  BY <1>1, RouterInvHolds, PTL

\* The two search trees of duostra_routing stay in shape.
THEOREM SearchesAreForests == Spec => []SearchForest
<1>1. RouterInv => SearchForest
  BY DEF RouterInv, TimesInv
<1>. QED
  BY <1>1, RouterInvHolds, PTL

\* The operations that _traceback has collected fit behind each other.
THEOREM PendingAlwaysFits == Spec => []PendingFit
<1>1. RouterInv => PendingFit
  BY DEF RouterInv, TimesInv
<1>. QED
  BY <1>1, RouterInvHolds, PTL

\* Every search starts with no mark and the right costs.
THEOREM SearchesStartFresh == Spec => []SearchStartsFresh
<1>1. RouterInv => SearchStartsFresh
  BY DEF RouterInv, TimesInv
<1>. QED
  BY <1>1, RouterInvHolds, PTL
=============================================================================
