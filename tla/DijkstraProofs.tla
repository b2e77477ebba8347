--------------------------- MODULE DijkstraProofs ---------------------------
(***************************************************************************)
(* Proofs about watch::dijkstra for every graph without negative weights:  *)
(* the loop invariant, that labels are final once settled, and that the    *)
(* result is right: the labels are the lengths of shortest walks, and the  *)
(* predecessors lead back to the start.                                    *)
(*                                                                         *)
(* The last part is by induction over the number of edges and over the     *)
(* rank in which nodes were settled, each as a least counterexample.       *)
(***************************************************************************)
EXTENDS Dijkstra, FiniteSetTheorems, WellFoundedInduction, TLAPS

(* What an edge and a queue entry are made of.                             *)
LEMMA EdgeType ==
    ASSUME TypeOK, NEW e \in edges
    PROVE  /\ e[1] \in Nodes /\ e[2] \in Nodes /\ e[3] \in Nat
           /\ e[3] <= MaxInt - INF /\ dist[e[1]] \in 0..INF /\ dist[e[2]] \in 0..INF
           /\ Through(e) \in Nat /\ Through(e) >= dist[e[1]]
<1>1. e[1] \in Nodes /\ e[2] \in Nodes /\ e[3] \in 0..MaxInt - INF
  BY DEF TypeOK
<1>2. dist[e[1]] \in 0..INF /\ dist[e[2]] \in 0..INF /\ INF \in Nat /\ MaxInt \in Nat
  BY <1>1, DijkstraAssumption DEF TypeOK
<1>3. QED
  BY <1>1, <1>2 DEF Through

LEMMA EntryType ==
    ASSUME TypeOK, NEW q \in pq
    PROVE  /\ q[1] \in Nat /\ q[1] < INF /\ q[2] \in Nodes /\ dist[q[2]] \in 0..INF
           /\ q = <<q[1], q[2]>>
  BY DijkstraAssumption DEF TypeOK

LEMMA InitTyped == Init => TypeOK
<1> SUFFICES ASSUME Init PROVE TypeOK
  OBVIOUS
<1>1. PICK rows \in Graphs : edges = BothWays(rows)
  BY DEF Init
<1>2. rows \subseteq Nodes \X Nodes \X (0..MaxInt - INF)
  BY DijkstraAssumption
<1>3. edges \subseteq Nodes \X Nodes \X (0..MaxInt - INF)
  BY <1>1, <1>2 DEF BothWays
<1>4. QED
  BY <1>3, DijkstraAssumption DEF Init, TypeOK

(* Relaxing one edge either leaves all labels or improves one.             *)
LEMMA RelaxCases ==
    ASSUME TypeOK, Relax
    PROVE  \E e \in left :
              /\ left' = left \ {e} /\ edges' = edges /\ start' = start
              /\ \/ dist[e[2]] <= Through(e) /\ UNCHANGED <<dist, pre, pq>>
                 \/ dist[e[2]] > Through(e) /\ Improve(e)
<1>1. PICK e \in left :
         /\ left' = left \ {e} /\ edges' = edges /\ start' = start
         /\ IF dist[e[2]] > Through(e) THEN Improve(e) ELSE UNCHANGED <<dist, pre, pq>>
  BY DEF Relax
<1>2. e \in edges
  BY DEF TypeOK
<1>3. dist[e[2]] \in Int /\ Through(e) \in Int
  BY <1>2, EdgeType
<1>4. QED
  BY <1>1, <1>3

(***************************************************************************)
(* Every reachable state is well typed; in particular no label above INF   *)
(* is ever queued.                                                         *)
(***************************************************************************)
THEOREM TypeCorrect == Spec => []TypeOK
<1>1. Init => TypeOK
  BY InitTyped
<1>2. TypeOK /\ [Next]_vars => TypeOK'
  <2> SUFFICES ASSUME TypeOK, [Next]_vars PROVE TypeOK'
    OBVIOUS
  <2>1. CASE Pop
    BY <2>1 DEF Pop, TypeOK
  <2>2. CASE Relax
    <3>1. PICK e \in left :
             /\ left' = left \ {e} /\ edges' = edges /\ start' = start
             /\ \/ dist[e[2]] <= Through(e) /\ UNCHANGED <<dist, pre, pq>>
                \/ dist[e[2]] > Through(e) /\ Improve(e)
      BY <2>2, RelaxCases
    <3>2. e \in edges
      BY DEF TypeOK
    <3>3. CASE UNCHANGED <<dist, pre, pq>>
      BY <3>1, <3>3 DEF TypeOK
    <3>4. CASE dist[e[2]] > Through(e) /\ Improve(e)
      <4>1. Through(e) \in 0..INF - 1
        BY <3>2, <3>4, EdgeType, DijkstraAssumption
      <4>2. e[1] \in Nodes /\ e[2] \in Nodes
        BY <3>2, EdgeType
      <4>3. Through(e) \in 0..INF
        BY <4>1, DijkstraAssumption
      <4>4. dist' \in [Nodes -> 0..INF] /\ pre' \in [Nodes -> Nodes \cup {-1}]
        BY <3>4, <4>2, <4>3 DEF Improve, TypeOK
      <4>5. pq' \subseteq (0..INF - 1) \X Nodes
        BY <3>4, <4>1, <4>2 DEF Improve, TypeOK
      <4>6. QED
        BY <3>1, <4>4, <4>5 DEF TypeOK
    <3>5. QED
      BY <3>1, <3>3, <3>4
  <2>3. CASE UNCHANGED vars
    BY <2>3 DEF vars, TypeOK
  <2>4. QED
    BY <2>1, <2>2, <2>3 DEF Next
<1>3. QED
  BY <1>1, <1>2, PTL DEF Spec
-----------------------------------------------------------------------------
(***************************************************************************)
(* The strengthening: entries are not below their node's label; the edges  *)
(* being looked at leave settled nodes; and settled labels are below those *)
(* of the queue and of these nodes (which is what taking the least entry   *)
(* and weights of at least 0 are for).                                     *)
(***************************************************************************)
EntriesAbove == \A q \in pq : dist[q[2]] <= q[1]

TailsSettled == \A e \in left : Settled(e[1])

SettledBelow ==
    \A v \in Nodes : Settled(v) =>
        /\ \A q \in pq : dist[v] <= q[1]
        /\ \A e \in left : dist[v] <= dist[e[1]]

OrderInv == EntriesAbove /\ TailsSettled /\ SettledBelow

(* An edge can only improve a node that is not settled, and other than its *)
(* own tail and the start.                                                 *)
LEMMA ImprovedIsOpen ==
    ASSUME TypeOK, OrderInv, dist[start] = 0, NEW e \in left, dist[e[2]] > Through(e)
    PROVE  ~Settled(e[2]) /\ e[2] # e[1] /\ e[2] # start
<1>1. e \in edges
  BY DEF TypeOK
<1>2. dist[e[1]] \in Nat /\ dist[e[2]] \in Nat /\ Through(e) \in Nat /\ Through(e) >= dist[e[1]]
      /\ e[2] \in Nodes
  BY <1>1, EdgeType, DijkstraAssumption
<1>3. Settled(e[2]) => dist[e[2]] <= dist[e[1]]
  BY <1>2 DEF OrderInv, SettledBelow
<1>4. QED
  BY <1>2, <1>3

LEMMA OrderInvariant == Spec => [](OrderInv /\ dist[start] = 0)
<1>1. Init => OrderInv /\ dist[start] = 0
  BY DijkstraAssumption DEF Init, OrderInv, EntriesAbove, TailsSettled, SettledBelow, Settled
<1>2. TypeOK /\ OrderInv /\ dist[start] = 0 /\ [Next]_vars => (OrderInv /\ dist[start] = 0)'
  <2> SUFFICES ASSUME TypeOK, OrderInv, dist[start] = 0, [Next]_vars
               PROVE  (OrderInv /\ dist[start] = 0)'
    OBVIOUS
  <2>1. CASE Pop
    <3>1. PICK top \in pq :
             /\ \A q \in pq : Before(top, q)
             /\ pq' = pq \ {top}
             /\ left' = IF top[1] > dist[top[2]] THEN {} ELSE {e \in edges : e[1] = top[2]}
             /\ UNCHANGED <<edges, start, dist, pre>>
      BY <2>1 DEF Pop
    <3>2. top[1] \in Nat /\ top[1] < INF /\ top[2] \in Nodes /\ dist[top[2]] \in Nat
          /\ top = <<top[1], top[2]>>
      BY EntryType, DijkstraAssumption
    <3>3. \A q \in pq : q[1] \in Nat /\ top[1] <= q[1]
      BY <3>1, <3>2, EntryType DEF Before
    <3>4. dist[top[2]] <= top[1]
      BY DEF OrderInv, EntriesAbove
    <3>5. \A v \in Nodes : Settled(v)' => Settled(v) \/ (v = top[2] /\ dist[v] = top[1])
      <4> SUFFICES ASSUME NEW v \in Nodes, Settled(v)', ~Settled(v)
                   PROVE  v = top[2] /\ dist[v] = top[1]
        OBVIOUS
      <4>1. <<dist[v], v>> \in pq /\ <<dist[v], v>> \notin pq \ {top}
        BY <3>1 DEF Settled
      <4>2. QED
        BY <4>1, <3>2
    <3>6. \A v \in Nodes : Settled(v)' => dist[v] <= top[1]
      <4> SUFFICES ASSUME NEW v \in Nodes, Settled(v)' PROVE dist[v] <= top[1]
        OBVIOUS
      <4>1. Settled(v) => dist[v] <= top[1]
        BY DEF OrderInv, SettledBelow
      <4>2. QED
        BY <4>1, <3>2, <3>5
    <3>7. EntriesAbove'
      BY <3>1 DEF OrderInv, EntriesAbove
    <3>8. \A e \in left' : e[1] = top[2] /\ dist[top[2]] = top[1] /\ e \in edges
      BY <3>1, <3>2, <3>4
    <3>9. TailsSettled'
      <4> SUFFICES ASSUME NEW e \in left' PROVE Settled(e[1])'
        BY DEF TailsSettled
      <4>1. <<dist[top[2]], top[2]>> = top
        BY <3>2, <3>8
      <4>2. QED
        BY <3>1, <3>2, <3>8, <4>1 DEF Settled
    <3>10. SettledBelow'
      <4> SUFFICES ASSUME NEW v \in Nodes, Settled(v)'
                   PROVE  /\ \A q \in pq' : dist'[v] <= q[1]
                          /\ \A e \in left' : dist'[v] <= dist'[e[1]]
        BY DEF SettledBelow
      <4>1. dist[v] \in Nat
        BY DijkstraAssumption DEF TypeOK
      <4>2. QED
        BY <3>1, <3>2, <3>3, <3>6, <3>8, <4>1
    <3>11. QED
      BY <3>1, <3>7, <3>9, <3>10 DEF OrderInv
  <2>2. CASE Relax
    <3>1. PICK e \in left :
             /\ left' = left \ {e} /\ edges' = edges /\ start' = start
             /\ \/ dist[e[2]] <= Through(e) /\ UNCHANGED <<dist, pre, pq>>
                \/ dist[e[2]] > Through(e) /\ Improve(e)
      BY <2>2, RelaxCases
    <3>2. CASE UNCHANGED <<dist, pre, pq>>
      BY <3>1, <3>2 DEF OrderInv, EntriesAbove, TailsSettled, SettledBelow, Settled
    <3>3. CASE dist[e[2]] > Through(e) /\ Improve(e)
      <4> DEFINE x == e[2]
      <4>1. e \in edges
        BY DEF TypeOK
      <4>2. x \in Nodes /\ dist[x] \in Nat /\ Through(e) \in Nat /\ dist[e[1]] <= Through(e)
            /\ dist[e[1]] \in Nat
        BY <4>1, EdgeType, DijkstraAssumption
      <4>3. ~Settled(x) /\ x # start
        BY <3>3, ImprovedIsOpen
      <4>4. /\ dist'[x] = Through(e) /\ \A v \in Nodes \ {x} : dist'[v] = dist[v]
            /\ pq' = pq \cup {<<Through(e), x>>}
        BY <3>3, <4>2 DEF Improve, TypeOK
      <4>5. \A v \in Nodes : Settled(v)' <=> Settled(v)
        <5>1. ~Settled(x)'
          BY <4>4 DEF Settled
        <5>2. ASSUME NEW v \in Nodes \ {x} PROVE Settled(v)' <=> Settled(v)
          BY <4>4 DEF Settled
        <5>3. QED
          BY <5>1, <5>2, <4>3
      <4>6. \A v \in Nodes : Settled(v) => dist'[v] = dist[v]
        BY <4>3, <4>4
      <4>7. EntriesAbove'
        <5> SUFFICES ASSUME NEW q \in pq' PROVE dist'[q[2]] <= q[1]
          BY DEF EntriesAbove
        <5>1. CASE q = <<Through(e), x>>
          BY <5>1, <4>2, <4>4
        <5>2. CASE q \in pq
          <6>1. dist[q[2]] <= q[1] /\ q[1] \in Nat /\ q[2] \in Nodes
            BY <5>2, EntryType DEF OrderInv, EntriesAbove
          <6>2. QED
            BY <6>1, <3>3, <4>2, <4>4
        <5>3. QED
          BY <5>1, <5>2, <4>4
      <4>8. \A f \in left : f[1] \in Nodes /\ Settled(f[1])
        <5>1. \A f \in left : f \in edges
          BY DEF TypeOK
        <5>2. \A f \in left : f[1] \in Nodes
          BY <5>1, EdgeType
        <5>3. QED
          BY <5>2 DEF OrderInv, TailsSettled
      <4>9. TailsSettled'
        BY <3>1, <4>5, <4>8 DEF TailsSettled
      <4>10. SettledBelow'
        <5> SUFFICES ASSUME NEW v \in Nodes, Settled(v)
                     PROVE  /\ \A q \in pq' : dist[v] <= q[1]
                            /\ \A f \in left' : dist[v] <= dist'[f[1]]
          BY <4>5, <4>6 DEF SettledBelow
        <5>1. /\ \A q \in pq : dist[v] <= q[1]
              /\ \A f \in left : dist[v] <= dist[f[1]]
          BY DEF OrderInv, SettledBelow
        <5>2. dist[v] \in Nat
          BY DijkstraAssumption DEF TypeOK
        <5>3. dist[v] <= Through(e)
          BY <5>1, <5>2, <4>2
        <5>4. \A q \in pq' : dist[v] <= q[1]
          BY <5>1, <5>3, <4>4
        <5>5. \A f \in left' : dist[v] <= dist'[f[1]]
          BY <5>1, <3>1, <4>6, <4>8
        <5>6. QED
          BY <5>4, <5>5
      <4>11. dist'[start'] = 0
        BY <3>1, <4>3, <4>4 DEF TypeOK
      <4>12. QED
        BY <4>7, <4>9, <4>10, <4>11 DEF OrderInv
    <3>4. QED
      BY <3>1, <3>2, <3>3
  <2>3. CASE UNCHANGED vars
    BY <2>3 DEF vars, OrderInv, EntriesAbove, TailsSettled, SettledBelow, Settled
  <2>4. QED
    BY <2>1, <2>2, <2>3 DEF Next
<1>3. QED
  BY <1>1, <1>2, TypeCorrect, PTL DEF Spec
(***************************************************************************)
(* A label is final once its node has left the queue at that label.        *)
(***************************************************************************)
THEOREM SettledIsFinal == Spec => SettledStays
<1>1. TypeOK /\ OrderInv /\ dist[start] = 0 /\ [Next]_vars
        => [\A v \in Nodes : Settled(v) => dist'[v] = dist[v] /\ Settled(v)']_vars
  <2> SUFFICES ASSUME TypeOK, OrderInv, dist[start] = 0, Next, NEW v \in Nodes, Settled(v)
               PROVE  dist'[v] = dist[v] /\ Settled(v)'
    OBVIOUS
  <2>1. CASE Pop
    BY <2>1 DEF Pop, Settled
  <2>2. CASE Relax
    <3>1. PICK e \in left :
             /\ left' = left \ {e} /\ edges' = edges /\ start' = start
             /\ \/ dist[e[2]] <= Through(e) /\ UNCHANGED <<dist, pre, pq>>
                \/ dist[e[2]] > Through(e) /\ Improve(e)
      BY <2>2, RelaxCases
    <3>2. CASE UNCHANGED <<dist, pre, pq>>
      BY <3>2 DEF Settled
    <3>3. CASE dist[e[2]] > Through(e) /\ Improve(e)
      <4>1. e[2] # v
        BY <3>3, ImprovedIsOpen
      <4>2. dist'[v] = dist[v] /\ pq' = pq \cup {<<Through(e), e[2]>>}
        BY <3>3, <4>1 DEF Improve, TypeOK
      <4>3. QED
        BY <4>1, <4>2 DEF Settled
    <3>4. QED
      BY <3>1, <3>2, <3>3
  <2>3. QED
    BY <2>1, <2>2 DEF Next
<1>2. QED
  BY <1>1, TypeCorrect, OrderInvariant, PTL DEF Spec, SettledStays
-----------------------------------------------------------------------------
(* Only labels below INF are added to.                                     *)
LEMMA SumsAreInts == ASSUME TypeOK, OrderInv PROVE SumsFit
<1> SUFFICES ASSUME NEW e \in left PROVE Through(e) <= MaxInt
  BY DEF SumsFit
<1>1. e \in edges
  BY DEF TypeOK
<1>2. dist[e[1]] < INF
  BY DEF OrderInv, TailsSettled, Settled
<1>3. dist[e[1]] \in Nat /\ e[3] \in Nat /\ e[3] <= MaxInt - INF
  BY <1>1, EdgeType, DijkstraAssumption
<1>4. QED
  BY <1>2, <1>3, DijkstraAssumption DEF Through

(***************************************************************************)
(* The loop invariant: edges that could still shorten a way are pending,   *)
(* labels are backed by a predecessor, sums fit an int.                    *)
(***************************************************************************)
THEOREM LoopInvariant == Spec => []LoopInv
<1>1. Init => EdgesRelaxed /\ LabelsBacked
  <2> SUFFICES ASSUME Init PROVE EdgesRelaxed /\ LabelsBacked
    OBVIOUS
  <2>1. TypeOK
    BY InitTyped
  <2>2. \A v \in Nodes : dist[v] < INF => v = start
    BY DijkstraAssumption DEF Init
  <2>3. \A e \in edges : e[1] \in Nodes
    BY <2>1, EdgeType
  <2>4. QED
    BY <2>2, <2>3, DijkstraAssumption DEF Init, EdgesRelaxed, LabelsBacked
<1>2. TypeOK /\ OrderInv /\ EdgesRelaxed /\ LabelsBacked /\ [Next]_vars
        => EdgesRelaxed' /\ LabelsBacked'
  <2> SUFFICES ASSUME TypeOK, OrderInv, EdgesRelaxed, LabelsBacked, [Next]_vars
               PROVE  EdgesRelaxed' /\ LabelsBacked'
    OBVIOUS
  <2>1. CASE Pop
    <3>1. PICK top \in pq :
             /\ pq' = pq \ {top}
             /\ left' = IF top[1] > dist[top[2]] THEN {} ELSE {e \in edges : e[1] = top[2]}
             /\ left = {} /\ UNCHANGED <<edges, start, dist, pre>>
      BY <2>1 DEF Pop
    <3>2. top[1] \in Nat /\ top[2] \in Nodes /\ dist[top[2]] \in Nat /\ dist[top[2]] <= top[1]
      BY EntryType, DijkstraAssumption DEF OrderInv, EntriesAbove
    <3>3. EdgesRelaxed'
      <4> SUFFICES ASSUME NEW e \in edges, dist[e[1]] < INF
                   PROVE  \/ dist[e[2]] <= Through(e)
                          \/ <<dist[e[1]], e[1]>> \in pq'
                          \/ e \in left'
        BY <3>1 DEF EdgesRelaxed, Through
      <4>1. dist[e[2]] <= Through(e) \/ <<dist[e[1]], e[1]>> \in pq
        BY <3>1 DEF EdgesRelaxed
      <4>2. CASE <<dist[e[1]], e[1]>> = top
        <5>1. top[1] = dist[top[2]] /\ e[1] = top[2]
          BY <4>2
        <5>2. QED
          BY <3>1, <3>2, <5>1
      <4>3. QED
        BY <3>1, <4>1, <4>2
    <3>4. LabelsBacked'
      BY <3>1 DEF LabelsBacked, Through
    <3>5. QED
      BY <3>3, <3>4
  <2>2. CASE Relax
    <3>1. PICK e \in left :
             /\ left' = left \ {e} /\ edges' = edges /\ start' = start
             /\ \/ dist[e[2]] <= Through(e) /\ UNCHANGED <<dist, pre, pq>>
                \/ dist[e[2]] > Through(e) /\ Improve(e)
      BY <2>2, RelaxCases
    <3>2. CASE dist[e[2]] <= Through(e) /\ UNCHANGED <<dist, pre, pq>>
      BY <3>1, <3>2 DEF EdgesRelaxed, LabelsBacked, Through
    <3>3. CASE dist[e[2]] > Through(e) /\ Improve(e)
      <4> DEFINE x == e[2]
      <4>1. e \in edges
        BY DEF TypeOK
      <4>2. x \in Nodes /\ dist[x] \in Nat /\ Through(e) \in Nat /\ e[1] \in Nodes
            /\ e[1] # x /\ x # start
        BY <4>1, <3>3, EdgeType, ImprovedIsOpen, DijkstraAssumption DEF LabelsBacked
      <4>3. /\ dist'[x] = Through(e) /\ \A v \in Nodes \ {x} : dist'[v] = dist[v]
            /\ pre'[x] = e[1] /\ \A v \in Nodes \ {x} : pre'[v] = pre[v]
            /\ pq' = pq \cup {<<Through(e), x>>}
        BY <3>3, <4>2 DEF Improve, TypeOK
      <4>4. \A v \in Nodes : dist'[v] \in Nat /\ dist[v] \in Nat /\ dist'[v] <= dist[v]
        <5>1. \A v \in Nodes : dist[v] \in Nat
          BY DijkstraAssumption DEF TypeOK
        <5>2. QED
          BY <5>1, <4>2, <4>3, <3>3
      <4>5. EdgesRelaxed'
        <5> SUFFICES ASSUME NEW f \in edges, dist'[f[1]] < INF
                     PROVE  \/ dist'[f[2]] <= dist'[f[1]] + f[3]
                            \/ <<dist'[f[1]], f[1]>> \in pq'
                            \/ f \in left'
          BY <3>1 DEF EdgesRelaxed, Through
        <5>1. f[1] \in Nodes /\ f[2] \in Nodes /\ f[3] \in Nat
          BY EdgeType
        <5>2. CASE f[1] = x
          BY <5>2, <4>3
        <5>3. CASE f[1] # x /\ f = e
          BY <5>1, <5>3, <4>2, <4>3 DEF Through
        <5>4. CASE f[1] # x /\ f # e
          <6>1. dist'[f[1]] = dist[f[1]]
            BY <5>1, <5>4, <4>3
          <6>2. dist[f[2]] <= dist[f[1]] + f[3] \/ <<dist[f[1]], f[1]>> \in pq \/ f \in left
            BY <6>1 DEF EdgesRelaxed, Through
          <6>3. dist[f[2]] <= dist[f[1]] + f[3] => dist'[f[2]] <= dist'[f[1]] + f[3]
            BY <6>1, <5>1, <4>4
          <6>4. QED
            BY <6>1, <6>2, <6>3, <5>4, <3>1, <4>3
        <5>5. QED
          BY <5>2, <5>3, <5>4
      <4>6. LabelsBacked'
        <5>1. dist'[start'] = 0 /\ pre'[start'] = -1
          BY <3>1, <4>2, <4>3 DEF LabelsBacked, TypeOK
        <5>2. ASSUME NEW v \in Nodes \ {start}, dist'[v] < INF
              PROVE  \E f \in edges : f[1] = pre'[v] /\ f[2] = v
                                      /\ dist'[f[1]] + f[3] <= dist'[v]
          <6>1. CASE v = x
            BY <6>1, <4>1, <4>2, <4>3 DEF Through
          <6>2. CASE v # x
            <7>1. dist'[v] = dist[v] /\ pre'[v] = pre[v]
              BY <6>2, <4>3
            <7>2. PICK f \in edges : f[1] = pre[v] /\ f[2] = v /\ Through(f) <= dist[v]
              BY <5>2, <7>1 DEF LabelsBacked
            <7>3. f[1] \in Nodes /\ f[3] \in Nat
              BY EdgeType
            <7>4. dist'[f[1]] + f[3] <= dist[v]
              BY <7>2, <7>3, <4>4 DEF Through
            <7>5. QED
              BY <7>1, <7>2, <7>4
          <6>3. QED
            BY <6>1, <6>2
        <5>3. QED
          BY <5>1, <5>2, <3>1 DEF LabelsBacked, Through
      <4>7. QED
        BY <4>5, <4>6
    <3>4. QED
      BY <3>1, <3>2, <3>3
  <2>3. CASE UNCHANGED vars
    BY <2>3 DEF vars, EdgesRelaxed, LabelsBacked, Through
  <2>4. QED
    BY <2>1, <2>2, <2>3 DEF Next
<1>3. TypeOK /\ OrderInv => SumsFit
  BY SumsAreInts
<1>4. QED
  BY <1>1, <1>2, <1>3, TypeCorrect, OrderInvariant, PTL DEF Spec, LoopInv

(***************************************************************************)
(* What the result satisfies for every graph, and what determines the      *)
(* shortest distances when weights are positive: no edge between places    *)
(* that are reached shortens a way, and every label is exactly its         *)
(* predecessor's label plus the weight of an edge between them.            *)
(***************************************************************************)
Certified ==
    Done => /\ \A e \in edges : dist[e[1]] < INF => dist[e[2]] <= Through(e)
            /\ \A v \in Nodes \ {start} : dist[v] < INF =>
                  \E e \in edges : e[1] = pre[v] /\ e[2] = v /\ dist[v] = Through(e)

THEOREM ResultIsCertified == Spec => []Certified
<1>1. TypeOK /\ LoopInv => Certified
  <2> SUFFICES ASSUME TypeOK, LoopInv, Done PROVE
          /\ \A e \in edges : dist[e[1]] < INF => dist[e[2]] <= Through(e)
          /\ \A v \in Nodes \ {start} : dist[v] < INF =>
                \E e \in edges : e[1] = pre[v] /\ e[2] = v /\ dist[v] = Through(e)
    BY DEF Certified
  <2>1. \A e \in edges : dist[e[1]] < INF => dist[e[2]] <= Through(e)
    BY DEF LoopInv, EdgesRelaxed, Done
  <2>2. ASSUME NEW v \in Nodes \ {start}, dist[v] < INF
        PROVE  \E e \in edges : e[1] = pre[v] /\ e[2] = v /\ dist[v] = Through(e)
    <3>1. PICK e \in edges : e[1] = pre[v] /\ e[2] = v /\ Through(e) <= dist[v]
      BY <2>2 DEF LoopInv, LabelsBacked
    <3>2. dist[e[1]] \in Nat /\ dist[v] \in Nat /\ Through(e) \in Nat /\ dist[e[1]] <= Through(e)
      BY <3>1, EdgeType, DijkstraAssumption
    <3>3. dist[e[1]] < INF
      BY <2>2, <3>1, <3>2, DijkstraAssumption
    <3>4. dist[v] <= Through(e)
      BY <2>1, <3>1, <3>3
    <3>5. QED
      BY <3>1, <3>2, <3>4
  <2>3. QED
    BY <2>1, <2>2
<1>2. QED
  BY <1>1, TypeCorrect, LoopInvariant, PTL
-----------------------------------------------------------------------------
(***************************************************************************)
(* Induction over the numbers, and iteration: what the reference is        *)
(* computed with.                                                          *)
(***************************************************************************)
LEMMA LeastNatural ==
    ASSUME NEW S \in SUBSET Nat, S # {}
    PROVE  \E n \in S : \A m \in S : n <= m
<1> DEFINE R == {ss \in Nat \X Nat : ss[1] < ss[2]}
<1>1. IsWellFoundedOn(R, Nat)
  BY NatLessThanWellFounded DEF OpToRel
<1>2. \A m, n \in Nat : <<m, n>> \in R <=> m < n
  OBVIOUS
<1> HIDE DEF R
<1>3. PICK n \in S : \A m \in S : <<m, n>> \notin R
  BY <1>1, WFMin
<1>4. ASSUME NEW m \in S PROVE n <= m
  <2>1. m \in Nat /\ n \in Nat /\ <<m, n>> \notin R
    BY <1>3
  <2>2. ~(m < n)
    BY <1>2, <2>1
  <2>3. QED
    BY <2>1, <2>2
<1>5. QED
  BY <1>4

LEMMA UpTo ==
    ASSUME NEW m \in Nat, NEW S, 0 \in S,
           \A n \in 0..m - 1 : n \in S => n + 1 \in S
    PROVE  0..m \subseteq S
<1> DEFINE Out == {n \in 0..m : n \notin S}
<1>1. SUFFICES ASSUME Out # {} PROVE FALSE
  OBVIOUS
<1>2. PICK n \in Out : \A k \in Out : n <= k
  <2>1. Out \in SUBSET Nat
    OBVIOUS
  <2> HIDE DEF Out
  <2>2. QED
    BY <1>1, <2>1, LeastNatural
<1>3. n # 0 /\ n - 1 \in 0..m - 1 /\ n - 1 \notin Out
  BY <1>2
<1>4. QED
  BY <1>2, <1>3

LEMMA LeastIs ==
    ASSUME NEW S \in SUBSET Nat, S # {}
    PROVE  Least(S) \in S /\ Least(S) \in Nat /\ \A y \in S : Least(S) <= y
<1>1. \E x \in S : \A y \in S : x <= y
  BY LeastNatural
<1>2. Least(S) \in S /\ \A y \in S : Least(S) <= y
  BY <1>1 DEF Least
<1>3. QED
  BY <1>2

(* A function can be applied again and again.                              *)
Iterates(g, F, b, M) == \A k \in 0..M : g[k] = IF k = 0 THEN b ELSE F[g[k - 1]]

LEMMA Iterate ==
    ASSUME NEW X, NEW F \in [X -> X], NEW b \in X, NEW M \in Nat
    PROVE  \E g \in [0..M -> X] : Iterates(g, F, b, M)
<1> DEFINE Solves(g, m) == /\ g \in [0..m -> X]
                           /\ \A k \in 0..m : g[k] = IF k = 0 THEN b ELSE F[g[k - 1]]
           S == {m \in Nat : \E g : Solves(g, m)}
<1>1. 0 \in S
  <2>1. Solves([k \in 0..0 |-> b], 0)
    OBVIOUS
  <2>2. QED
    BY <2>1
<1>2. ASSUME NEW m \in 0..M - 1, m \in S PROVE m + 1 \in S
  <2>1. PICK g : Solves(g, m)
    BY <1>2
  <2> DEFINE h == [k \in 0..m + 1 |-> IF k = m + 1 THEN F[g[m]] ELSE g[k]]
  <2>2. m \in Nat /\ m \in 0..m /\ g[m] \in X /\ F[g[m]] \in X
    BY <2>1
  <2>3. ASSUME NEW k \in 0..m + 1
        PROVE  h[k] \in X /\ h[k] = IF k = 0 THEN b ELSE F[h[k - 1]]
    <3>1. CASE k = m + 1
      <4>1. k - 1 = m /\ k # 0 /\ m \in 0..m + 1 /\ m # m + 1
        BY <2>2, <3>1
      <4>2. h[k] = F[g[m]]
        BY <3>1
      <4>3. h[m] = g[m]
        BY <4>1
      <4>4. QED
        BY <2>2, <4>1, <4>2, <4>3
    <3>2. CASE k # m + 1
      <4>1. k \in 0..m /\ h[k] = g[k] /\ (k # 0 => k - 1 \in 0..m + 1 /\ k - 1 # m + 1)
        BY <2>2, <3>2
      <4>2. g[k] \in X /\ g[k] = IF k = 0 THEN b ELSE F[g[k - 1]]
        BY <2>1, <4>1
      <4>3. QED
        BY <4>1, <4>2
    <3>3. QED
      BY <3>1, <3>2
  <2>4. Solves(h, m + 1)
    <3>1. h = [k \in 0..m + 1 |-> h[k]]
      OBVIOUS
    <3> HIDE DEF h
    <3>2. h \in [0..m + 1 -> X]
      BY <2>3, <3>1
    <3>3. QED
      BY <2>3, <3>1, <3>2
  <2> HIDE DEF h, Solves
  <2>5. m + 1 \in Nat
    BY <2>2
  <2>6. QED
    BY <2>4, <2>5
<1>3. M \in S
  <2> HIDE DEF S
  <2>1. 0..M \subseteq S
    BY <1>1, <1>2, UpTo
  <2>2. QED
    BY <2>1
<1>4. QED
  BY <1>3 DEF Iterates

(***************************************************************************)
(* The reference: Within(n) holds the lengths of the shortest walks of at  *)
(* most n edges.                                                           *)
(***************************************************************************)
Labels == [Nodes -> Nat]

LEMMA NoEdgeType == ASSUME TypeOK PROVE NoEdge \in Labels
  BY DijkstraAssumption DEF NoEdge, Labels

LEMMA OneMoreIs ==
    ASSUME TypeOK, NEW d \in Labels
    PROVE  /\ OneMore(d) \in Labels
           /\ \A v \in Nodes : /\ OneMore(d)[v] <= d[v]
                               /\ \A e \in edges : e[2] = v => OneMore(d)[v] <= d[e[1]] + e[3]
                               /\ \/ OneMore(d)[v] = d[v]
                                  \/ \E e \in edges : e[2] = v /\ OneMore(d)[v] = d[e[1]] + e[3]
<1> DEFINE S(v) == {d[v]} \cup {d[e[1]] + e[3] : e \in {x \in edges : x[2] = v}}
<1>1. ASSUME NEW v \in Nodes PROVE S(v) \in SUBSET Nat /\ S(v) # {}
  <2>1. \A e \in edges : d[e[1]] + e[3] \in Nat
    BY EdgeType DEF Labels
  <2>2. d[v] \in Nat
    BY DEF Labels
  <2>3. QED
    BY <2>1, <2>2
<1>2. \A v \in Nodes : OneMore(d)[v] = Least(S(v))
  BY DEF OneMore
<1>3. ASSUME NEW v \in Nodes
      PROVE  OneMore(d)[v] \in S(v) /\ OneMore(d)[v] \in Nat /\ \A y \in S(v) : OneMore(d)[v] <= y
  <2> HIDE DEF S
  <2>1. QED
    BY <1>1, <1>2, LeastIs
<1>4. OneMore(d) \in Labels
  <2>1. OneMore(d) = [v \in Nodes |-> OneMore(d)[v]]
    BY DEF OneMore
  <2>2. QED
    BY <1>3, <2>1 DEF Labels
<1>5. QED
  BY <1>3, <1>4

LEMMA WithinIs ==
    ASSUME TypeOK
    PROVE  /\ \A k \in 0..N : Within(k) \in Labels
           /\ Within(0) = NoEdge
           /\ \A k \in 1..N : Within(k) = OneMore(Within(k - 1))
<1> DEFINE F == [d \in Labels |-> OneMore(d)]
           Solves(g) == g = [k \in 0..N |-> IF k = 0 THEN NoEdge ELSE OneMore(g[k - 1])]
<1>1. F \in [Labels -> Labels] /\ NoEdge \in Labels /\ N \in Nat
  BY OneMoreIs, NoEdgeType, DijkstraAssumption
<1>2. \E g : Solves(g)
  <2>1. PICK g \in [0..N -> Labels] : Iterates(g, F, NoEdge, N)
    <3> HIDE DEF F
    <3>1. QED
      BY <1>1, Iterate
  <2>2. ASSUME NEW k \in 0..N
        PROVE  g[k] = IF k = 0 THEN NoEdge ELSE OneMore(g[k - 1])
    <3>1. k # 0 => k - 1 \in 0..N
      BY <1>1
    <3>2. k # 0 => g[k - 1] \in Labels
      BY <3>1
    <3>3. QED
      BY <2>1, <3>2 DEF Iterates
  <2>3. g = [k \in 0..N |-> g[k]]
    OBVIOUS
  <2>4. Solves(g)
    BY <2>2, <2>3
  <2>5. QED
    BY <2>4
<1> DEFINE f == CHOOSE g : Solves(g)
<1>3. Solves(f)
  BY <1>2
<1>4. \A k \in 0..N : Within(k) = f[k]
  BY DEF Within
<1>5. \A k \in 0..N : f[k] = IF k = 0 THEN NoEdge ELSE OneMore(f[k - 1])
  BY <1>3
<1> HIDE DEF f
<1>6. 0 \in 0..N /\ \A k \in 1..N : k \in 0..N /\ k # 0 /\ k - 1 \in 0..N
  BY <1>1
<1>7. Within(0) = NoEdge /\ \A k \in 1..N : Within(k) = OneMore(Within(k - 1))
  BY <1>4, <1>5, <1>6
<1>8. \A k \in 0..N : Within(k) \in Labels
  <2> DEFINE S == {k \in 0..N : Within(k) \in Labels}
  <2>1. 0 \in S
    BY <1>1, <1>6, <1>7
  <2>2. ASSUME NEW k \in 0..N - 1, k \in S PROVE k + 1 \in S
    <3>1. k + 1 \in 1..N /\ (k + 1) - 1 = k
      BY <1>1
    <3>2. Within(k + 1) = OneMore(Within(k))
      BY <1>7, <3>1
    <3>3. QED
      BY <1>6, <2>2, <3>1, <3>2, OneMoreIs
  <2>3. 0..N \subseteq S
    <3> HIDE DEF S
    <3>1. QED
      BY <1>1, <2>1, <2>2, UpTo
  <2>4. QED
    BY <2>3
<1>9. QED
  BY <1>7, <1>8

(* More edges allow walks that are no longer; none is longer than INF.     *)
LEMMA WithinFalls ==
    ASSUME TypeOK, NEW v \in Nodes
    PROVE  /\ \A m, n \in 0..N : m <= n => Within(n)[v] <= Within(m)[v]
           /\ \A n \in 0..N : Within(n)[v] \in 0..INF
<1>1. N \in Nat /\ INF \in Nat /\ \A k \in 0..N : Within(k) \in Labels /\ Within(k)[v] \in Nat
  BY WithinIs, DijkstraAssumption DEF Labels
<1>2. \A k \in 1..N : Within(k)[v] <= Within(k - 1)[v]
  <2> TAKE k \in 1..N
  <2>1. k - 1 \in 0..N
    BY <1>1
  <2>2. Within(k) = OneMore(Within(k - 1)) /\ Within(k - 1) \in Labels
    BY <2>1, WithinIs
  <2>3. QED
    BY <2>2, OneMoreIs
<1>3. ASSUME NEW m \in 0..N PROVE \A n \in 0..N : m <= n => Within(n)[v] <= Within(m)[v]
  <2> DEFINE S == {n \in 0..N : m <= n => Within(n)[v] <= Within(m)[v]}
  <2>1. 0 \in S
    <3>1. m <= 0 => m = 0
      BY <1>1
    <3>2. Within(0)[v] <= Within(0)[v] /\ 0 \in 0..N
      BY <1>1
    <3>3. QED
      BY <3>1, <3>2
  <2>2. ASSUME NEW k \in 0..N - 1, k \in S PROVE k + 1 \in S
    <3>1. k + 1 \in 1..N /\ k + 1 \in 0..N /\ k \in 0..N /\ (k + 1) - 1 = k
      BY <1>1
    <3>2. Within(k + 1)[v] <= Within(k)[v]
      BY <1>2, <3>1
    <3>3. CASE m <= k
      <4>1. Within(k)[v] <= Within(m)[v]
        BY <2>2, <3>3
      <4>2. Within(k + 1)[v] \in Nat /\ Within(k)[v] \in Nat /\ Within(m)[v] \in Nat
        BY <1>1, <3>1
      <4>3. Within(k + 1)[v] <= Within(m)[v]
        BY <3>2, <4>1, <4>2
      <4>4. QED
        BY <3>1, <4>3
    <3>4. CASE m = k + 1
      BY <1>1, <3>1, <3>4
    <3>5. CASE m > k + 1
      BY <3>1, <3>5
    <3>6. QED
      BY <3>1, <3>3, <3>4, <3>5
  <2>3. 0..N \subseteq S
    <3> HIDE DEF S
    <3>1. QED
      BY <1>1, <2>1, <2>2, UpTo
  <2>4. QED
    BY <2>3
<1>4. ASSUME NEW n \in 0..N PROVE Within(n)[v] \in 0..INF
  <2>1. Within(0)[v] <= INF /\ Within(0)[v] \in Nat
    <3>1. NoEdge[v] \in 0..INF
      BY <1>1 DEF NoEdge
    <3>2. QED
      BY <1>1, <3>1, WithinIs
  <2>2. Within(n)[v] <= Within(0)[v] /\ Within(n)[v] \in Nat
    BY <1>1, <1>3
  <2>3. QED
    BY <1>1, <2>1, <2>2
<1>5. QED
  BY <1>3, <1>4

(* When no edge shortens a way, no walk is shorter than the labels.        *)
LEMMA NoWalkIsShorter ==
    ASSUME TypeOK, dist[start] = 0,
           \A e \in edges : dist[e[1]] < INF => dist[e[2]] <= Through(e)
    PROVE  \A k \in 0..N : \A v \in Nodes : dist[v] <= Within(k)[v]
<1> DEFINE S == {k \in 0..N : \A v \in Nodes : dist[v] <= Within(k)[v]}
<1>1. N \in Nat /\ INF \in Nat /\ \A v \in Nodes : dist[v] \in Nat /\ dist[v] <= INF
  BY DijkstraAssumption DEF TypeOK
<1>2. 0 \in S
  <2>1. \A v \in Nodes : dist[v] <= NoEdge[v]
    BY <1>1 DEF NoEdge
  <2>2. QED
    BY <1>1, <2>1, WithinIs
<1>3. ASSUME NEW k \in 0..N - 1, k \in S PROVE k + 1 \in S
  <2>1. k + 1 \in 1..N /\ k + 1 \in 0..N /\ k \in 0..N /\ (k + 1) - 1 = k
    BY <1>1
  <2>2. Within(k + 1) = OneMore(Within(k)) /\ Within(k) \in Labels
    BY <2>1, WithinIs
  <2>3. ASSUME NEW v \in Nodes PROVE dist[v] <= OneMore(Within(k))[v]
    <3>1. CASE OneMore(Within(k))[v] = Within(k)[v]
      BY <1>3, <3>1
    <3>2. ASSUME NEW e \in edges, e[2] = v, OneMore(Within(k))[v] = Within(k)[e[1]] + e[3]
          PROVE  dist[v] <= OneMore(Within(k))[v]
      <4>1. e[1] \in Nodes /\ e[3] \in Nat /\ Within(k)[e[1]] \in Nat
        BY <2>2, EdgeType DEF Labels
      <4>2. dist[e[1]] <= Within(k)[e[1]] /\ dist[e[1]] \in Nat /\ dist[e[1]] <= INF
        BY <1>1, <1>3, <4>1
      <4>3. dist[v] \in Nat /\ dist[v] <= INF
        BY <1>1
      <4>4. dist[e[1]] < INF => dist[v] <= dist[e[1]] + e[3]
        BY <3>2 DEF Through
      <4>5. dist[v] <= Within(k)[e[1]] + e[3]
        <5>1. CASE dist[e[1]] < INF
          <6>1. dist[v] <= dist[e[1]] + e[3]
            BY <4>4, <5>1
          <6>2. QED
            BY <4>1, <4>2, <4>3, <6>1
        <5>2. CASE dist[e[1]] = INF
          BY <1>1, <4>1, <4>2, <4>3, <5>2
        <5>3. QED
          BY <1>1, <4>2, <5>1, <5>2
      <4>6. QED
        BY <3>2, <4>5
    <3>3. \/ OneMore(Within(k))[v] = Within(k)[v]
          \/ \E e \in edges : e[2] = v /\ OneMore(Within(k))[v] = Within(k)[e[1]] + e[3]
      <4>1. PICK d \in Labels : d = Within(k)
        BY <2>2
      <4>2. \/ OneMore(d)[v] = d[v]
            \/ \E e \in edges : e[2] = v /\ OneMore(d)[v] = d[e[1]] + e[3]
        BY OneMoreIs
      <4>3. QED
        BY <4>1, <4>2
    <3>4. QED
      BY <3>1, <3>2, <3>3
  <2>4. QED
    BY <2>1, <2>2, <2>3
<1>4. 0..N \subseteq S
  <2> HIDE DEF S
  <2>1. QED
    BY <1>1, <1>2, <1>3, UpTo
<1>5. QED
  BY <1>4
-----------------------------------------------------------------------------
(***************************************************************************)
(* The predecessors of the nodes that have been reached are settled, and   *)
(* there is a rank, the order in which nodes were settled, that falls from *)
(* a settled node to its predecessor: this is why the way back ends.  With *)
(* edges of weight 0 the labels alone would not show it.                   *)
(***************************************************************************)
SettledNodes == {v \in Nodes : Settled(v)}

TreeSettled ==
    \A v \in Nodes \ {start} :
        /\ dist[v] = INF => pre[v] = -1
        /\ dist[v] < INF => pre[v] \in SettledNodes

RankedBy(r) ==
    \A v \in SettledNodes : /\ r[v] < Cardinality(SettledNodes)
                            /\ v # start => r[pre[v]] < r[v]

TreeInv == TreeSettled /\ \E r \in [Nodes -> Nat] : RankedBy(r)

LEMMA SettledCount ==
    ASSUME TypeOK
    PROVE  /\ IsFiniteSet(SettledNodes) /\ Cardinality(SettledNodes) \in Nat
           /\ Cardinality(SettledNodes) <= N
<1>1. N \in Nat /\ 0 \in Int /\ N - 1 \in Int
  BY DijkstraAssumption
<1>2. IsFiniteSet(Nodes) /\ Cardinality(Nodes) = N
  <2>1. IsFiniteSet(0..N - 1) /\ Cardinality(0..N - 1) = IF 0 > N - 1 THEN 0 ELSE (N - 1) - 0 + 1
    BY <1>1, FS_Interval
  <2>2. QED
    BY <1>1, <2>1, DijkstraAssumption DEF Nodes
<1>3. SettledNodes \in SUBSET Nodes
  BY DEF SettledNodes
<1>4. IsFiniteSet(SettledNodes) /\ Cardinality(SettledNodes) <= Cardinality(Nodes)
  BY <1>2, <1>3, FS_Subset
<1>5. QED
  BY <1>2, <1>4, FS_CardinalityType

LEMMA TreeInitially == Init => TreeInv
<1> SUFFICES ASSUME Init PROVE TreeInv
  OBVIOUS
<1>1. TypeOK
  BY InitTyped
<1>2. SettledNodes = {}
  BY DijkstraAssumption DEF Init, SettledNodes, Settled
<1>3. TreeSettled
  BY DijkstraAssumption DEF Init, TreeSettled
<1>4. RankedBy([v \in Nodes |-> 0])
  BY <1>2 DEF RankedBy
<1>5. QED
  BY <1>3, <1>4 DEF TreeInv

(* Taking the entry that bears a node's label settles it, and gives it the *)
(* next rank; a node's predecessor has been settled before.                *)
LEMMA TreeAfterPop ==
    ASSUME TypeOK, OrderInv, TreeInv, Pop
    PROVE  TreeInv'
<1>1. PICK top \in pq :
         /\ pq' = pq \ {top}
         /\ UNCHANGED <<edges, start, dist, pre>>
  BY DEF Pop
<1>2. top[1] \in Nat /\ top[1] < INF /\ top[2] \in Nodes /\ dist[top[2]] \in Nat
      /\ top = <<top[1], top[2]>> /\ dist[top[2]] <= top[1]
  BY EntryType, DijkstraAssumption DEF OrderInv, EntriesAbove
<1> DEFINE u == top[2]
<1>3. \A v \in Nodes : v # u => (Settled(v)' <=> Settled(v))
  <2> TAKE v \in Nodes
  <2>1. v # u => <<dist[v], v>> # top
    BY <1>2
  <2>2. QED
    BY <1>1, <2>1 DEF Settled
<1>4. \A v \in SettledNodes : Settled(v)'
  BY <1>1 DEF Settled, SettledNodes
<1>5. PICK r \in [Nodes -> Nat] : RankedBy(r)
  BY DEF TreeInv
<1>6. SettledNodes \subseteq Nodes /\ SettledNodes \subseteq SettledNodes'
  BY <1>4 DEF SettledNodes
<1>7. TreeSettled'
  <2>1. \A v \in Nodes \ {start} : /\ dist[v] = INF => pre[v] = -1
                                   /\ dist[v] < INF => pre[v] \in SettledNodes
    BY DEF TreeInv, TreeSettled
  <2>2. start' = start /\ dist' = dist /\ pre' = pre
    BY <1>1
  <2>3. \A v \in Nodes \ {start'} : /\ dist'[v] = INF => pre'[v] = -1
                                    /\ dist'[v] < INF => pre'[v] \in SettledNodes'
    BY <1>6, <2>1, <2>2
  <2>4. QED
    BY <2>3 DEF TreeSettled
<1>8. CASE Settled(u)' <=> Settled(u)
  <2>1. SettledNodes' = SettledNodes
    BY <1>3, <1>8 DEF SettledNodes
  <2>2. RankedBy(r)'
    BY <1>1, <1>5, <2>1 DEF RankedBy
  <2>3. QED
    BY <1>7, <2>2 DEF TreeInv
<1>9. CASE ~(Settled(u)' <=> Settled(u))
  <2>1. u \in Nodes /\ u \notin SettledNodes /\ Settled(u)'
    BY <1>2, <1>4, <1>9 DEF SettledNodes
  <2>2. SettledNodes' = SettledNodes \cup {u}
    BY <1>3, <1>6, <2>1 DEF SettledNodes
  <2>3. PICK n \in Nat : Cardinality(SettledNodes) = n /\ Cardinality(SettledNodes)' = n + 1
    <3>1. /\ IsFiniteSet(SettledNodes) /\ Cardinality(SettledNodes) \in Nat
          /\ Cardinality(SettledNodes \cup {u}) = Cardinality(SettledNodes) + 1
      BY <2>1, SettledCount, FS_AddElement
    <3>2. QED
      BY <2>2, <3>1
  <2>4. PICK q \in [Nodes -> Nat] : q[u] = n /\ \A v \in SettledNodes : q[v] = r[v]
    <3>1. [r EXCEPT ![u] = n] \in [Nodes -> Nat]
      BY <1>5
    <3>2. \A v \in SettledNodes : [r EXCEPT ![u] = n][v] = r[v]
      BY <1>5, <1>6, <2>1
    <3>3. QED
      BY <1>5, <2>1, <3>1, <3>2
  <2>5. dist[u] < INF
    BY <1>1, <2>1 DEF Settled
  <2>6. u # start => pre[u] \in SettledNodes
    BY <2>1, <2>5 DEF TreeInv, TreeSettled
  <2>7. \A v \in SettledNodes : v # start => pre[v] \in SettledNodes
    BY DEF TreeInv, TreeSettled, SettledNodes, Settled
  <2>8. \A v \in SettledNodes : r[v] \in Nat /\ r[v] < n /\ (v # start => r[pre[v]] < r[v])
    <3>1. \A v \in SettledNodes : r[v] < n /\ (v # start => r[pre[v]] < r[v])
      BY <1>5, <2>3 DEF RankedBy
    <3>2. QED
      BY <1>5, <1>6, <3>1
  <2>9. ASSUME NEW v \in SettledNodes'
        PROVE  q[v] < n + 1 /\ (v # start => q[pre[v]] < q[v])
    <3>1. CASE v = u
      BY <2>3, <2>4, <2>6, <2>8, <3>1
    <3>2. CASE v \in SettledNodes
      BY <2>3, <2>4, <2>7, <2>8, <3>2
    <3>3. QED
      BY <2>2, <3>1, <3>2
  <2>10. RankedBy(q)'
    BY <1>1, <2>3, <2>9 DEF RankedBy
  <2>11. QED
    BY <1>7, <2>4, <2>10 DEF TreeInv
<1>10. QED
  BY <1>8, <1>9

(* An edge is looked at only from a settled node, and improves only nodes  *)
(* that are not settled.                                                   *)
LEMMA TreeAfterRelax ==
    ASSUME TypeOK, OrderInv, dist[start] = 0, TreeInv, Relax
    PROVE  TreeInv'
<1>1. PICK e \in left :
         /\ left' = left \ {e} /\ edges' = edges /\ start' = start
         /\ \/ dist[e[2]] <= Through(e) /\ UNCHANGED <<dist, pre, pq>>
            \/ dist[e[2]] > Through(e) /\ Improve(e)
  BY RelaxCases
<1>2. CASE UNCHANGED <<dist, pre, pq>>
  <2>1. SettledNodes' = SettledNodes
    BY <1>2 DEF SettledNodes, Settled
  <2>2. QED
    BY <1>1, <1>2, <2>1 DEF TreeInv, TreeSettled, RankedBy
<1>3. CASE dist[e[2]] > Through(e) /\ Improve(e)
  <2> DEFINE x == e[2]
  <2>1. e \in edges
    BY DEF TypeOK
  <2>2. x \in Nodes /\ e[1] \in Nodes /\ Through(e) \in Nat /\ Through(e) < INF
    BY <1>3, <2>1, EdgeType, DijkstraAssumption
  <2>3. ~Settled(x) /\ x # start /\ e[1] \in SettledNodes
    BY <1>3, <2>2, ImprovedIsOpen DEF OrderInv, TailsSettled, SettledNodes
  <2>4. /\ dist'[x] = Through(e) /\ \A v \in Nodes \ {x} : dist'[v] = dist[v]
        /\ pre'[x] = e[1] /\ \A v \in Nodes \ {x} : pre'[v] = pre[v]
        /\ pq' = pq \cup {<<Through(e), x>>}
    BY <1>3, <2>2 DEF Improve, TypeOK
  <2>5. SettledNodes' = SettledNodes
    <3>1. ~Settled(x)'
      BY <2>4 DEF Settled
    <3>2. ASSUME NEW v \in Nodes \ {x} PROVE Settled(v)' <=> Settled(v)
      BY <2>4 DEF Settled
    <3>3. QED
      BY <3>1, <3>2, <2>3 DEF SettledNodes
  <2>6. x \notin SettledNodes
    BY <2>3 DEF SettledNodes
  <2>7. TreeSettled'
    <3>1. ASSUME NEW v \in Nodes \ {start}
          PROVE  /\ dist'[v] = INF => pre'[v] = -1
                 /\ dist'[v] < INF => pre'[v] \in SettledNodes
      <4>1. CASE v = x
        BY <2>2, <2>3, <2>4, <4>1, DijkstraAssumption
      <4>2. CASE v # x
        BY <2>4, <4>2 DEF TreeInv, TreeSettled
      <4>3. QED
        BY <4>1, <4>2
    <3>2. QED
      BY <1>1, <2>5, <3>1 DEF TreeSettled
  <2>8. PICK r \in [Nodes -> Nat] : RankedBy(r)
    BY DEF TreeInv
  <2>9. \A v \in SettledNodes : pre'[v] = pre[v]
    BY <2>4, <2>6 DEF SettledNodes
  <2>10. RankedBy(r)'
    BY <1>1, <2>5, <2>8, <2>9 DEF RankedBy
  <2>11. QED
    BY <2>7, <2>8, <2>10 DEF TreeInv
<1>4. QED
  BY <1>1, <1>2, <1>3

LEMMA TreeInvariant == Spec => []TreeInv
<1>1. Init => TreeInv
  BY TreeInitially
<1>2. TypeOK /\ OrderInv /\ dist[start] = 0 /\ TreeInv /\ [Next]_vars => TreeInv'
  <2> SUFFICES ASSUME TypeOK, OrderInv, dist[start] = 0, TreeInv, [Next]_vars PROVE TreeInv'
    OBVIOUS
  <2>1. CASE UNCHANGED vars
    <3>1. SettledNodes' = SettledNodes
      BY <2>1 DEF vars, SettledNodes, Settled
    <3>2. QED
      BY <2>1, <3>1 DEF vars, TreeInv, TreeSettled, RankedBy
  <2>2. QED
    BY <2>1, TreeAfterPop, TreeAfterRelax DEF Next
<1>3. QED
  BY <1>1, <1>2, TypeCorrect, OrderInvariant, PTL DEF Spec
-----------------------------------------------------------------------------
(***************************************************************************)
(* The way back, at the end.                                               *)
(***************************************************************************)
Reached == {v \in Nodes : dist[v] < INF}

(* The end as the three invariants leave it: no edge shortens a way; every *)
(* label is backed exactly, by a predecessor of lower rank; and what has   *)
(* no label has no predecessor.                                            *)
Final(r) ==
    /\ dist[start] = 0 /\ start \in Reached
    /\ \A e \in edges : dist[e[1]] < INF => dist[e[2]] <= Through(e)
    /\ \A v \in Reached : r[v] \in 0..N - 1
    /\ \A v \in Reached \ {start} :
          /\ pre[v] \in Reached /\ r[pre[v]] < r[v]
          /\ \E e \in edges : e[1] = pre[v] /\ e[2] = v /\ dist[v] = Through(e)
    /\ \A v \in Nodes \ Reached : pre[v] = -1

LEMMA FinalState ==
    ASSUME TypeOK, LoopInv, Certified, TreeInv, Done
    PROVE  \E r \in [Nodes -> Nat] : Final(r)
<1>1. PICK r \in [Nodes -> Nat] : RankedBy(r)
  BY DEF TreeInv
<1>2. /\ \A e \in edges : dist[e[1]] < INF => dist[e[2]] <= Through(e)
      /\ \A v \in Nodes \ {start} : dist[v] < INF =>
            \E e \in edges : e[1] = pre[v] /\ e[2] = v /\ dist[v] = Through(e)
  BY DEF Certified
<1>3. SettledNodes = Reached
  BY DEF Done, SettledNodes, Settled, Reached
<1>4. dist[start] = 0 /\ start \in Reached
  BY DijkstraAssumption DEF LoopInv, LabelsBacked, TypeOK, Reached
<1>5. ASSUME NEW v \in Reached PROVE r[v] \in 0..N - 1
  <2>1. r[v] \in Nat /\ r[v] < Cardinality(SettledNodes)
    BY <1>1, <1>3 DEF RankedBy, Reached
  <2>2. QED
    BY <2>1, SettledCount, DijkstraAssumption
<1>6. ASSUME NEW v \in Reached \ {start}
      PROVE  /\ pre[v] \in Reached /\ r[pre[v]] < r[v]
             /\ \E e \in edges : e[1] = pre[v] /\ e[2] = v /\ dist[v] = Through(e)
  <2>1. v \in Nodes \ {start} /\ dist[v] < INF
    BY DEF Reached
  <2>2. pre[v] \in Reached
    BY <1>3, <2>1 DEF TreeInv, TreeSettled
  <2>3. r[pre[v]] < r[v]
    BY <1>1, <1>3 DEF RankedBy
  <2>4. QED
    BY <1>2, <2>1, <2>2, <2>3
<1>7. ASSUME NEW v \in Nodes \ Reached PROVE pre[v] = -1
  <2>1. dist[v] = INF
    BY DijkstraAssumption DEF Reached, TypeOK
  <2>2. v \in Nodes \ {start}
    BY <1>4
  <2>3. QED
    BY <2>1, <2>2 DEF TreeInv, TreeSettled
<1>8. Final(r)
  BY <1>2, <1>4, <1>5, <1>6, <1>7 DEF Final
<1>9. QED
  BY <1>1, <1>8

(* Induction on the rank, for a set of nodes: what a node inherits from    *)
(* its predecessor every node that has been reached has.                   *)
LEMMA AlongTheTree ==
    ASSUME TypeOK, NEW r \in [Nodes -> Nat], Final(r), NEW Good, start \in Good,
           \A v \in Reached \ {start} : pre[v] \in Good => v \in Good
    PROVE  Reached \subseteq Good
<1> DEFINE Bad == {v \in Reached : v \notin Good}
           Ranks == {r[v] : v \in Bad}
<1>1. SUFFICES ASSUME Bad # {} PROVE FALSE
  OBVIOUS
<1>2. PICK n \in Ranks : \A m \in Ranks : n <= m
  <2>1. Ranks \in SUBSET Nat /\ Ranks # {}
    BY <1>1 DEF Reached
  <2> HIDE DEF Ranks
  <2>2. QED
    BY <2>1, LeastNatural
<1>3. PICK v \in Bad : r[v] = n
  BY <1>2
<1>4. v \in Reached \ {start} /\ pre[v] \notin Good
  BY <1>3
<1>5. pre[v] \in Bad /\ r[pre[v]] < r[v]
  BY <1>4 DEF Final
<1>6. r[pre[v]] \in Nat /\ r[v] \in Nat /\ r[v] <= r[pre[v]]
  BY <1>2, <1>3, <1>5 DEF Reached
<1>7. QED
  BY <1>5, <1>6

(* A shortest edge between a node and its predecessor has just the weight  *)
(* that is missing.                                                        *)
LEMMA BackedByWeight ==
    ASSUME TypeOK, NEW r, Final(r), NEW v \in Reached \ {start}
    PROVE  /\ Weight(pre[v], v) \in Nat
           /\ dist[pre[v]] \in Nat /\ dist[v] = dist[pre[v]] + Weight(pre[v], v)
<1> DEFINE W == {e[3] : e \in {x \in edges : x[1] = pre[v] /\ x[2] = v}}
<1>1. PICK e \in edges : e[1] = pre[v] /\ e[2] = v /\ dist[v] = Through(e)
  BY DEF Final
<1>2. W \in SUBSET Nat /\ e[3] \in W
  BY <1>1, EdgeType
<1>3. dist[pre[v]] \in Nat /\ dist[pre[v]] < INF /\ e[3] \in Nat /\ dist[v] \in Nat
  <2>1. pre[v] \in Reached /\ v \in Nodes
    BY DEF Final, Reached
  <2>2. QED
    BY <1>2, <2>1, DijkstraAssumption DEF TypeOK, Reached
<1>4. ASSUME NEW w \in W PROVE dist[v] <= dist[pre[v]] + w
  <2>1. PICK f \in edges : f[1] = pre[v] /\ f[2] = v /\ f[3] = w
    BY <1>4
  <2>2. dist[f[2]] <= Through(f)
    BY <1>3, <2>1 DEF Final
  <2>3. QED
    BY <2>1, <2>2 DEF Through
<1>5. Weight(pre[v], v) = Least(W)
  BY DEF Weight
<1> HIDE DEF W
<1>6. Least(W) \in W /\ Least(W) \in Nat /\ Least(W) <= e[3]
  BY <1>2, LeastIs
<1>7. dist[v] = dist[pre[v]] + e[3]
  BY <1>1 DEF Through
<1>8. dist[v] <= dist[pre[v]] + Least(W)
  BY <1>4, <1>6
<1>9. dist[v] = dist[pre[v]] + Least(W)
  BY <1>3, <1>6, <1>7, <1>8
<1>10. QED
  BY <1>3, <1>5, <1>6, <1>9

LEMMA StepBackType ==
    ASSUME TypeOK, NEW r, Final(r), NEW d \in Labels
    PROVE  StepBack(d) \in Labels
<1>1. ASSUME NEW v \in Nodes, v # start, pre[v] # -1
      PROVE  d[pre[v]] + Weight(pre[v], v) \in Nat
  <2>1. v \in Reached \ {start} /\ pre[v] \in Nodes
    BY <1>1 DEF Final, Reached
  <2>2. Weight(pre[v], v) \in Nat /\ d[pre[v]] \in Nat
    BY <2>1, BackedByWeight DEF Labels
  <2>3. QED
    BY <2>2
<1>2. QED
  BY <1>1, DijkstraAssumption DEF StepBack, Labels

LEMMA BackIs ==
    ASSUME TypeOK, NEW r, Final(r)
    PROVE  /\ Back(0) = NoEdge
           /\ \A k \in 1..N : Back(k) = StepBack(Back(k - 1))
<1> DEFINE F == [d \in Labels |-> StepBack(d)]
           Solves(g) == g = [k \in 0..N |-> IF k = 0 THEN NoEdge ELSE StepBack(g[k - 1])]
<1>1. F \in [Labels -> Labels] /\ NoEdge \in Labels /\ N \in Nat
  BY StepBackType, NoEdgeType, DijkstraAssumption
<1>2. \E g : Solves(g)
  <2>1. PICK g \in [0..N -> Labels] : Iterates(g, F, NoEdge, N)
    <3> HIDE DEF F
    <3>1. QED
      BY <1>1, Iterate
  <2>2. ASSUME NEW k \in 0..N
        PROVE  g[k] = IF k = 0 THEN NoEdge ELSE StepBack(g[k - 1])
    <3>1. k # 0 => k - 1 \in 0..N
      BY <1>1
    <3>2. k # 0 => g[k - 1] \in Labels
      BY <3>1
    <3>3. QED
      BY <2>1, <3>2 DEF Iterates
  <2>3. g = [k \in 0..N |-> g[k]]
    OBVIOUS
  <2>4. Solves(g)
    BY <2>2, <2>3
  <2>5. QED
    BY <2>4
<1> DEFINE f == CHOOSE g : Solves(g)
<1>3. Solves(f)
  BY <1>2
<1>4. \A k \in 0..N : Back(k) = f[k]
  BY DEF Back
<1>5. \A k \in 0..N : f[k] = IF k = 0 THEN NoEdge ELSE StepBack(f[k - 1])
  BY <1>3
<1> HIDE DEF f
<1>6. 0 \in 0..N /\ \A k \in 1..N : k \in 0..N /\ k # 0 /\ k - 1 \in 0..N
  BY <1>1
<1>7. QED
  BY <1>4, <1>5, <1>6

(* Every label is the length of a walk, with as many edges as its rank.    *)
LEMMA WalkIsFound ==
    ASSUME TypeOK, NEW r \in [Nodes -> Nat], Final(r)
    PROVE  \A v \in Reached : Within(N)[v] <= dist[v]
<1> DEFINE Good == {v \in Nodes : \A k \in 0..N : r[v] <= k => Within(k)[v] <= dist[v]}
<1>1. N \in Nat /\ 0 \in 0..N /\ N \in 0..N
  BY DijkstraAssumption
<1>2. start \in Good
  <2>1. ASSUME NEW k \in 0..N PROVE Within(k)[start] <= dist[start]
    <3>1. start \in Nodes /\ dist[start] = 0
      BY DEF TypeOK, Final
    <3>2. 0 <= k /\ Within(0) = NoEdge /\ NoEdge[start] = 0
      BY <1>1, <3>1, WithinIs DEF NoEdge
    <3>3. Within(k)[start] <= Within(0)[start]
      BY <1>1, <3>1, <3>2, WithinFalls
    <3>4. QED
      BY <3>1, <3>2, <3>3
  <2>2. QED
    BY <2>1 DEF TypeOK
<1>3. ASSUME NEW v \in Reached \ {start}, pre[v] \in Good PROVE v \in Good
  <2>1. PICK e \in edges : e[1] = pre[v] /\ e[2] = v /\ dist[v] = Through(e)
    BY DEF Final
  <2>2. v \in Nodes /\ pre[v] \in Nodes /\ r[pre[v]] < r[v] /\ r[pre[v]] \in Nat /\ r[v] \in Nat
    BY DEF Final, Reached
  <2>3. ASSUME NEW k \in 0..N, r[v] <= k PROVE Within(k)[v] <= dist[v]
    <3>1. k \in 1..N /\ k - 1 \in 0..N /\ r[pre[v]] <= k - 1
      BY <1>1, <2>2, <2>3
    <3>2. PICK d \in Labels : d = Within(k - 1)
      BY <3>1, WithinIs
    <3>3. Within(k) = OneMore(d)
      BY <3>1, <3>2, WithinIs
    <3>4. OneMore(d)[v] <= d[e[1]] + e[3]
      BY <2>1, <2>2, OneMoreIs
    <3>5. d[pre[v]] <= dist[pre[v]]
      BY <1>3, <3>1, <3>2
    <3>6. dist[v] = dist[pre[v]] + e[3]
      BY <2>1 DEF Through
    <3>7. d[pre[v]] \in Nat /\ dist[pre[v]] \in Nat /\ e[3] \in Nat /\ OneMore(d)[v] \in Nat
      <4>1. OneMore(d) \in Labels
        BY OneMoreIs
      <4>2. dist[pre[v]] \in Nat /\ e[3] \in Nat
        BY <2>1, <2>2, EdgeType, DijkstraAssumption DEF TypeOK
      <4>3. QED
        BY <2>2, <4>1, <4>2 DEF Labels
    <3>8. OneMore(d)[v] <= d[pre[v]] + e[3]
      BY <2>1, <3>4
    <3>9. OneMore(d)[v] <= dist[v]
      BY <3>5, <3>6, <3>7, <3>8
    <3>10. QED
      BY <3>3, <3>9
  <2>4. QED
    BY <2>2, <2>3
<1>4. Reached \subseteq Good
  <2> HIDE DEF Good
  <2>1. QED
    BY <1>2, <1>3, AlongTheTree
<1>5. \A v \in Reached : r[v] <= N
  BY <1>1 DEF Final
<1>6. QED
  BY <1>1, <1>4, <1>5

(* Going back from a node takes at most as many steps as its rank, and     *)
(* adds up to its label.                                                   *)
LEMMA WayIsLabel ==
    ASSUME TypeOK, NEW r \in [Nodes -> Nat], Final(r)
    PROVE  \A v \in Reached : Back(N)[v] = dist[v]
<1> DEFINE Good == {v \in Nodes : \A k \in 0..N : r[v] <= k => Back(k)[v] = dist[v]}
<1>1. N \in Nat /\ 0 \in 0..N /\ N \in 0..N
  BY DijkstraAssumption
<1>2. start \in Good
  <2>1. start \in Nodes /\ dist[start] = 0
    BY DEF TypeOK, Final
  <2>2. ASSUME NEW k \in 0..N PROVE Back(k)[start] = 0
    <3>1. CASE k = 0
      BY <2>1, <3>1, BackIs DEF NoEdge
    <3>2. CASE k # 0
      <4>1. k \in 1..N
        BY <1>1, <3>2
      <4>2. Back(k) = StepBack(Back(k - 1))
        BY <4>1, BackIs
      <4>3. QED
        BY <2>1, <4>2 DEF StepBack
    <3>3. QED
      BY <3>1, <3>2
  <2>3. QED
    BY <2>1, <2>2
<1>3. ASSUME NEW v \in Reached \ {start}, pre[v] \in Good PROVE v \in Good
  <2>1. v \in Nodes /\ pre[v] \in Nodes /\ r[pre[v]] < r[v] /\ r[pre[v]] \in Nat /\ r[v] \in Nat
    BY DEF Final, Reached
  <2>2. ASSUME NEW k \in 0..N, r[v] <= k PROVE Back(k)[v] = dist[v]
    <3>1. k \in 1..N /\ k - 1 \in 0..N /\ r[pre[v]] <= k - 1
      BY <1>1, <2>1, <2>2
    <3>2. Back(k) = StepBack(Back(k - 1))
      BY <3>1, BackIs
    <3>3. pre[v] # -1 /\ v # start
      BY <2>1 DEF Nodes
    <3>4. StepBack(Back(k - 1))[v] = Back(k - 1)[pre[v]] + Weight(pre[v], v)
      BY <2>1, <3>3 DEF StepBack
    <3>5. Back(k - 1)[pre[v]] = dist[pre[v]]
      BY <1>3, <3>1
    <3>6. dist[v] = dist[pre[v]] + Weight(pre[v], v)
      BY BackedByWeight
    <3>7. QED
      BY <3>2, <3>4, <3>5, <3>6
  <2>3. QED
    BY <2>1, <2>2
<1>4. Reached \subseteq Good
  <2> HIDE DEF Good
  <2>1. QED
    BY <1>2, <1>3, AlongTheTree
<1>5. \A v \in Reached : r[v] <= N
  BY <1>1 DEF Final
<1>6. QED
  BY <1>1, <1>4, <1>5

(***************************************************************************)
(* What watch::dijkstra leaves when its queue is empty: dist is what the   *)
(* shortest walks give (up to INF), and pre leads from every place that    *)
(* was reached back to the start over edges that add up to its distance.   *)
(* Weights of 0 and parallel edges are allowed.                            *)
(***************************************************************************)
THEOREM ResultIsCorrect == Spec => []ResultIsRight
<1>1. TypeOK /\ LoopInv /\ Certified /\ TreeInv => ResultIsRight
  <2> SUFFICES ASSUME TypeOK, LoopInv, Certified, TreeInv, Done
               PROVE  /\ dist = Shortest
                      /\ \A v \in Nodes : dist[v] < INF => WayBack[v] = dist[v]
    BY DEF ResultIsRight
  <2>1. PICK r \in [Nodes -> Nat] : Final(r)
    BY FinalState
  <2>2. N \in 0..N /\ \A v \in Nodes : dist[v] \in 0..INF
    BY DijkstraAssumption DEF TypeOK
  <2>3. ASSUME NEW v \in Nodes PROVE dist[v] = Within(N)[v]
    <3>1. dist[v] <= Within(N)[v]
      <4>1. /\ dist[start] = 0
            /\ \A e \in edges : dist[e[1]] < INF => dist[e[2]] <= Through(e)
        BY <2>1 DEF Final
      <4>2. QED
        BY <2>2, <4>1, NoWalkIsShorter
    <3>2. Within(N)[v] \in 0..INF
      BY <2>2, WithinFalls
    <3>3. dist[v] < INF => Within(N)[v] <= dist[v]
      BY <2>1, WalkIsFound DEF Reached
    <3>4. QED
      BY <2>2, <3>1, <3>2, <3>3, DijkstraAssumption
  <2>4. dist = Shortest
    <3>1. Within(N) \in [Nodes -> Nat] /\ dist \in [Nodes -> 0..INF]
      BY <2>2, WithinIs DEF Labels, TypeOK
    <3>2. QED
      BY <2>3, <3>1 DEF Shortest
  <2>5. ASSUME NEW v \in Nodes, dist[v] < INF PROVE WayBack[v] = dist[v]
    BY <2>1, <2>5, WayIsLabel DEF Reached, WayBack
  <2>6. QED
    BY <2>4, <2>5
<1>2. QED
  BY <1>1, TypeCorrect, LoopInvariant, ResultIsCertified, TreeInvariant, PTL
=============================================================================
