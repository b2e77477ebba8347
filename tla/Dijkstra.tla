------------------------------ MODULE Dijkstra ------------------------------
(***************************************************************************)
(* How offline_build computes one start's distances and predecessors: the  *)
(* undirected graph of main, and watch::dijkstra with its priority queue   *)
(* that keeps entries whose label has been improved since.                 *)
(*                                                                         *)
(* Nodes are their indices.  The order of a node's edge list is left open: *)
(* it only decides which of several shortest ways is found.                *)
(***************************************************************************)
EXTENDS Integers, FiniteSets

CONSTANTS N,          \* number of nodes
          Graphs,     \* the edge tables to consider: sets of rows <<u, v, w>>
          INF,        \* the label of what has not been reached
          MaxInt      \* the greatest int

Nodes == 0..N - 1

(* The edge table is taken to have no negative weight (with one, the loop  *)
(* would go back and forth over it until the labels wrap) and none within  *)
(* INF of the greatest int.                                                *)
ASSUME DijkstraAssumption ==
    /\ N \in Nat \ {0} /\ INF \in Nat \ {0} /\ MaxInt \in Nat
    /\ \A rows \in Graphs : rows \subseteq Nodes \X Nodes \X (0..MaxInt - INF)

VARIABLES edges,      \* of the adjacency lists: <<from, to, weight>>
          start,
          dist, pre,
          pq,         \* entries <<cur_dist, u>>
          left        \* edges of the node taken last, still to be looked at

vars == <<edges, start, dist, pre, pq, left>>

TypeOK ==
    /\ edges \subseteq Nodes \X Nodes \X (0..MaxInt - INF)
    /\ start \in Nodes
    /\ dist \in [Nodes -> 0..INF]
    /\ pre \in [Nodes -> Nodes \cup {-1}]
    /\ pq \subseteq (0..INF - 1) \X Nodes
    /\ left \subseteq edges

(* Each row makes an edge in both directions.                              *)
BothWays(rows) == rows \cup {<<e[2], e[1], e[3]>> : e \in rows}

Init ==
    /\ \E rows \in Graphs : edges = BothWays(rows)
    /\ start \in Nodes
    /\ dist = [v \in Nodes |-> IF v = start THEN 0 ELSE INF]
    /\ pre = [v \in Nodes |-> -1]
    /\ pq = {<<0, start>>}
    /\ left = {}
-----------------------------------------------------------------------------
Before(p, q) == p[1] < q[1] \/ (p[1] = q[1] /\ p[2] <= q[2])

(* Mutant of Pop: the greatest first, as without greater<>.                *)
Pop_Greatest ==
    /\ left = {}
    /\ \E top \in pq :
          /\ \A q \in pq : Before(q, top)
          /\ pq' = pq \ {top}
          /\ left' = IF top[1] > dist[top[2]] THEN {}
                     ELSE {e \in edges : e[1] = top[2]}
    /\ UNCHANGED <<edges, start, dist, pre>>

(* An entry that is greater than its node's label has been overtaken.      *)
Pop ==
    /\ left = {}
    /\ \E top \in pq :
          /\ \A q \in pq : Before(top, q)
          /\ pq' = pq \ {top}
          /\ left' = IF top[1] > dist[top[2]] THEN {}
                     ELSE {e \in edges : e[1] = top[2]}
    /\ UNCHANGED <<edges, start, dist, pre>>

Through(e) == dist[e[1]] + e[3]

(* Mutants of Improve: the node is not queued again; the predecessor is    *)
(* set the first time only.                                                *)
Improve_NoPush(e) ==
    /\ dist' = [dist EXCEPT ![e[2]] = Through(e)]
    /\ pre' = [pre EXCEPT ![e[2]] = e[1]]
    /\ pq' = IF dist[e[2]] = INF THEN pq \cup {<<Through(e), e[2]>>} ELSE pq

Improve_KeepsPre(e) ==
    /\ dist' = [dist EXCEPT ![e[2]] = Through(e)]
    /\ pre' = [pre EXCEPT ![e[2]] = IF pre[e[2]] = -1 THEN e[1] ELSE pre[e[2]]]
    /\ pq' = pq \cup {<<Through(e), e[2]>>}

Improve(e) ==
    /\ dist' = [dist EXCEPT ![e[2]] = Through(e)]
    /\ pre' = [pre EXCEPT ![e[2]] = e[1]]
    /\ pq' = pq \cup {<<Through(e), e[2]>>}

(* Mutant of Relax: >= for >.                                              *)
Relax_OrEqual ==
    \E e \in left :
       /\ left' = left \ {e}
       /\ IF dist[e[2]] >= Through(e) THEN Improve(e) ELSE UNCHANGED <<dist, pre, pq>>
       /\ UNCHANGED <<edges, start>>

Relax ==
    \E e \in left :
       /\ left' = left \ {e}
       /\ IF dist[e[2]] > Through(e) THEN Improve(e) ELSE UNCHANGED <<dist, pre, pq>>
       /\ UNCHANGED <<edges, start>>

Next == Pop \/ Relax

Spec == Init /\ [][Next]_vars

Done == pq = {} /\ left = {}
-----------------------------------------------------------------------------
(***************************************************************************)
(* The loop invariant.  An edge that could still shorten a way has its     *)
(* tail waiting in the queue, at its present label, or is itself waiting   *)
(* to be looked at; every label is backed by the predecessor's label and   *)
(* an edge; and only labels below INF are added to, so that no sum is      *)
(* beyond an int.                                                          *)
(***************************************************************************)
EdgesRelaxed ==
    \A e \in edges : dist[e[1]] < INF =>
        dist[e[2]] <= Through(e) \/ <<dist[e[1]], e[1]>> \in pq \/ e \in left

LabelsBacked ==
    /\ dist[start] = 0 /\ pre[start] = -1
    /\ \A v \in Nodes \ {start} : dist[v] < INF =>
          \E e \in edges : e[1] = pre[v] /\ e[2] = v /\ Through(e) <= dist[v]

SumsFit == \A e \in left : Through(e) <= MaxInt

LoopInv == EdgesRelaxed /\ LabelsBacked /\ SumsFit

(***************************************************************************)
(* A label is final once its node has left the queue at that label: no     *)
(* node's edges are gone through twice, and what the queue still holds for *)
(* it is skipped.                                                          *)
(***************************************************************************)
Settled(v) == dist[v] < INF /\ <<dist[v], v>> \notin pq

SettledStays == [][\A v \in Nodes : Settled(v) => dist'[v] = dist[v] /\ Settled(v)']_vars

(***************************************************************************)
(* The result, against a reference that looks at all walks of up to k      *)
(* edges: the distances are the shortest ones, up to INF, from which on a  *)
(* place counts as out of reach; and from every place that is reached the  *)
(* predecessors lead back to the start, over edges whose weights add up to *)
(* its distance.  The query service relies on that to end.                 *)
(***************************************************************************)
Least(S) == CHOOSE x \in S : \A y \in S : x <= y

(* The labels after no edge, and the ones after one more edge than d.      *)
NoEdge == [v \in Nodes |-> IF v = start THEN 0 ELSE INF]
OneMore(d) ==
    [v \in Nodes |-> Least({d[v]} \cup
        {d[e[1]] + e[3] : e \in {x \in edges : x[2] = v}})]

Within(n) ==
    LET upTo[k \in 0..N] == IF k = 0 THEN NoEdge ELSE OneMore(upTo[k - 1])
    IN upTo[n]
Shortest == Within(N)

(* The length of the way back from v in at most n steps; INF if there is none. *)
Weight(u, v) == Least({e[3] : e \in {x \in edges : x[1] = u /\ x[2] = v}})
StepBack(d) ==
    [v \in Nodes |-> IF v = start THEN 0 ELSE IF pre[v] = -1 THEN INF
                     ELSE d[pre[v]] + Weight(pre[v], v)]
Back(n) ==
    LET steps[k \in 0..N] == IF k = 0 THEN NoEdge ELSE StepBack(steps[k - 1])
    IN steps[n]
WayBack == Back(N)

ResultIsRight ==
    Done => /\ dist = Shortest
            /\ \A v \in Nodes : dist[v] < INF => WayBack[v] = dist[v]
=============================================================================
