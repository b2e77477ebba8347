----------------------------- MODULE MCDijkstra -----------------------------
(* Instance of Dijkstra for TLC: all graphs on four nodes with at most one *)
(* edge of weight 0, 1 or 3 between two of them, and some with parallel    *)
(* edges and loops; INF so small that a way can be as long.                *)
EXTENDS Dijkstra

Pairs == {p \in Nodes \X Nodes : p[1] < p[2]}
Rows(weight) == {<<p[1], p[2], weight[p]>> : p \in {x \in Pairs : weight[x] # 9}}

MCGraphs == {Rows(weight) : weight \in [Pairs -> {0, 1, 3, 9}]}
    \cup {{<<0, 1, 3>>, <<0, 1, 1>>, <<1, 1, 0>>, <<2, 1, 2>>, <<0, 2, 2>>}}
=============================================================================
