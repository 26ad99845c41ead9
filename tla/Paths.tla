--------------------------------- MODULE Paths ---------------------------------
(***************************************************************************)
(* Paths between two nodes of a case's graph                               *)
(* (api/graphlagoon/services/paths.py; its twin is utils/paths.ts).        *)
(* A path is its nodes; what it costs and the edges it takes follow from   *)
(* the arcs.                                                               *)
(***************************************************************************)
EXTENDS Traces

Arc(e, from, to, weight) ==
    [from |-> from, to |-> to, edge |-> e.id,
     w |-> IF weight = "hops" THEN Whole(1) ELSE Over(Whole(1), Whole(e.amount))]

\* mutant: of parallel edges the first by id stands for all
LighterById(a, b) == a.edge < b.edge

Lighter(a, b) == Less(a.w, b.w) \/ (a.w = b.w /\ a.edge < b.edge)

Arcs(edges, directed, weight) ==
    LET usable == {e \in edges : e.src # e.dst /\ (weight = "hops" \/ e.amount > 0)}
    IN  {Arc(e, e.src, e.dst, weight) : e \in usable}
        \cup IF directed THEN {} ELSE {Arc(e, e.dst, e.src, weight) : e \in usable}

\* _adjacency: between two nodes the lightest arc only
Adjacency(edges, directed, weight) ==
    LET arcs == Arcs(edges, directed, weight)
    IN  {a \in arcs : \A b \in arcs : b.from = a.from /\ b.to = a.to => b = a \/ Lighter(a, b)}

ArcOf(adj, u, v) == CHOOSE a \in adj : a.from = u /\ a.to = v
Cost(adj, path) == Total([i \in 1..(Len(path) - 1) |-> ArcOf(adj, path[i], path[i + 1]).w])

Unwind(pred, source, target) ==
    LET back[v \in DOMAIN pred \cup {source}] ==
            IF v = source THEN <<v>> ELSE Append(back[pred[v]], v)
    IN  back[target]

Ascending(nodes) == Sorted(nodes, <)
Nodes(adj) == {a.from : a \in adj} \cup {a.to : a \in adj}
Repeat(Round(_), start, times) == FoldLeft(LAMBDA s, i : Round(s), start, [i \in 1..times |-> i])

\* bfs: level after level, the neighbours of a node by their id
Bfs(adj, source, target) ==
    LET visit(s, u) ==
            LET new == {a.to : a \in {b \in adj : b.from = u}} \ DOMAIN s.pred
            IN  [pred |-> [v \in new |-> u] @@ s.pred, next |-> s.next \o Ascending(new)]
        level(s) == IF target \in DOMAIN s.pred THEN s
                    ELSE FoldLeft(visit, [s EXCEPT !.next = <<>>], s.next)
        end == Repeat(level, [pred |-> source :> source, next |-> <<source>>], Cardinality(Nodes(adj)))
    IN  IF target \in DOMAIN end.pred THEN {Unwind(end.pred, source, target)} ELSE {}

\* a node whose distance is final is left alone
StillOpen(s, arc) == arc.to \notin s.done

\* mutant: the first way to a node is kept
CloserIfNew(s, to, d) == to \notin DOMAIN s.dist

Closer(s, to, d) == to \notin DOMAIN s.dist \/ Less(d, s.dist[to])

\* dijkstra: the nearest open node, by distance and id, until it is the target
Dijkstra(adj, source, target, blockedNodes, blockedArcs) ==
    LET nearest(s) ==
            CHOOSE u \in DOMAIN s.dist \ s.done : \A v \in DOMAIN s.dist \ s.done :
                v = u \/ Less(s.dist[u], s.dist[v]) \/ (s.dist[u] = s.dist[v] /\ u < v)
        reach(s, u) ==
            LET arcs == {a \in adj : /\ a.from = u /\ StillOpen(s, a) /\ a.to \notin blockedNodes
                                     /\ <<u, a.to>> \notin blockedArcs
                                     /\ Closer(s, a.to, Plus(s.dist[u], a.w))}
                ends == {a.to : a \in arcs}
            IN  [s EXCEPT !.dist = [v \in ends |-> Plus(s.dist[u], ArcOf(arcs, u, v).w)] @@ @,
                          !.pred = [v \in ends |-> u] @@ @]
        settle(s) ==
            IF target \in s.done \/ DOMAIN s.dist \ s.done = {} THEN s
            ELSE LET u == nearest(s)
                     t == [s EXCEPT !.done = @ \cup {u}]
                 IN  IF u = target THEN t ELSE reach(t, u)
        end == Repeat(settle, [dist |-> source :> Zero, pred |-> <<>>, done |-> {}],
                      Cardinality(Nodes(adj) \cup {source}))
    IN  IF target \in end.done THEN {Unwind(end.pred, source, target)} ELSE {}

\* mutant: only the arcs of the last path found are barred
BarredByLast(found, root) ==
    LET p == found[Len(found)] IN {<<p[Len(root)], p[Len(root) + 1]>>}

\* the arcs by which the paths found leave the same root
Barred(found, root) ==
    {<<p[Len(root)], p[Len(root) + 1]>> :
        p \in {q \in ToSet(found) : Len(q) > Len(root) /\ SubSeq(q, 1, Len(root)) = root}}

BestFirst(adj, paths) ==
    Sorted(paths, LAMBDA p, q :
        \/ Less(Cost(adj, p), Cost(adj, q))
        \/ /\ Cost(adj, p) = Cost(adj, q)
           /\ \E i \in DOMAIN p : /\ SubSeq(p, 1, i - 1) = SubSeq(q, 1, i - 1)
                                  /\ i > Len(q) \/ p[i] < q[i])

\* yen: the k lightest paths without loops
Yen(adj, source, target, k) ==
    LET spurs(found) ==
            LET prev == found[Len(found)] IN
            UNION {LET root == SubSeq(prev, 1, i) IN
                   {SubSeq(root, 1, i - 1) \o spur :
                       spur \in Dijkstra(adj, prev[i], target, ToSet(SubSeq(root, 1, i - 1)), Barred(found, root))} :
                   i \in 1..(Len(prev) - 1)}
        another(s) ==
            IF Len(s.found) >= k \/ s.over THEN s
            ELSE LET candidates == s.candidates \cup (spurs(s.found) \ ToSet(s.found))
                 IN  IF candidates = {} THEN [s EXCEPT !.over = TRUE]
                     ELSE LET best == Head(BestFirst(adj, candidates)) IN
                          [s EXCEPT !.found = Append(@, best), !.candidates = candidates \ {best}]
        first == Dijkstra(adj, source, target, {}, {})
    IN  IF first = {} THEN <<>>
        ELSE Repeat(another, [found |-> SetToSeq(first), candidates |-> {}, over |-> FALSE], k).found

\* the money waits at the source as long as it likes
TooLong(arrival, e, source, dwell) == e.src # source /\ e.t - arrival[e.src] > dwell

\* earliest_arrival: one pass over the edges by time and id; the edges of the way are kept
Earliest(edges, source, target, t0, dwell) ==
    LET take(s, e) ==
            IF e.src \notin DOMAIN s.arrival THEN s
            ELSE IF e.t < s.arrival[e.src] \/ TooLong(s.arrival, e, source, dwell) THEN s
            ELSE IF e.dst \in DOMAIN s.arrival /\ e.t >= s.arrival[e.dst] THEN s
            ELSE [arrival |-> (e.dst :> e.t) @@ s.arrival, pred |-> (e.dst :> e) @@ s.pred]
        end == FoldLeft(take, [arrival |-> source :> t0, pred |-> <<>>],
                        InOrder({e \in edges : e.src # e.dst}))
        back[v \in DOMAIN end.pred \cup {source}] ==
            IF v = source THEN <<>> ELSE Append(back[end.pred[v].src], end.pred[v])
    IN  IF target = source \/ target \notin DOMAIN end.pred THEN {} ELSE {back[target]}

\* find_paths: the paths of a request, best first (for "earliest", their edges)
WeightOf(req) == IF req.mode = "shortest" THEN "hops" ELSE req.weight
FindPaths(req, edges) ==
    LET adj == Adjacency(edges, req.directed, WeightOf(req))
    IN  IF req.source = req.target THEN <<>>
        ELSE CASE req.mode = "earliest" ->
                      SetToSeq(Earliest(edges, req.source, req.target, req.from, req.dwell))
               [] req.mode = "k-shortest" -> Yen(adj, req.source, req.target, req.k)
               [] req.mode = "shortest" -> SetToSeq(Bfs(adj, req.source, req.target))
               [] req.mode = "weighted" -> SetToSeq(Dijkstra(adj, req.source, req.target, {}, {}))
================================================================================
