------------------------------ MODULE CaseAnalyses ------------------------------
(* What the analyses of a case must answer, stated without the algorithms: ways  *)
(* are enumerated, and the best of them compared with what a reader was given.   *)
EXTENDS CaseGraph

(* Follow the money.                                                             *)

Sum(amounts) == FoldSet(LAMBDA v, sum : Plus(sum, amounts[v]), Zero, DOMAIN amounts)
Left(trace) == [v \in DOMAIN trace.lots |-> Marked(trace.lots[v])]

\* Nothing is made and nothing is lost: what the seeds carried lies with somebody, has
\* left through a stop or over the last layer, was too small or waited too long.
Conserved(trace) ==
    trace.seedTotal = Total(<<Sum(Left(trace)), Sum(trace.exits), trace.frontier,
                              trace.belowMin, trace.expired>>)

\* an edge that takes up in time what another brought
Follows(e, d, stops, dwell) ==
    e.dst = d.src /\ e.dst \notin stops /\ Before(e, d) /\ d.t - e.t <= dwell

\* the edges that some first edges lead to, one after the other
Reached(edges, first, stops, dwell) ==
    LET grow(S, i) == S \cup {d \in edges : \E e \in S : Follows(e, d, stops, dwell)}
    IN  FoldLeft(grow, first, [i \in 1..Cardinality(edges) |-> i])

TraceIsRight(req, graph, trace) ==
    LET edges == Oriented({e \in graph.edges : e.amount > 0}, req.direction)
        seeds == Seeds(req, edges)
    IN  /\ req.allocation # "total" => Conserved(trace)
        /\ \A id \in DOMAIN trace.edgeTrace :
              LET e == CHOOSE d \in edges : d.id = id IN
              /\ ~Less(Whole(e.amount), trace.edgeTrace[id])
              /\ e \in Reached(edges, {d \in edges : d.id \in seeds}, EndNodes(edges), req.dwell)

-------------------------------------------------------------------------------
(* Paths.                                                                     *)

\* what a way costs, of parallel edges the lightest
WayCost(arcs, p) ==
    Total([i \in 1..(Len(p) - 1) |->
             (CHOOSE a \in arcs : /\ a.from = p[i] /\ a.to = p[i + 1]
                                  /\ \A b \in arcs : b.from = p[i] /\ b.to = p[i + 1] => ~Less(b.w, a.w)).w])

\* every way from one node to the other that visits no node twice
Ways(arcs, source, target) ==
    {<<source>> \o w \o <<target>> :
        w \in {x \in SetToAllKPermutations(Nodes(arcs) \ {source, target}) :
                  LET p == <<source>> \o x \o <<target>> IN
                  \A i \in 1..(Len(p) - 1) : \E a \in arcs : a.from = p[i] /\ a.to = p[i + 1]}}

\* the edges that reach the target of a request in time, as a trace follows them
Arrivals(edges, req) ==
    {e \in Reached(edges, {d \in edges : d.src = req.source /\ d.t >= req.from}, {}, req.dwell) :
        e.dst = req.target}

\* a way from the source to the target that time and dwell allow
IsTimed(p, req) ==
    /\ p[1].src = req.source /\ p[1].t >= req.from /\ p[Len(p)].dst = req.target
    /\ \A i \in 1..(Len(p) - 1) : Follows(p[i], p[i + 1], {}, req.dwell)

\* The path with the fewest hops, the lightest one, the k lightest: none better is left out,
\* none is answered twice, and there is no answer only where there is no way.  The earliest
\* arrival is one that time and dwell allow; it is the earliest when no dwell binds.
PathsAreRight(req, graph, paths) ==
    LET arcs == Arcs(graph.edges, req.directed, WeightOf(req))
        ways == Ways(arcs, req.source, req.target)
        wanted == IF req.mode = "k-shortest" THEN Min({req.k, Cardinality(ways)}) ELSE Min({1, Cardinality(ways)})
    IN  IF req.mode = "earliest"
        THEN /\ \A p \in ToSet(paths) : IsTimed(p, req)
             /\ req.dwell = req.noDwell => \A e \in Arrivals(graph.edges, req) :
                   \E p \in ToSet(paths) : p[Len(p)].t <= e.t
        ELSE /\ ToSet(paths) \subseteq ways /\ Cardinality(ToSet(paths)) = Len(paths)
             /\ Len(paths) = wanted
             /\ \A i \in 1..(Len(paths) - 1) : ~Less(WayCost(arcs, paths[i + 1]), WayCost(arcs, paths[i]))
             /\ \A i \in DOMAIN paths, w \in ways \ ToSet(paths) : ~Less(WayCost(arcs, w), WayCost(arcs, paths[i]))

\* A trace keeps the books, and moves money only forward from its seeds; a path is a best one.
AnswersAreRight ==
    \A r \in Readers :
        /\ Done(r, "trace") => \A trace \in reader[r].out : TraceIsRight(reader[r].ask, GraphOf(r), trace)
        /\ Done(r, "paths") => PathsAreRight(reader[r].ask, GraphOf(r), reader[r].out)

\* the rows kept and the graph they are kept of
GraphsStand == UnionIsRight /\ PresenceIsRight

\* What is kept of the graph of a case and what is answered about it is right.
AnalysesHold == GraphsStand /\ AnswersAreRight

\* No run: the earliest arrival is the earliest also when a dwell binds.  It is not: only the
\* first arrival at a node is kept, and a later one may be the one in time for the next edge.
EarliestWithDwell ==
    \A r \in Readers : Done(r, "paths") /\ reader[r].ask.mode = "earliest" =>
        \A e \in Arrivals(GraphOf(r).edges, reader[r].ask) :
            \E p \in ToSet(reader[r].out) : p[Len(p)].t <= e.t

================================================================================
