-------------------------------- MODULE Traces ---------------------------------
(***************************************************************************)
(* Follow the money: what of the value of some seed edges each later edge  *)
(* carries (api/graphlagoon/services/trace.py, the core; its twin in the   *)
(* browser is utils/trace.ts).  Edges are taken one by one in the order of *)
(* time and id; what a node holds is a sequence of lots, each with the     *)
(* part of it that comes from the seeds.                                   *)
(***************************************************************************)
EXTENDS Fractions

(* Taking an amount out of the lots of a node.                                 *)

Held(lots) == Total([i \in DOMAIN lots |-> lots[i].amount])
Marked(lots) == Total([i \in DOMAIN lots |-> lots[i].traced])

Proportional(lots, a) ==
    LET share == Over(a, Held(lots))
        rest(v) == Minus(v, Times(share, v))
    IN  IF ~Less(a, Held(lots)) THEN [lots |-> <<>>, x |-> Marked(lots)]
        ELSE [lots |-> [i \in DOMAIN lots |->
                          [lots[i] EXCEPT !.traced = rest(@), !.amount = rest(@)]],
              x |-> Times(share, Marked(lots))]

Start(a) == [lots |-> <<>>, need |-> a, x |-> Zero]

\* untraced leaves first, then traced, both from the oldest
LowestBalance(lots, a) ==
    LET draw(acc, lot, take, marked) ==
            [lots |-> Append(acc.lots, [lot EXCEPT !.amount = Minus(@, take),
                                                   !.traced = Minus(@, marked)]),
             need |-> Minus(acc.need, take), x |-> Plus(acc.x, marked)]
        clean(acc, lot) ==
            draw(acc, lot, Least(Minus(lot.amount, lot.traced), acc.need), Zero)
        dirty(acc, lot) ==
            LET take == Least(lot.traced, acc.need) IN draw(acc, lot, take, take)
        first == FoldLeft(clean, Start(a), lots)
        both == FoldLeft(dirty, [first EXCEPT !.lots = <<>>], first.lots)
    IN  [lots |-> SelectSeq(both.lots, LAMBDA lot : lot.amount # Zero), x |-> both.x]

\* mutant: a lot that is taken in part keeps all of its mark
SplitLotKeepsMark(lot, part) == [lot EXCEPT !.amount = Minus(@, part)]

\* the last lot is taken in part
SplitLot(lot, part) ==
    [lot EXCEPT !.amount = Minus(@, part), !.traced = Minus(@, Times(@, Over(part, lot.amount)))]

Queue(lots, a) ==
    LET consume(acc, lot) ==
            IF acc.need = Zero THEN [acc EXCEPT !.lots = Append(@, lot)]
            ELSE IF ~Less(acc.need, lot.amount)
                 THEN [acc EXCEPT !.need = Minus(@, lot.amount), !.x = Plus(@, lot.traced)]
                 ELSE LET rest == SplitLot(lot, acc.need) IN
                      [lots |-> Append(acc.lots, rest), need |-> Zero,
                       x |-> Plus(acc.x, Times(lot.traced, Over(acc.need, lot.amount)))]
        end == FoldLeft(consume, Start(a), lots)
    IN  [lots |-> end.lots, x |-> end.x]

Stack(lots, a) == LET q == Queue(Reverse(lots), a) IN [q EXCEPT !.lots = Reverse(@)]

\* _allocate: the lots that remain, and x, the traced part of what was taken
Allocate(lots, a, rule) ==
    CASE Held(lots) = Zero -> [lots |-> lots, x |-> Zero]
      [] rule = "proportional" -> Proportional(lots, a)
      [] rule = "libr" -> LowestBalance(lots, a)
      [] rule = "lifo" -> Stack(lots, a)
      [] rule = "total" -> [Queue(lots, a) EXCEPT !.x = IF Marked(lots) = Zero THEN Zero ELSE a]
      [] OTHER -> Queue(lots, a)

-------------------------------------------------------------------------------
(* One edge after the other: the body of trace_forward.                        *)

Before(d, e) == d.t < e.t \/ (d.t = e.t /\ d.id < e.id)
InOrder(edges) == Sorted(edges, Before)

Blank(nodes) ==
    [lots |-> [v \in nodes |-> <<>>], layer |-> [v \in nodes |-> 0],
     edgeTrace |-> <<>>, exits |-> [v \in nodes |-> Zero],
     frontier |-> Zero, belowMin |-> Zero, expired |-> Zero, seedTotal |-> Zero]

\* mutant: what has dwelt too long stays marked
OverdueNever(lot, e, p) == FALSE

Overdue(lot, e, p) == lot.traced # Zero /\ e.t - lot.arrivedAt > p.dwell
Unmarked(lots, e, p) ==
    [i \in DOMAIN lots |-> IF Overdue(lots[i], e, p) THEN [lots[i] EXCEPT !.traced = Zero] ELSE lots[i]]

\* mutant: what leaves over the last layer is not accounted for
BeyondHopsLost(s, x) == s

\* the layer of the source is the last one
BeyondHops(s, x) == [s EXCEPT !.frontier = Plus(@, x)]

\* what of an edge is traced, out of the lots it finds
Carried(p, seeds, s, e) ==
    IF e.id \in seeds /\ e.t >= p.from
    THEN [lots |-> s.lots[e.src], x |-> Whole(e.amount), hop |-> 0, seed |-> Whole(e.amount), gone |-> Zero]
    ELSE LET left == Unmarked(s.lots[e.src], e, p)
             taken == Allocate(left, Whole(e.amount), p.allocation)
         IN  [lots |-> taken.lots, x |-> taken.x, hop |-> s.layer[e.src], seed |-> Zero,
              gone |-> Minus(Marked(s.lots[e.src]), Marked(left))]

Leave(p, s, e, c) ==
    [s EXCEPT !.lots[e.src] = c.lots,
              !.seedTotal = Plus(@, c.seed), !.expired = Plus(@, c.gone),
              !.edgeTrace = IF c.x = Zero THEN @ ELSE (e.id :> c.x) @@ @,
              !.belowMin = IF Less(c.x, p.min) THEN Plus(@, c.x) ELSE @]

Arrive(p, s, e, c, x) ==
    LET layered == [s EXCEPT !.layer[e.dst] =
                        IF x = Zero THEN @ ELSE IF @ = 0 THEN c.hop + 1 ELSE Min({@, c.hop + 1})]
    IN  IF e.dst \in p.stops THEN [layered EXCEPT !.exits[e.dst] = Plus(@, x)]
        ELSE [layered EXCEPT !.lots[e.dst] =
                 Append(@, [amount |-> Whole(e.amount), traced |-> x, arrivedAt |-> e.t])]

Step(p, seeds, s, e) ==
    LET c == Carried(p, seeds, s, e)
        x == IF Less(c.x, p.min) THEN Zero ELSE c.x
    IN  IF c.hop >= p.hops THEN BeyondHops(Leave(p, s, e, c), x)
        ELSE Arrive(p, Leave(p, s, e, c), e, c, x)

TraceForward(edges, nodes, seeds, p) ==
    FoldLeft(LAMBDA s, e : Step(p, seeds, s, e), Blank(nodes),
             InOrder({e \in edges : e.t <= p.to}))

\* orient_edges
Oriented(edges, direction) ==
    IF direction = "forward" THEN edges
    ELSE {[e EXCEPT !.src = e.dst, !.dst = e.src, !.t = -e.t] : e \in edges}

\* end_types, every node being of a type of its own
EndNodes(edges) == {e.dst : e \in edges} \ {e.src : e \in edges}

\* trace_params for a request, in the direction of the walk: window, stops, allocation
Params(req, edges, seeds) ==
    LET times == {e.t : e \in {d \in edges : d.id \in seeds}}
        span == IF req.dwell = req.noDwell THEN req.day ELSE req.dwell
    IN  [from |-> Min(times), to |-> Max(times) + span, dwell |-> req.dwell,
         hops |-> req.hops, min |-> Whole(req.min),
         allocation |-> req.allocation, stops |-> EndNodes(edges)]

\* run_case_trace: the seed node's edges, or nothing to answer
Seeds(req, edges) == {e.id : e \in {d \in edges : d.src = req.source}}
RunTrace(req, graph) ==
    LET edges == Oriented({e \in graph.edges : e.amount > 0}, req.direction)
        seeds == Seeds(req, edges)
    IN  IF seeds = {} THEN {} ELSE {TraceForward(edges, graph.nodes, seeds, Params(req, edges, seeds))}
================================================================================
