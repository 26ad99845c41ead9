------------------------------- MODULE GraphRows -------------------------------
(***************************************************************************)
(* What a graph query makes of the rows it gets                            *)
(* (api/graphlagoon/services/graph_operations.py): the edges of column r,  *)
(* the nodes the other columns already carry, the nodes that are fetched   *)
(* for the rest, the partial result shown before their properties are      *)
(* there, and the result.                                                  *)
(*                                                                         *)
(* A row is what is left of it after parsing: the edge structs of r and    *)
(* the node structs of the other columns, in order.  0 is NULL; a node has *)
(* a set of properties, and the table of the nodes has one row for an id.  *)
(***************************************************************************)
EXTENDS Naturals, Sequences, FiniteSets

CONSTANTS
    Asks       \* the queries to answer: the rows and the limit, the table of the nodes and
               \* the columns wanted of it, whether only types are, and whether a partial is

VARIABLES
    ask, answer

vars == <<ask, answer>>

Pending == [kind |-> "pending"]

-------------------------------------------------------------------------------
(* process_graph_query_result *)

\* where the structs of the rows are, and in which order
Structs(rows, field) == UNION {{i} \X DOMAIN rows[i][field] : i \in DOMAIN rows}
At(rows, field, p) == rows[p[1]][field][p[2]]
Before(p, q) == p[1] < q[1] \/ (p[1] = q[1] /\ p[2] < q[2])

Found(rows, field) == {At(rows, field, p) : p \in Structs(rows, field)}

Edge(struct) == [id |-> struct.id, src |-> struct.src, dst |-> struct.dst]

\* mutant: the second edge of an id is kept as well
Edges_All(rows) == {Edge(e) : e \in Found(rows, "edges")}

\* an edge id counts once, with the struct that bears it first
Edges(rows) ==
    LET at(p) == At(rows, "edges", p)
        first == {p \in Structs(rows, "edges") :
                     \A q \in Structs(rows, "edges") : Before(q, p) => at(q).id # at(p).id}
    IN  {Edge(at(p)) : p \in first}

Ends(edges) == (UNION {{e.src, e.dst} : e \in edges}) \ {0}

\* every edge lacks a column that should hold one of its ends
IsStale(rows) == Found(rows, "edges") # {} /\ \A e \in Found(rows, "edges") : e.lacks

-------------------------------------------------------------------------------
(* harvest_nodes_from_result *)

\* mutant: the last struct of a node replaces the others
Harvested_Last(rows) ==
    LET at(p) == At(rows, "nodes", p)
    IN  {at(p) : p \in {r \in Structs(rows, "nodes") : at(r).id # 0 /\
            \A q \in Structs(rows, "nodes") : Before(r, q) => at(q).id # at(r).id}}

Size(node) == Cardinality(node.props)

\* of the structs of one node the richest, and of those the first
Harvested(rows) ==
    LET at(p) == At(rows, "nodes", p)
    IN  {at(p) : p \in {r \in Structs(rows, "nodes") : at(r).id # 0 /\
            \A q \in Structs(rows, "nodes") : at(q).id = at(r).id =>
                Size(at(q)) < Size(at(r)) \/ (Size(at(q)) = Size(at(r)) /\ ~Before(q, r))}}

IdsOf(nodes) == {n.id : n \in nodes}

-------------------------------------------------------------------------------
(* execute_graph_query_with_nodes *)

\* build_node_projection and process_nodes_result: the columns wanted of the rows there are.
Fetch(q, ids, columns) ==
    {[id |-> i, props |-> q.table[i] \cap columns] : i \in ids \cap DOMAIN q.table}

\* mutant: only what was fetched
WithHarvested_Fetched(fetched, harvested) == fetched

\* the fetched nodes, and the harvested ones that were not fetched
WithHarvested(fetched, harvested) ==
    fetched \cup {n \in harvested : n.id \notin IdsOf(fetched)}

IsTruncated(q) == q.limit # 0 /\ Len(q.rows) >= q.limit

Graph(q, edges, nodes, deferred) ==
    [kind |-> "graph", edges |-> edges, nodes |-> nodes, truncated |-> IsTruncated(q), deferred |-> deferred]

None == [kind |-> "none"]

Answer(q) ==
    LET edges == Edges(q.rows)
        harvested == Harvested(q.rows)
        missing == Ends(edges) \ IdsOf(harvested)
        types == Fetch(q, missing, {})
        full == Fetch(q, missing, IF q.types THEN {} ELSE q.columns)
        partial == q.partial /\ ~q.types
    IN  CASE IsStale(q.rows) -> [kind |-> "error"]
          [] ~IsStale(q.rows) /\ missing = {} ->
                [kind |-> "ok", partial |-> None,
                 result |-> Graph(q, edges, {n \in harvested : n.id \in Ends(edges)}, FALSE)]
          [] OTHER ->
                [kind |-> "ok",
                 partial |-> IF partial THEN Graph(q, edges, WithHarvested(types, harvested), TRUE) ELSE None,
                 result |-> Graph(q, edges, WithHarvested(full, harvested), q.types)]

Init == ask \in Asks /\ answer = Pending

Respond == answer = Pending /\ answer' = Answer(ask) /\ UNCHANGED ask

Next == Respond

-------------------------------------------------------------------------------
(* Properties *)

PropsOf(graph, id) == (CHOOSE n \in graph.nodes : n.id = id).props

\* One for each id.
Distinct(things) == \A x, y \in things : x.id = y.id => x = y

\* Every edge of the rows once; every end of an edge that the rows or the table know, once;
\* none poorer than the rows had it, and what was fetched with all that was asked of it.
ResultIsWhole(q, graph) ==
    LET found == Found(q.rows, "nodes")
    IN  /\ IdsOf(graph.edges) = {e.id : e \in Found(q.rows, "edges")}
        /\ Ends(graph.edges) \cap (IdsOf(found) \cup DOMAIN q.table) \subseteq IdsOf(graph.nodes)
        /\ Distinct(graph.edges) /\ Distinct(graph.nodes)
        /\ \A n \in graph.nodes : \A f \in found : f.id = n.id => Size(n) >= Size(f)
        /\ ~graph.deferred => \A n \in graph.nodes :
              n.id \notin IdsOf(found) => q.table[n.id] \cap q.columns \subseteq n.props

\* The partial is the result with properties missing: nothing it draws has to go again.
PartialIsDrawable(partial, graph) ==
    /\ partial.edges = graph.edges /\ partial.truncated = graph.truncated
    /\ IdsOf(partial.nodes) = IdsOf(graph.nodes)
    /\ \A n \in partial.nodes : n.props \subseteq PropsOf(graph, n.id)

RowsAnswered ==
    answer # Pending /\ answer.kind = "ok" =>
        /\ ResultIsWhole(ask, answer.result)
        /\ answer.partial # None => PartialIsDrawable(answer.partial, answer.result)

\* No run: a result holds the ends of its edges and nothing else.  When no node has to be
\* fetched it does; when one has, every node the rows carry comes along.
OnlyEnds ==
    answer # Pending /\ answer.kind = "ok" =>
        IdsOf(answer.result.nodes) \subseteq Ends(answer.result.edges)

================================================================================
