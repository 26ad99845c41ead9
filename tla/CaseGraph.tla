------------------------------- MODULE CaseGraph -------------------------------
(***************************************************************************)
(* The unified graph of a case: how it is put together from the case's     *)
(* items, the rows kept of its entities for the lookup of other cases, and *)
(* the analyses that run on it (api/graphlagoon/services/case_graph.py,    *)
(* case_entities.py, trace.py, paths.py).                                  *)
(*                                                                         *)
(* A reader awaits the case, its items and its aliases one after the       *)
(* other, and people change all three meanwhile.  An item's content is     *)
(* immutable per version, except that of an exploration, which is saved    *)
(* without touching the item.  Properties, types and labels of nodes are   *)
(* left out; a uid is a number, which orders as the code orders ids.       *)
(***************************************************************************)
EXTENDS Paths

CONSTANTS
    Items, ContextOf,         \* small numbers, and the context of each
    Readers, Hidden,          \* and the items whose sources a reader may not read
    Unreadable,               \* a content that is not a graph
    MaxVersions, MaxTouches,  \* bounds on the versions of an item and the updates of its row
    Scenarios                 \* what a run lets happen: the store, who reads, how many at once and
                              \* whether more than one time each, the
                              \* items at the start, the operations of people, the contents,
                              \* the pairs a same_as may name and what readers ask for

ASSUME BoundsAssumption == MaxVersions \in Nat \ {0} /\ MaxTouches \in Nat
ASSUME ItemsAssumption ==
    /\ Items \subseteq 1..9 /\ ContextOf \in [Items -> 1..9]
    /\ Hidden \in [Readers -> SUBSET Items]

VARIABLES
    versions,  \* the contents of each item
    items,     \* whether the item bears a graph (neither removed nor rejected), its current
               \* version, and how often its row was updated
    aliases,   \* the confirmed same_as pairs, <<keep, drop>>, in the order they are kept
    keysOn,    \* whether the case's identity keys apply
    index,     \* the rows of case_entities
    reader,    \* where each reader is, and what it has been answered
    scenario

vars == <<versions, items, aliases, keysOn, index, reader, scenario>>

InMemory == scenario.store = "memory"

-------------------------------------------------------------------------------
(* unify: the graph of some parts.                                            *)

KeyOf(content, id) == IF \E n \in content.nodes : n.id = id /\ n.key # 0
                      THEN (CHOOSE n \in content.nodes : n.id = id).key ELSE 0

\* a node with an identity key is one entity wherever it appears
Uid(item, content, id, keys) ==
    IF content.unified THEN id
    ELSE IF keys /\ KeyOf(content, id) # 0 THEN KeyOf(content, id) ELSE 10 * ContextOf[item] + id

Ids(content) == {n.id : n \in content.nodes}

\* mutant: an edge is taken over whatever its source holds
EdgesAll(content) == content.edges

\* "an edge whose endpoint is not in its source would dangle"
EdgesWithEnds(content) ==
    {e \in content.edges : {e.source, e.target} \subseteq Ids(content)}

\* mutant: the end of a chain of aliases is its first step
RootOnce(parent, u) == IF u \in DOMAIN parent THEN parent[u] ELSE u

\* find
Root(parent, u) ==
    LET up[v \in DOMAIN parent \cup Range(parent) \cup {u}] ==
            IF v \in DOMAIN parent THEN up[parent[v]] ELSE v
    IN  up[u]

Parents(pairs) ==
    LET join(parent, pair) ==
            LET k == Root(parent, pair[1])
                d == Root(parent, pair[2])
            IN  IF k = d THEN parent ELSE (d :> k) @@ parent
    IN  FoldLeft(join, <<>>, pairs)

\* apply_aliases: a pair whose kept side is not loaded leaves the node as it is
Into(uids, parent, u) == IF Root(parent, u) \in uids THEN Root(parent, u) ELSE u

UidsOf(parts, keys) == UNION {{Uid(p.item, p.content, id, keys) : id \in Ids(p.content)} : p \in parts}

Unify(parts, keys, pairs) ==
    LET uids == UidsOf(parts, keys)
        parent == Parents(pairs)
        into(u) == Into(uids, parent, u)
        uid(p, id) == into(Uid(p.item, p.content, id, keys))
    IN  [nodes |-> {into(u) : u \in uids},
         edges |-> UNION {{[id |-> 10 * p.item + e.id, src |-> uid(p, e.source), dst |-> uid(p, e.target),
                            amount |-> e.amount, t |-> e.t] : e \in EdgesWithEnds(p.content)} : p \in parts}]

-------------------------------------------------------------------------------
(* What a reader has read.                                                    *)

Idle == [pc |-> "idle"]

\* mutant: accepting a match is no reason to build the graph again
StampOfItems(q) == [items |-> q.items, keys |-> q.keys]

\* stamp_of: the items and their versions, the case's keys, the aliases sorted
StampOf(q) == [items |-> q.items, keys |-> q.keys, aliases |-> ToSet(q.aliases)]

ContentOf(i, version) == versions[i][version]
Broken(q) == {i \in DOMAIN q.items : ContentOf(i, q.items[i][1]) = Unreadable}

\* the parts of the graph: items that bear one, may be read and can be
Parts(q, hidden) ==
    {[item |-> i, content |-> ContentOf(i, q.items[i][1])] : i \in DOMAIN q.items \ (hidden \cup Broken(q))}

GraphOf(r) == Unify(Parts(reader[r], Hidden[r]), reader[r].keys, reader[r].aliases)

\* mutant: a graph with holes is kept too
SeesEnough(r) == TRUE

SeesAll(r) == DOMAIN reader[r].items \cap (Hidden[r] \cup Broken(reader[r])) = {}

IsContent(c) ==
    \/ c = Unreadable
    \/ /\ c.unified \in BOOLEAN
       /\ \A n \in c.nodes : n.id \in Nat /\ n.key \in 0..9
       /\ \A e \in c.edges : e.id \in 1..9 /\ e.source \in Nat /\ e.target \in Nat

TypeOK ==
    /\ \A i \in Items : Len(versions[i]) \in 1..MaxVersions /\ \A v \in DOMAIN versions[i] : IsContent(versions[i][v])
    /\ items \in [Items -> [on : BOOLEAN, version : 1..MaxVersions, touched : 0..MaxTouches]]
    /\ ToSet(aliases) \subseteq scenario.pairs /\ Len(aliases) = Cardinality(ToSet(aliases))
    /\ keysOn \in BOOLEAN
    /\ \A row \in index : row.uid \in Nat /\ row.by \in Readers
    /\ \A r \in Readers :
          reader[r] = Idle \/ /\ reader[r].pc \in {"case", "rows", "items", "read", "stale", "old", "answered"}
                              /\ reader[r].ask \in scenario.asks
                              /\ reader[r].building \in BOOLEAN
                              /\ DOMAIN reader[r].items \subseteq Items
    /\ scenario \in Scenarios

Init ==
    /\ scenario \in Scenarios
    /\ \E f \in [scenario.on -> scenario.contents] :
          versions = [i \in Items |-> <<IF i \in scenario.on THEN f[i] ELSE Unreadable>>]
    /\ items = [i \in Items |-> [on |-> i \in scenario.on, version |-> 1, touched |-> 0]]
    /\ aliases = <<>>
    /\ keysOn = FALSE
    /\ index = {}
    /\ reader = [r \in Readers |-> Idle]

-------------------------------------------------------------------------------
(* What people do.                                                            *)

Touch(i, changed) ==
    /\ items[i].touched < MaxTouches
    /\ items' = [items EXCEPT ![i] = [changed EXCEPT !.touched = @ + 1]]

AddVersion(i) ==
    /\ "version" \in scenario.ops
    /\ Len(versions[i]) < MaxVersions
    /\ \E c \in scenario.contents : versions' = [versions EXCEPT ![i] = Append(@, c)]
    /\ Touch(i, [items[i] EXCEPT !.version = Len(versions[i]) + 1])
    /\ UNCHANGED <<aliases, keysOn, index, reader, scenario>>

\* removed or rejected, restored or reopened
JudgeItem(i) ==
    /\ "judge" \in scenario.ops
    /\ Touch(i, [items[i] EXCEPT !.on = ~@])
    /\ UNCHANGED <<versions, aliases, keysOn, index, reader, scenario>>

\* an item that refers to an exploration shows what was saved there last
SaveExploration(i) ==
    /\ "explore" \in scenario.ops
    /\ \E c \in scenario.contents : versions' = [versions EXCEPT ![i][items[i].version] = c]
    /\ UNCHANGED <<items, aliases, keysOn, index, reader, scenario>>

\* mutant: a match that is accepted is accepted once more
AcceptedAgain(pair) == Append(aliases, pair)

\* a same_as is confirmed, or withdrawn
Judged(pair) ==
    IF pair \in ToSet(aliases) THEN SelectSeq(aliases, LAMBDA p : p # pair) ELSE Append(aliases, pair)

Accept ==
    /\ "alias" \in scenario.ops
    /\ \E pair \in scenario.pairs : aliases' = Judged(pair)
    /\ UNCHANGED <<versions, items, keysOn, index, reader, scenario>>

SetKeys ==
    /\ "keys" \in scenario.ops
    /\ keysOn' = ~keysOn
    /\ UNCHANGED <<versions, items, aliases, index, reader, scenario>>

-------------------------------------------------------------------------------
(* Reading: find_cases with _presence, case_graph, run_case_trace,            *)
(* run_case_paths.                                                            *)

Reads(r, changed) == reader' = [reader EXCEPT ![r] = changed]
AtWork == {r \in Readers : reader[r] # Idle /\ reader[r].pc # "answered"}
people == <<versions, items, aliases, keysOn>>

IsAt(r, pc) == reader[r] # Idle /\ reader[r].pc = pc

\* load_case, or _readable_cases of a lookup: the settings
LoadCase(r) ==
    \/ /\ reader[r] = Idle \/ (IsAt(r, "answered") /\ scenario.again)
       /\ r \in scenario.who /\ Cardinality(AtWork) < scenario.atOnce
       /\ \E ask \in scenario.asks :
             Reads(r, [pc |-> "case", ask |-> ask, building |-> ask.kind # "presence", keys |-> keysOn,
                       items |-> <<>>, aliases |-> <<>>, seen |-> {}, out |-> {}])
       /\ UNCHANGED <<people, index, scenario>>
    \/ /\ IsAt(r, "stale")
       /\ Reads(r, [reader[r] EXCEPT !.pc = "case", !.building = TRUE, !.keys = keysOn])
       /\ UNCHANGED <<people, index, scenario>>

\* _presence looks at the rows it finds before it knows what they should be
ReadRows(r) ==
    /\ IsAt(r, "case") /\ ~reader[r].building
    /\ Reads(r, [reader[r] EXCEPT !.pc = "rows", !.seen = index])
    /\ UNCHANGED <<people, index, scenario>>

ReadItems(r) ==
    /\ IsAt(r, "rows") \/ (IsAt(r, "case") /\ reader[r].building)
    /\ LET on == {i \in Items : items[i].on} IN
       Reads(r, [reader[r] EXCEPT !.pc = "items",
                                  !.items = [i \in on |-> <<items[i].version, items[i].touched>>]])
    /\ UNCHANGED <<people, index, scenario>>

\* aliases_of: rows without an order of their own
ReadAliases(r) ==
    /\ IsAt(r, "items")
    /\ \E pairs \in IF InMemory THEN {aliases} ELSE SetToSeqs(ToSet(aliases)) :
          Reads(r, [reader[r] EXCEPT !.pc = "read", !.aliases = pairs])
    /\ UNCHANGED <<people, index, scenario>>

\* mutant: the rows are taken for the graph whatever they were made of
CurrentAny(row, stamp) == TRUE

Current(row, stamp) == row.stamp = stamp

\* the first row says whether the rows are those of the inputs as they are now
Compare(r) ==
    LET q == reader[r] IN
    /\ IsAt(r, "read") /\ ~q.building
    /\ \/ \E row \in q.seen :
             /\ Current(row, StampOf(q))
             /\ Reads(r, [q EXCEPT !.pc = "answered", !.out = {w.uid : w \in q.seen}, !.seen = {}])
       \/ /\ q.seen = {} \/ \E row \in q.seen : ~Current(row, StampOf(q))
          /\ Reads(r, [q EXCEPT !.pc = "stale", !.seen = {}])
    /\ UNCHANGED <<people, index, scenario>>

Answer(q, graph) ==
    CASE q.ask.kind = "trace" -> RunTrace(q.ask, graph)
      [] q.ask.kind = "paths" -> FindPaths(q.ask, graph.edges)
      [] OTHER -> graph.nodes

Answered(r) == Reads(r, [reader[r] EXCEPT !.pc = "answered", !.out = Answer(reader[r], GraphOf(r)), !.seen = {}])
RowsOf(r) == {[uid |-> u, stamp |-> StampOf(reader[r]), by |-> r] : u \in GraphOf(r).nodes}

\* mutant: the rows of before are left
KeepsRows(seen) == {}

\* store deletes the rows it has read
Deletes(seen) == seen

\* who does not see all keeps nothing; store replaces the rows, in memory at once
Build(r) ==
    /\ IsAt(r, "read") /\ reader[r].building
    /\ IF ~SeesAll(r) THEN Answered(r) /\ UNCHANGED index
       ELSE IF InMemory THEN Answered(r) /\ index' = (index \ Deletes(index)) \cup RowsOf(r)
       ELSE Reads(r, [reader[r] EXCEPT !.pc = "old", !.seen = index]) /\ UNCHANGED index
    /\ UNCHANGED <<people, scenario>>

CommitRows(r) ==
    /\ IsAt(r, "old")
    /\ index' = (index \ Deletes(reader[r].seen)) \cup RowsOf(r)
    /\ Answered(r)
    /\ UNCHANGED <<people, scenario>>

Next ==
    \/ \E i \in Items : AddVersion(i) \/ JudgeItem(i) \/ SaveExploration(i)
    \/ Accept \/ SetKeys
    \/ \E r \in Readers : \/ LoadCase(r) \/ ReadRows(r) \/ ReadItems(r) \/ ReadAliases(r)
                          \/ Compare(r) \/ Build(r) \/ CommitRows(r)

Spec == Init /\ [][Next]_vars

-------------------------------------------------------------------------------
(* Properties.                                                                *)

Alone == InMemory \/ scenario.atOnce = 1
Done(r, kind) == IsAt(r, "answered") /\ reader[r].ask.kind = kind

\* A reader of every source who asks where an entity shows up is answered from the graph of
\* the case as they read it, whether the rows that were kept are used or the graph is built
\* again: nobody's overlapping build, removed item, new version, accepted match or key makes
\* an entity be missed; and when requests do not overlap none is named that is not there.
PresenceIsRight ==
    "explore" \notin scenario.ops =>
        \A r \in Readers : Done(r, "presence") /\ SeesAll(r) =>
            \E pairs \in SetToSeqs(ToSet(reader[r].aliases)) :
                LET q == reader[r]
                    uids == Unify(Parts(q, {}), q.keys, pairs).nodes
                IN  uids \subseteq q.out /\ (Alone => q.out = uids)

\* what the pairs connect, one step after the other
Connected(pairs, u) ==
    LET grow(S, i) == S \cup UNION {{p[1], p[2]} : p \in {x \in pairs : {x[1], x[2]} \cap S # {}}}
    IN  FoldLeft(grow, {u}, [i \in 1..Cardinality(pairs) |-> i])

\* In the graph of a case no edge dangles and none of a readable part is lost; two entities
\* become one only if people accepted a chain of matches between them, and they do when all
\* of that chain is loaded, whatever the order in which the matches are read.
UnionIsRight ==
    \A r \in Readers : IsAt(r, "read") =>
        LET q == reader[r]
            parts == Parts(q, Hidden[r])
            graph == GraphOf(r)
            uids == UidsOf(parts, q.keys)
            pairs == ToSet(q.aliases)
            into == [u \in uids |-> Into(uids, Parents(q.aliases), u)]
        IN  /\ \A e \in graph.edges : {e.src, e.dst} \subseteq graph.nodes
            /\ Cardinality(graph.edges) = FoldSet(LAMBDA p, n : n + Cardinality(EdgesWithEnds(p.content)), 0, parts)
            /\ \A u, v \in uids :
                  /\ into[u] = into[v] => v \in Connected(pairs, u)
                  /\ v \in Connected(pairs, u) /\ Connected(pairs, u) \subseteq uids => into[u] = into[v]
================================================================================
