------------------------------ MODULE Precomputed ------------------------------
(***************************************************************************)
(* Which provider of a chain serves a precomputed graph, and with which    *)
(* arguments (services/precomputed/resolver.py and params.py,              *)
(* routers/precomputed_graphs.py): a read asks every provider that claims  *)
(* the name and can take the arguments, in order, until one answers; a     *)
(* write goes to the first that claims it, or nowhere.                     *)
(*                                                                         *)
(* An argument is a name and a value; a declared parameter says which      *)
(* values are of its type and within its bounds.  "" is the empty value.   *)
(***************************************************************************)
EXTENDS SequencesExt, FiniteSetsExt

CONSTANTS
    MaxParams,  \* MAX_PARAMS, and what MAX_PARAMS_BYTES comes to
    Asks        \* requests: the chain, the arguments given, and whom of the chain has
                \* the graph

VARIABLES
    request, reply

vars == <<request, reply>>

Pending == [kind |-> "pending"]

Refused(code) == [kind |-> "refused", code |-> code]

-------------------------------------------------------------------------------
(* Registration: validate_provider, validate_param_specs *)

Nothing == "none"

\* A default is within the bounds, and a required parameter has none.
ValidParam(p) == IF p.required THEN p.default = Nothing ELSE p.default \in p.values \cup {Nothing}

Valid(provider) ==
    /\ \A p \in ToSet(provider.params) : ValidParam(p)
    /\ IsInjective([i \in DOMAIN provider.params |-> provider.params[i].name])
    /\ provider.delete => provider.save

\* The registry: a name is registered once, and the order of registration is the chain's.
Registered(chain) ==
    /\ \A provider \in ToSet(chain) : Valid(provider)
    /\ IsInjective([i \in DOMAIN chain |-> chain[i].name])

-------------------------------------------------------------------------------
(* coerce_params, for the parameters of one provider *)

Given(items) == {item[1] : item \in ToSet(items)}
ValueOf(name, items) == (CHOOSE item \in ToSet(items) : item[1] = name)[2]

\* mutant: an empty value counts as given
IsMissing_Empty(p, items) == p.name \notin Given(items)

IsMissing(p, items) ==
    p.name \notin Given(items) \/ (p.required /\ ValueOf(p.name, items) = "")

Fault(p, items) ==
    IF IsMissing(p, items) THEN IF p.required THEN "MISSING_PARAM" ELSE Nothing
    ELSE IF ValueOf(p.name, items) \notin p.values THEN "INVALID_PARAM" ELSE Nothing

\* The parameters are looked at in the order they are declared in: the first fault counts.
FaultOf(params, items) ==
    LET faulty == {i \in DOMAIN params : Fault(params[i], items) # Nothing}
    IN  IF faulty = {} THEN Nothing ELSE Fault(params[Min(faulty)], items)

Coerced(params, items) ==
    [name \in {p.name : p \in ToSet(params)} |->
        LET p == CHOOSE q \in ToSet(params) : q.name = name
        IN  IF IsMissing(p, items) THEN p.default ELSE ValueOf(name, items)]

Mine(provider, items) ==
    SelectSeq(items, LAMBDA item : \E p \in ToSet(provider.params) : p.name = item[1])

-------------------------------------------------------------------------------
(* plan_resolution *)

Repeats(items) == Cardinality(Given(items)) < Len(items)

\* Checked once for the whole request: how many there are, and that none is given twice.
SharedFault(items) ==
    IF Len(items) > MaxParams THEN "TOO_MANY_PARAMS"
    ELSE IF Repeats(items) THEN "DUPLICATE_PARAM" ELSE Nothing

Declared(claimed) == {p.name : p \in UNION {ToSet(provider.params) : provider \in ToSet(claimed)}}

\* mutant: a provider whose argument is out of bounds stands down
StandsDown_Invalid(provider, items) == FaultOf(provider.params, Mine(provider, items)) # Nothing

\* A provider without an argument it requires is not applicable.
StandsDown(provider, items) == FaultOf(provider.params, Mine(provider, items)) = "MISSING_PARAM"

\* The first fault that is not a missing argument, in the order of the chain.
PlanFault(claimed, items) ==
    IF SharedFault(items) # Nothing THEN SharedFault(items)
    ELSE IF ~(Given(items) \subseteq Declared(claimed)) THEN "UNKNOWN_PARAM"
    ELSE IF \E provider \in ToSet(claimed) :
              ~StandsDown(provider, items) /\ FaultOf(provider.params, Mine(provider, items)) # Nothing
         THEN "INVALID_PARAM" ELSE Nothing

Plan(claimed, items) ==
    LET stay == SelectSeq(claimed, LAMBDA provider : ~StandsDown(provider, items))
    IN  [i \in DOMAIN stay |->
            [provider |-> stay[i], args |-> Coerced(stay[i].params, Mine(stay[i], items))]]

-------------------------------------------------------------------------------
(* The requests *)

Claimed(chain) == SelectSeq(chain, LAMBDA provider : provider.claims)

\* resolve: one after the other until one has the graph.
Answering(plan, holders) == {i \in DOMAIN plan : plan[i].provider.name \in holders}

Read(q) ==
    LET claimed == Claimed(q.chain)
        plan == Plan(claimed, q.items)
        having == Answering(plan, q.holders)
    IN  IF PlanFault(claimed, q.items) # Nothing THEN Refused(PlanFault(claimed, q.items))
        ELSE IF having # {}
             THEN [kind |-> "graph", by |-> plan[Min(having)].provider.name, args |-> plan[Min(having)].args]
        ELSE IF plan = <<>> /\ claimed # <<>> THEN Refused("MISSING_PARAM")
        ELSE Refused("NOT_FOUND")

\* mutant: a write falls through to the first provider that can take it
WriteTargets_Writable(chain) == SelectSeq(Claimed(chain), LAMBDA provider : provider.save)

WriteTargets(chain) == Claimed(chain)

\* One provider, one list: an argument it does not declare or that is repeated, whichever
\* comes first.
PairFault(params, items) ==
    LET unknown == {i \in DOMAIN items : \A p \in ToSet(params) : p.name # items[i][1]}
        repeated == {i \in DOMAIN items : \E k \in 1..(i - 1) : items[k][1] = items[i][1]}
    IN  IF Len(items) > MaxParams THEN "TOO_MANY_PARAMS"
        ELSE IF unknown \cup repeated = {} THEN Nothing
        ELSE IF Min(unknown \cup repeated) \in unknown THEN "UNKNOWN_PARAM" ELSE "DUPLICATE_PARAM"

\* A provider that was written to takes the arguments it declares and no other.
Write(q) ==
    LET targets == WriteTargets(q.chain)
        first == Head(targets)
    IN  IF targets = <<>> THEN Refused("NOT_FOUND")
        ELSE IF ~first.save THEN Refused("PROVIDER_READ_ONLY")
        ELSE IF PairFault(first.params, q.items) # Nothing THEN Refused(PairFault(first.params, q.items))
        ELSE IF FaultOf(first.params, q.items) # Nothing THEN Refused(FaultOf(first.params, q.items))
        ELSE [kind |-> "written", by |-> first.name, args |-> Coerced(first.params, q.items)]

Init == request \in {q \in Asks : Registered(q.chain)} /\ reply = Pending

\* A write and a read with the same arguments, by somebody who may do both.
Respond ==
    /\ reply = Pending
    /\ reply' = [kind |-> "answered", read |-> Read(request), write |-> Write(request)]
    /\ UNCHANGED request

Next == Respond

-------------------------------------------------------------------------------
(* Properties *)

\* "Writing to somewhere other than where you read from is the worst surprise this feature
\* could produce" (resolver.py): a read with the arguments of a write asks the provider
\* first that was written to, unless they are out of the bounds of another.
ReadWhereWritten ==
    reply.write.kind = "written" /\ reply.write.by \in request.holders =>
        \/ reply.read = [kind |-> "graph", by |-> reply.write.by, args |-> reply.write.args]
        \/ reply.read = Refused("INVALID_PARAM")

\* "params holds only the names this provider declared, each inside its bounds; a required
\* argument that was not supplied means resolve is not called at all" (spec.py).
ArgumentsAreKept ==
    reply.read.kind = "graph" =>
        LET provider == CHOOSE p \in ToSet(request.chain) : p.name = reply.read.by
        IN  /\ provider.claims
            /\ DOMAIN reply.read.args = {p.name : p \in ToSet(provider.params)}
            /\ \A p \in ToSet(provider.params) :
                  /\ reply.read.args[p.name] \in p.values \cup (IF p.required THEN {} ELSE {Nothing})
                  /\ p.required => reply.read.args[p.name] # ""
                  /\ p.name \in Given(request.items) =>
                        reply.read.args[p.name] = ValueOf(p.name, request.items)

\* A read that is answered ignores no argument: each is declared by somebody who claims the
\* graph, and is within the bounds of everybody who declares it and did not lack another.
NothingIgnored ==
    reply.read.kind = "graph" =>
        /\ Given(request.items) \subseteq Declared(Claimed(request.chain))
        /\ \A provider \in ToSet(Claimed(request.chain)) : \A p \in ToSet(provider.params) :
              p.name \in Given(request.items) /\ ValueOf(p.name, request.items) \notin p.values =>
                  \E lacked \in ToSet(provider.params) :
                      lacked.required /\ (lacked.name \in Given(request.items) =>
                                              ValueOf(lacked.name, request.items) = "")

GraphsResolve ==
    reply # Pending => ReadWhereWritten /\ ArgumentsAreKept /\ NothingIgnored

\* No run: what a read is refused is not what a write was accepted with.  The bounds of the
\* providers that come later in the chain hold for a read and not for a write.
WrittenCanBeRead == reply # Pending /\ reply.write.kind = "written" => reply.read.kind # "refused"

\* No run: resolver.py, plan_resolution, "A value outside a provider's declared bounds - hard
\* 400, even when a later provider would have answered".  A provider that also lacks a
\* required argument, declared before it, stands down, and the later one answers.
OutOfBoundsIsRefused ==
    reply # Pending /\ reply.read.kind = "graph" =>
        \A provider \in ToSet(Claimed(request.chain)) : \A p \in ToSet(provider.params) :
            p.name \in Given(request.items) /\ ValueOf(p.name, request.items) # "" =>
                ValueOf(p.name, request.items) \in p.values
================================================================================
