------------------------------- MODULE LogValues -------------------------------
(***************************************************************************)
(* The structured values of log records.  A caller lays a record's values  *)
(* out in one flat pool of nodes, in which an array or a map names its     *)
(* children as a range; the SDK checks the pool and turns it into nested   *)
(* values (sdk/src/logs_vtable.rs), and lays nested values out in a pool   *)
(* again for a custom exporter (sdk/src/log_export_view.rs).               *)
(*                                                                         *)
(* Pools are numbered from 1.  A value is [kind, first, count]; a scalar   *)
(* keeps what it holds in first, so that two of them can be told apart;    *)
(* "invalid" stands for an unknown tag, a set reserved word, a string or   *)
(* bytes that are too long or not UTF-8.                                   *)
(***************************************************************************)
EXTENDS Naturals, SequencesExt, FiniteSetsExt

CONSTANTS
  KeyOrder,     (* the keys in use, in the order of their bytes            *)
  NoKey,        (* the empty key                                           *)
  MaxElements,  (* OTEL_LOG_MAX_ARRAY_ELEMENTS, OTEL_LOG_MAX_MAP_ENTRIES   *)
  MaxNodes,     (* OTEL_LOG_MAX_VALUE_NODES                                *)
  MaxDepth      (* OTEL_LOG_MAX_VALUE_DEPTH                                *)

ASSUME LogValuesAssumption ==
  /\ MaxElements \in Nat /\ MaxNodes \in Nat /\ MaxDepth \in Nat \ {0}
  /\ \A i, j \in DOMAIN KeyOrder : KeyOrder[i] = KeyOrder[j] => i = j
  /\ \A i \in DOMAIN KeyOrder : KeyOrder[i] # NoKey

IsContainer(v) == v.kind \in {"array", "map"}
Children(v) == IF IsContainer(v) THEN v.first..(v.first + v.count - 1) ELSE {}

-----------------------------------------------------------------------------
(* Validator: what it has found so far. *)
Fresh == [ok |-> TRUE, referenced |-> {}]

(* check_value_scalar. *)
CheckScalar(v) == v.kind \notin {"empty", "invalid"}

(* claim_children; owner 0: a value of the record itself. *)
Claimable(nodes, referenced, owner, v) ==
  /\ v.count <= MaxElements
  /\ v.count > 0 =>
       /\ v.first + v.count - 1 <= Len(nodes)
       /\ owner # 0 => v.first > owner
       /\ Children(v) \cap referenced = {}

(* check_children, check_child_key. *)
KeysOk(nodes, v) ==
  IF v.kind = "map"
  THEN \A i \in Children(v) :
         nodes[i].key # NoKey /\ \A j \in Children(v) : nodes[i].key = nodes[j].key => i = j
  ELSE \A i \in Children(v) : nodes[i].key = NoKey

(* One turn of validate's first two loops. *)
Visit(nodes, found, owner, v) ==
  IF ~IsContainer(v) THEN [found EXCEPT !.ok = found.ok /\ CheckScalar(v)]
  ELSE IF found.ok /\ Claimable(nodes, found.referenced, owner, v) /\ KeysOk(nodes, v)
       THEN [found EXCEPT !.referenced = @ \cup Children(v)]
       ELSE [found EXCEPT !.ok = FALSE]

Claims(nodes, roots) ==
  FoldLeft(LAMBDA found, e : Visit(nodes, found, e.owner, e.value), Fresh,
           [i \in 1..Len(nodes) |-> [owner |-> i, value |-> nodes[i].value]] \o
           [i \in 1..Len(roots) |-> [owner |-> 0, value |-> roots[i]]])

(* Fault: what a container holds counts as depth, a scalar does not. *)
HeightOfContainers(heights, v) ==
  IF IsContainer(v) THEN 1 + Max({0} \cup {heights[i] : i \in Children(v)}) ELSE 0

Height(heights, v) == 1 + Max({0} \cup {heights[i] : i \in Children(v)})

(* The descending pass: children come after their container. *)
Heights(nodes) ==
  LET h[i \in 1..Len(nodes)] == Height(h, nodes[i].value) IN h

(* Validator::validate. *)
Validate(nodes, roots) ==
  LET found == Claims(nodes, roots)
  IN /\ found.ok
     /\ found.referenced = 1..Len(nodes)
     /\ \A i \in 1..Len(roots) : Height(Heights(nodes), roots[i]) <= MaxDepth

-----------------------------------------------------------------------------
(***************************************************************************)
(* Converter: values[i] is the nested value of node i until it is moved    *)
(* into its container (take_child).                                        *)
(***************************************************************************)
Taken == [kind |-> "taken"]
Scalar(data) == [kind |-> "scalar", data |-> data]

(* Fault: a range's count is taken for its end. *)
CollectedToCount(nodes, values, v) ==
  IF v.kind = "array"
  THEN [kind |-> "array", items |-> [k \in 1..(v.count - v.first + 1) |-> values[v.first + k - 1]]]
  ELSE [kind |-> "map",
        items |-> [key \in {nodes[i].key : i \in Children(v)} |->
                     values[CHOOSE i \in Children(v) : nodes[i].key = key]]]

Collected(nodes, values, v) ==
  IF v.kind = "array"
  THEN [kind |-> "array", items |-> [k \in 1..v.count |-> values[v.first + k - 1]]]
  ELSE [kind |-> "map",
        items |-> [key \in {nodes[i].key : i \in Children(v)} |->
                     values[CHOOSE i \in Children(v) : nodes[i].key = key]]]

(* take_child of each child. *)
Take(values, v) == [i \in DOMAIN values |-> IF i \in Children(v) THEN Taken ELSE values[i]]

(* convert_value: the value, and what is left of values. *)
ConvertValue(nodes, state, v) ==
  IF ~IsContainer(v) THEN [state EXCEPT !.value = Scalar(v.first)]
  ELSE [value |-> Collected(nodes, state.values, v),
        values |-> Take(state.values, v),
        ok |-> state.ok /\ \A i \in Children(v) : state.values[i] # Taken]

(* convert_pool: the last node first. *)
ConvertPool(nodes) ==
  FoldRight(LAMBDA i, state :
              LET next == ConvertValue(nodes, state, nodes[i].value)
              IN [next EXCEPT !.values[i] = next.value],
            [i \in 1..Len(nodes) |-> i],
            [value |-> Taken, values |-> [i \in 1..Len(nodes) |-> Taken], ok |-> TRUE])

(* The pool, then the record's own values one after the other. *)
Convert(nodes, roots) ==
  FoldLeft(LAMBDA acc, root :
             LET next == ConvertValue(nodes, acc.state, root)
             IN [state |-> next, out |-> Append(acc.out, next.value)],
           [state |-> ConvertPool(nodes), out |-> <<>>], roots)

-----------------------------------------------------------------------------
(***************************************************************************)
(* Flattener: a queue of values still to be laid out, each with the place  *)
(* it goes to.                                                             *)
(***************************************************************************)
SortedKeys(items) == SelectSeq(KeyOrder, LAMBDA key : key \in DOMAIN items)

(* The children of a value, a map's by key. *)
Kids(v) ==
  CASE v.kind = "array" -> [k \in 1..Len(v.items) |-> [key |-> NoKey, value |-> v.items[k]]]
    [] v.kind = "map" -> LET keys == SortedKeys(v.items)
                         IN [k \in 1..Len(keys) |-> [key |-> keys[k], value |-> v.items[keys[k]]]]
    [] OTHER -> <<>>

(* Fault: a container's range begins at the last node there is. *)
LaidOverLast(v, nodes) ==
  IF v.kind = "scalar" THEN [kind |-> "scalar", first |-> v.data, count |-> 0]
  ELSE [kind |-> v.kind, first |-> Max({1, Len(nodes)}), count |-> Len(Kids(v))]

(* convert_any: a container's range begins past every node there is. *)
Laid(v, nodes) ==
  IF v.kind = "scalar" THEN [kind |-> "scalar", first |-> v.data, count |-> 0]
  ELSE [kind |-> v.kind, first |-> Len(nodes) + 1, count |-> Len(Kids(v))]

EmptyNode(key) == [key |-> key, value |-> [kind |-> "empty", first |-> 0, count |-> 0]]

(* reserve_children *)
Reserve(nodes, kids) == nodes \o [k \in 1..Len(kids) |-> EmptyNode(kids[k].key)]
ReserveOk(nodes, kids) == Len(kids) <= MaxElements /\ Len(nodes) + Len(kids) <= MaxNodes

(* enqueue *)
Enqueue(queue, kids, first, depth) ==
  queue \o [k \in 1..Len(kids) |->
              [node |-> first + k - 1, root |-> 0, value |-> kids[k].value, depth |-> depth]]
DepthOk(kids, depth) == kids # <<>> => depth <= MaxDepth

(* One turn of flatten's loop. *)
FlattenNext(s) ==
  IF s.queue = <<>> \/ ~s.ok THEN s
  ELSE LET e == Head(s.queue)
           kids == Kids(e.value)
           laid == Laid(e.value, s.nodes)
           nodes == IF e.node = 0 THEN s.nodes ELSE [s.nodes EXCEPT ![e.node].value = laid]
       IN [ok |-> ReserveOk(s.nodes, kids) /\ DepthOk(kids, e.depth + 1),
           roots |-> IF e.root = 0 THEN s.roots ELSE [s.roots EXCEPT ![e.root] = laid],
           nodes |-> Reserve(nodes, kids),
           queue |-> Enqueue(Tail(s.queue), kids, Len(s.nodes) + 1, e.depth + 1)]

(* flatten: the pool and the record's own values, laid out breadth first. *)
Flatten(values) ==
  FoldLeft(LAMBDA s, i : FlattenNext(s),
           [ok |-> TRUE, nodes |-> <<>>,
            roots |-> [i \in 1..Len(values) |-> EmptyNode(NoKey).value],
            queue |-> [i \in 1..Len(values) |->
                         [node |-> 0, root |-> i, value |-> values[i], depth |-> 1]]],
           [i \in 1..(MaxNodes + Len(values)) |-> i])

-----------------------------------------------------------------------------
(***************************************************************************)
(* What the header promises (api/include/opentelemetry_c/logs.h:209): the  *)
(* nodes are the descendants of the record's values, each of one parent    *)
(* that comes before it, in ranges within the pool, to a bounded depth.    *)
(***************************************************************************)
Level(nodes, roots) ==
  LET level[d \in 1..MaxDepth] ==
        IF d = 1 THEN UNION {Children(roots[i]) : i \in 1..Len(roots)}
        ELSE UNION {Children(nodes[i].value) : i \in level[d - 1] \cap DOMAIN nodes}
  IN level

IsForest(nodes, roots) ==
  LET Values == {nodes[i].value : i \in DOMAIN nodes} \cup {roots[i] : i \in DOMAIN roots}
      Owners(c) == {i \in DOMAIN nodes : c \in Children(nodes[i].value)}
      RootOwners(c) == {i \in DOMAIN roots : c \in Children(roots[i])}
  IN /\ \A v \in Values :
          /\ v.kind \in {"scalar", "array", "map"}
          /\ Cardinality(Children(v)) <= MaxElements
          /\ Children(v) \subseteq DOMAIN nodes
          /\ v.kind = "array" => \A i \in Children(v) : nodes[i].key = NoKey
          /\ v.kind = "map" =>
               Cardinality({nodes[i].key : i \in Children(v)} \ {NoKey}) = Cardinality(Children(v))
     /\ \A c \in DOMAIN nodes :
          /\ Cardinality(Owners(c)) + Cardinality(RootOwners(c)) = 1
          /\ \A o \in Owners(c) : o < c
     /\ Level(nodes, roots)[MaxDepth] = {}

(* The nested value a pool stands for, of a forest. *)
TreeOf(nodes, v) ==
  LET Nested(trees, w) ==
        CASE w.kind = "array" ->
               [kind |-> "array", items |-> [k \in 1..w.count |-> trees[w.first + k - 1]]]
          [] w.kind = "map" ->
               LET place == [key \in {nodes[i].key : i \in Children(w)} |->
                               CHOOSE i \in Children(w) : nodes[i].key = key]
               IN [kind |-> "map", items |-> [key \in DOMAIN place |-> trees[place[key]]]]
          [] OTHER -> Scalar(w.first)
      trees[i \in DOMAIN nodes] == Nested(trees, nodes[i].value)
  IN Nested(trees, v)

TreesOf(nodes, roots) == [i \in DOMAIN roots |-> TreeOf(nodes, roots[i])]
===============================================================================
