--------------------------------- MODULE MCLogs ---------------------------------
(* Logs with every small pool, whether a forest or not: three nodes under one
   attribute, two nodes under two, and containers nested too deeply or in the
   wrong direction. *)
EXTENDS Logs

CONSTANTS a, b

MCKeyOrder == <<a, b>>
MCContexts == {[valid |-> v, flags |-> f] : v \in BOOLEAN, f \in {"known", "unknown"}}

Fitting == [attributes |-> MaxAttributes, long |-> FALSE]
Wide == [attributes |-> MaxAttributes + 1, long |-> FALSE]
Long == [attributes |-> 0, long |-> TRUE]
MCOwners == {Fitting, Wide, Long}

AnyKey == {NoKey, a, b}
One(n) == [kind |-> "scalar", first |-> n, count |-> 0]
Bad(kind) == [kind |-> kind, first |-> 0, count |-> 0]
Ranges(ranges) ==
  {[kind |-> k, first |-> x[1], count |-> x[2]] : k \in {"array", "map"}, x \in ranges}
Node(key, v) == [key |-> key, value |-> v]
Nodes(values) == {Node(key, v) : key \in AnyKey, v \in values}

MCPools ==
  (* three nodes under one attribute *)
  ((Nodes({One(1)} \cup Ranges({<<2, 1>>, <<2, 2>>, <<1, 1>>}))
    \X Nodes({One(2)} \cup Ranges({<<3, 1>>, <<3, 2>>, <<1, 1>>}))
    \X Nodes({One(3)} \cup Ranges({<<3, 0>>})))
   \X {<<r>> : r \in Ranges({<<1, 1>>, <<1, 2>>, <<2, 2>>, <<1, 3>>})})
  \cup
  (* two nodes under two *)
  ((Nodes({One(1)} \cup Ranges({<<2, 1>>, <<2, 0>>}))
    \X Nodes({One(2), Bad("empty")} \cup Ranges({<<3, 0>>})))
   \X (({One(3)} \cup Ranges({<<1, 1>>, <<1, 2>>}))
       \X ({One(4), Bad("invalid")} \cup Ranges({<<2, 1>>, <<1, 1>>}))))

Over(nodes, roots) ==
  [Plain EXCEPT !.nodes = nodes, !.attributes = [i \in DOMAIN roots |-> Node(a, roots[i])]]

MCRecords ==
  {Plain, [Plain EXCEPT !.body = One(1), !.time = TRUE, !.severity = 24],
   [Plain EXCEPT !.body = Bad("invalid")], [Plain EXCEPT !.severity = 25],
   [Plain EXCEPT !.attributes = <<Node(NoKey, One(1))>>],
   Over(<<>>, <<One(1), One(2), One(3)>>),
   Over([i \in 1..(MaxNodes + 1) |-> Node(NoKey, One(i))], <<>>),
   Over(<<Node(b, One(2)), Node(a, One(3))>>,
        <<One(1), [kind |-> "map", first |-> 1, count |-> 2]>>)}
  \cup {[Plain EXCEPT !.flaws = {f}] : f \in {"null", "short", "reserved", "fields", "array"}}
  \cup {[Plain EXCEPT !.body = One(1), !.context = c] : c \in Contexts}

(* Bounds: the thread's context changes between batches; all that is emitted to a batch that
   will not be shown, for its size or a scope, is an empty record, and to one as large as may
   be exported only if the others are empty as well; a pool is emitted in a scope that fits. *)
Emits == call' # call /\ call'.how \in {"emit", "with", "current"}
Withheld(batch) == Len(batch) = MaxExported \/ ~ScopesOk(batch)
SmallBatches ==
  /\ current' # current => queue = <<>>
  /\ Emits /\ Withheld(queue) =>
       /\ Len(queue') > Len(queue)
       /\ queue'[Len(queue')].record = SdkRecord(Plain)
       /\ Len(queue) = MaxExported => \A i \in DOMAIN queue : queue[i] = queue'[Len(queue')]
  /\ Emits /\ call'.record \notin Records => call'.to \in {Noop, Fitting}
=================================================================================
