------------------------------- MODULE MCPayloads -------------------------------
(* What the library is handed and has to read: log records, as in MCLogs, and the headers
   of other processes.  Headers have up to four members, with a key too many and every wire
   form; tracestates are at and past each limit of the grammar.
   Logs and Propagation share no state, and a behaviour is of one of them, which `part`
   names; the other stays in an initial state. *)
EXTENDS MCLogs, Propagation

CONSTANTS t1, t2, t3, x

VARIABLE part

MCTokens == {t1, t2, t3}
MCOtherKeys == {x}
PayloadsSymmetry == Permutations({t2, t3})

Member(k, v, m) == [key |-> k, value |-> v, metadata |-> m]
MCMembers ==
  {Member(k, "A", "") : k \in MCTokens}
  \cup {Member(t1, v, "") : v \in {"%FF", "%2541", "%20", "%41", "%4"}}
  \cup {Member(t1, "A", m) : m \in {" p", "?"}} \cup {Member(x, "A", "")}

Exact == [length |-> "exact", separated |-> TRUE, version |-> "00",
          trace |-> "id", span |-> "id", flags |-> "other"]
MCTraceparents ==
  {[Exact EXCEPT !.version = v, !.length = l] :
     v \in {"nothex", "ff", "00", "later"}, l \in {"short", "exact", "delimited", "run-on"}}
  \cup {[Exact EXCEPT !.separated = FALSE], [Exact EXCEPT !.flags = "nothex"]}
  \cup {[Exact EXCEPT !.trace = i] : i \in {"nothex", "zero"}}
  \cup {[Exact EXCEPT !.span = i] : i \in {"nothex", "zero"}}

Part(n, first) == [length |-> n, first |-> first, rest |-> TRUE]
Value(n) == [length |-> n, printable |-> TRUE, blankEnd |-> FALSE]
Pair(key, v) == [key |-> key, value |-> v]
Short == <<Part(2, "lower")>>
Other == <<Part(241, "digit"), Part(14, "lower")>>
MCPairs ==
  {Pair(Short, Value(2)), Pair(Other, Value(256)), Pair(<<Part(256, "lower")>>, Value(256))}
  \cup {Pair(Short, [Value(2) EXCEPT !.printable = FALSE]),
        Pair(Short, [Value(2) EXCEPT !.blankEnd = TRUE]), Pair(Short, Value(257)),
        Pair(<<[Part(2, "lower") EXCEPT !.rest = FALSE]>>, Value(2))}
  \cup {Pair(k, Value(1)) :
          k \in {<<Part(2, "digit")>>, <<Part(257, "lower")>>, <<Part(0, "none")>>,
                 <<Part(242, "lower"), Part(2, "lower")>>, <<Part(2, "lower"), Part(15, "lower")>>,
                 <<Part(2, "lower"), Part(2, "digit")>>, <<Part(1, "lower"), Part(1, "lower"), Part(1, "lower")>>}}
MCStates == {<<>>} \cup {<<m>> : m \in MCPairs \cup {Blank, NoEquals}}
  \cup ({Pair(Short, Value(2)), Pair(Other, Value(256)), Blank} \X (MCPairs \cup {Blank, NoEquals}))
  \cup {<<Pair(Short, Value(2)), Blank, Pair(<<Part(3, "lower")>>, Value(2)), Pair(Short, Value(1))>>,
        <<Pair(Short, Value(2)), Blank, Pair(<<Part(3, "lower")>>, Value(2))>>,
        <<Pair(Short, Value(2)), Pair(<<Part(3, "lower")>>, Value(2)), Pair(<<Part(4, "lower")>>, Value(2))>>}

-----------------------------------------------------------------------------
PayloadsInit == part \in {"logs", "propagation"} /\ Init /\ PropagationInit

InLogs(A) == part = "logs" /\ A /\ UNCHANGED <<part, propagationVars>>
InPropagation(A) == part = "propagation" /\ A /\ UNCHANGED <<part, vars>>

LogsStep ==
  \/ \E l \in Loggers :
       \/ InLogs(GetLogger(l))
       \/ InLogs(DestroyLogger(l))
       \/ \E n \in {0, 1, 24, 25} : InLogs(Enabled(l, n))
       \/ \E r \in Records : InLogs(Emit(l, r))
       \/ InLogs(EmitPool(l))
       \/ \E r \in Records, c \in Contexts : InLogs(EmitWithContext(l, r, c))
       \/ \E r \in Records : InLogs(EmitWithCurrentContext(l, r))
  \/ \E c \in Contexts \cup {None} : InLogs(SetCurrent(c))
  \/ InLogs(Return)
  \/ \E resource \in Resources : InLogs(Export(resource))
  \/ InLogs(ExportReturns)

PropagationStep ==
  \/ InPropagation(CarrierDone)
  \/ InPropagation(BuilderCreate) \/ InPropagation(BuilderBuild)
  \/ InPropagation(BuilderDestroy)
  \/ \E e \in Entries : InPropagation(BuilderSet(e))
  \/ \E k \in Tokens \cup OtherKeys : InPropagation(BuilderRemove(k))
  \/ InPropagation(BaggageDestroy) \/ InPropagation(BaggageInject)
  \/ InPropagation(BaggageExtract)
  \/ \E m \in Members : InPropagation(HeaderExtended(m))
  \/ \E t, s \in {"zero", "id"}, f \in {"00", "01", "other"}, r \in BOOLEAN, st \in States :
       InPropagation(ContextCreate(t, s, f, r, st))
  \/ InPropagation(ContextDestroy)
  \/ InPropagation(ContextInjectTraceparent)
  \/ InPropagation(ContextInjectTracestate) \/ InPropagation(ContextExtract)
  \/ \E p \in Traceparents, st \in States : InPropagation(HeadersReplaced(p, st))

PayloadsNext == LogsStep \/ PropagationStep

PayloadsSpec == PayloadsInit /\ [][PayloadsNext]_<<part, vars, propagationVars>>

=================================================================================
