------------------------------ MODULE MCPipeline ------------------------------
(* Pipeline with exporters of two signals, a stage for each and one processor
   for every exporter.  The log signal moves its exporters as the trace signal
   does. *)
EXTENDS Pipeline, TLC

CONSTANTS e1, e2, m1, m2, bt, bm

MCExporters == {e1, e2, m1, m2}
MCStages == {bt, bm}
MCSignalOf == [x \in MCExporters \cup MCStages |->
                 IF x \in {e1, e2, bt} THEN "trace" ELSE "metric"]

Symmetry == Permutations({e1, e2}) \cup Permutations({m1, m2})
            \cup Permutations(Processors) \cup Permutations(Sdks)
===============================================================================
