------------------------------- MODULE MetricViews -------------------------------
(***************************************************************************)
(* Metric views (sdk/src/metric_view.rs): a builder collects criteria that *)
(* select instruments and what their streams look like; a view owns a copy *)
(* of the configuration and is given to an SDK builder; the pipeline asks  *)
(* every view about every instrument.                                      *)
(*                                                                         *)
(* A name is a sequence of characters, "*" the wildcard among them.  The   *)
(* other strings are compared only.  A call that is refused changes        *)
(* nothing and has no action.                                              *)
(***************************************************************************)
EXTENDS Naturals, Sequences, FiniteSets
LOCAL INSTANCE SequencesExt

CONSTANTS
  Patterns,       (* what set_name_pattern is given                        *)
  Names,          (* instrument names                                      *)
  ExactFields,    (* meter_name, scope_version, scope_schema_url, unit     *)
  Strings,        (* their values                                          *)
  Keys, Values,   (* attribute keys and values of either type              *)
  InstrumentKinds,
  OutputNames,    (* what set_output_name is given, ...                    *)
  BadNames,       (* ... those upstream refuses among them                 *)
  MaxAttributes,  (* MAX_VIEW_SCOPE_ATTRIBUTES, MAX_VIEW_ALLOWED_ATTRIBUTES *)
  MaxCalls,       (* bound: calls of setters                               *)
  Null

VARIABLES
  builder,        (* the builder's configuration, or Null                  *)
  view,           (* the configuration of a view that was built, or Null   *)
  transferred,    (* the SDK builder owns it, not the caller               *)
  calls           (* setters called so far                                 *)

vars == <<builder, view, transferred, calls>>

(* Aggregations a builder may ask for: the plain ones, an explicit histogram's boundaries,
   an exponential histogram's size and scale. *)
Explicit == [boundaries : {<<>>, <<1>>, <<1, 2>>, <<2, 1>>, <<1, 1>>}]
Exponential == [max_size : {0, 1}, max_scale : {9, 10, 30, 31}]  (* scales, plus 20 *)
Plain == [plain : {"drop", "sum", "last_value"}]

default_config ==
  [name_pattern |-> Null, exact |-> [f \in ExactFields |-> Null], scope_attributes |-> <<>>,
   kind |-> Null, output_name |-> Null, filter |-> FALSE, allowed |-> <<>>, limit |-> Null,
   aggregation |-> [plain |-> "default"]]

Init ==
  /\ builder = Null /\ view = Null
  /\ transferred = FALSE
  /\ calls = 0

otel_metric_view_builder_new ==
  /\ builder = Null
  /\ builder' = default_config
  /\ UNCHANGED <<view, transferred, calls>>

otel_metric_view_builder_destroy ==
  /\ builder # Null
  /\ builder' = Null
  /\ UNCHANGED <<view, transferred, calls>>

with_builder(config) ==
  /\ calls < MaxCalls
  /\ calls' = calls + 1
  /\ builder' = config
  /\ UNCHANGED <<view, transferred>>

(* An empty string takes the criterion back. *)
Optional(s) == IF s = <<>> THEN Null ELSE s

set_name_pattern == \E p \in Patterns : with_builder([builder EXCEPT !.name_pattern = Optional(p)])

set_exact ==
  \E f \in ExactFields, s \in Strings \cup {<<>>} :
     with_builder([builder EXCEPT !.exact[f] = Optional(s)])

set_output_name ==
  \E s \in OutputNames : with_builder([builder EXCEPT !.output_name = Optional(s)])

(* ANY_KIND, or one the library knows. *)
set_instrument_kind ==
  \E k \in InstrumentKinds \cup {Null} : with_builder([builder EXCEPT !.kind = k])

(* The limit comes first, then a matcher for a key there is one for. *)
add_scope_attribute ==
  \E k \in Keys, v \in Values :
    /\ Len(builder.scope_attributes) < MaxAttributes
    /\ \A i \in DOMAIN builder.scope_attributes : builder.scope_attributes[i].key # k
    /\ with_builder([builder EXCEPT
          !.scope_attributes = Append(@, [key |-> k, value |-> v])])

(* A key that is allowed turns the filter on. *)
add_allowed_attribute ==
  \E k \in Keys :
    /\ Len(builder.allowed) < MaxAttributes
    /\ with_builder([builder EXCEPT !.allowed = Append(@, k), !.filter = TRUE])

set_cardinality_limit ==
  \E n \in {0, 1} : n > 0 /\ with_builder([builder EXCEPT !.limit = n])

set_attribute_filter_enabled ==
  \E enabled \in BOOLEAN : with_builder([builder EXCEPT !.filter = enabled])

(* copy_boundaries: finite and strictly increasing. *)
Increasing(bounds) == \A i \in 2..Len(bounds) : bounds[i - 1] < bounds[i]

set_explicit_histogram ==
  \E a \in Explicit :
    /\ Increasing(a.boundaries)
    /\ with_builder([builder EXCEPT !.aggregation = a])

set_exponential_histogram ==
  \E a \in Exponential :
    /\ a.max_size > 0
    /\ a.max_scale \in 10..40
    /\ with_builder([builder EXCEPT !.aggregation = a])

set_aggregation == \E a \in Plain : with_builder([builder EXCEPT !.aggregation = a])

(* Stream::build of opentelemetry_sdk: a name the library refuses fails it. *)
StreamBuilds(config) == config.output_name \notin BadNames

(* stream: what a matching instrument is turned into. *)
stream(config) ==
  IF StreamBuilds(config)
    THEN [name |-> config.output_name, aggregation |-> config.aggregation,
          limit |-> config.limit, keys |-> IF config.filter THEN ToSet(config.allowed) ELSE Keys]
    ELSE Null

Stars(pattern) == {i \in DOMAIN pattern : pattern[i] = "*"}

Buildable(config) ==
  /\ config.name_pattern # Null => Cardinality(Stars(config.name_pattern)) <= 1
  /\ stream(config) # Null

(* otel_metric_view_builder_build: the builder stays usable. *)
otel_metric_view_builder_build ==
  /\ view = Null
  /\ Buildable(builder)
  /\ view' = builder
  /\ UNCHANGED <<builder, transferred, calls>>

(* otel_sdk_builder_add_metric_view: the view's handle dies. *)
otel_sdk_builder_add_metric_view ==
  /\ view # Null
  /\ ~transferred
  /\ transferred' = TRUE
  /\ UNCHANGED <<builder, view, calls>>

otel_metric_view_destroy ==
  /\ view # Null
  /\ ~transferred
  /\ view' = Null
  /\ UNCHANGED <<builder, transferred, calls>>

Setter ==
  \/ set_name_pattern \/ set_exact \/ set_output_name \/ set_instrument_kind
  \/ add_scope_attribute \/ add_allowed_attribute \/ set_attribute_filter_enabled
  \/ set_cardinality_limit \/ set_aggregation \/ set_explicit_histogram \/ set_exponential_histogram

Next ==
  \/ otel_metric_view_builder_new \/ otel_metric_view_builder_destroy
  \/ builder # Null /\ (Setter \/ otel_metric_view_builder_build)
  \/ otel_metric_view_destroy \/ otel_sdk_builder_add_metric_view

Spec == Init /\ [][Next]_vars

-----------------------------------------------------------------------------
(* What the pipeline asks a view.  An instrument has a name, the fields of its meter and
   its unit, its meter's attributes and a kind. *)
Attributes == {a \in SUBSET [key : Keys, value : Values] :
                 \A x, y \in a : x.key = y.key => x = y}

Instruments ==
  [name : Names, exact : [ExactFields -> Strings], attributes : Attributes,
   kind : InstrumentKinds]

starts_with(s, t) == Len(t) <= Len(s) /\ SubSeq(s, 1, Len(t)) = t
ends_with(s, t) == Len(t) <= Len(s) /\ SubSeq(s, Len(s) - Len(t) + 1, Len(s)) = t

(* Fault: the two parts of the pattern may overlap in the name. *)
wildcard_matches_overlapping(pattern, name) ==
  IF Stars(pattern) = {} THEN pattern = name
  ELSE LET star == CHOOSE i \in Stars(pattern) : TRUE
       IN  /\ starts_with(name, SubSeq(pattern, 1, star - 1))
           /\ ends_with(name, SubSeq(pattern, star + 1, Len(pattern)))

wildcard_matches(pattern, name) ==
  IF Stars(pattern) = {} THEN pattern = name
  ELSE LET star == CHOOSE i \in Stars(pattern) : \A j \in Stars(pattern) : i <= j
       IN  /\ starts_with(name, SubSeq(pattern, 1, star - 1))
           /\ ends_with(name, SubSeq(pattern, star + 1, Len(pattern)))
           /\ Len(name) >= Len(pattern) - 1

kind_matches(kind, actual) == kind \in {Null, actual}

apply(config, i) ==
  IF /\ config.name_pattern # Null => wildcard_matches(config.name_pattern, i.name)
     /\ \A f \in ExactFields : config.exact[f] \in {Null, i.exact[f]}
     /\ \A n \in DOMAIN config.scope_attributes : config.scope_attributes[n] \in i.attributes
     /\ kind_matches(config.kind, i.kind)
  THEN stream(config) ELSE Null

-----------------------------------------------------------------------------
(* A pattern with "*" stands for the names it becomes with a text put in its place. *)
Fits(pattern, name) ==
  \E i \in 0..Len(name), j \in 0..Len(name) :
     /\ i <= j
     /\ pattern \in {name, SubSeq(name, 1, i) \o <<"*">> \o SubSeq(name, j + 1, Len(name))}

(* What a configuration says of an instrument, criterion by criterion. *)
Selected(config, i) ==
  /\ config.name_pattern = Null \/ Fits(config.name_pattern, i.name)
  /\ ExactFields = {f \in ExactFields : config.exact[f] = Null \/ config.exact[f] = i.exact[f]}
  /\ {config.scope_attributes[n] : n \in DOMAIN config.scope_attributes} \ i.attributes = {}
  /\ config.kind # Null => config.kind = i.kind

(* Every view that could be built gives a stream to the instruments its configuration
   describes, whatever else it configures, and to no other (metric_view.rs:544-592): names
   shorter than the two parts of a pattern are not matched twice, and a stream that fails
   is met when the view is built, not when the instrument is asked about. *)
SelectsAsDeclared ==
  transferred => \A i \in Instruments : (apply(view, i) # Null) <=> Selected(view, i)
===============================================================================
