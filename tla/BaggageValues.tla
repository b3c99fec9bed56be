----------------------------- MODULE BaggageValues -----------------------------
(***************************************************************************)
(* Baggage entries and the W3C baggage header (api/src/baggage.rs), as     *)
(* operators.                                                              *)
(*                                                                         *)
(* An entry is [key, value, metadata]; a member of a header has the same   *)
(* fields with the value as it is written on the wire.  Values and         *)
(* metadata are members of small sets that differ in what the conversions  *)
(* do to them: a printable byte, a percent sign, a byte that has to be     *)
(* escaped, and the replacement character that invalid UTF-8 decodes to.   *)
(***************************************************************************)
EXTENDS Naturals, SequencesExt

CONSTANTS
  Tokens,      (* keys that are W3C tokens                                 *)
  OtherKeys,   (* keys a builder takes and a header cannot carry           *)
  MaxItems,    (* MAX_BAGGAGE_ITEMS                                        *)
  MaxBytes     (* MAX_BAGGAGE_BYTES                                        *)

ASSUME BaggageAssumption ==
  /\ Tokens \cap OtherKeys = {}
  /\ MaxItems \in Nat \ {0} /\ MaxBytes \in Nat

Length == [t \in {"", "A", "%41", " ", "%20", "%2541", "U+FFFD", "%FF", "%EF%BF%BD",
                  "%4", "p", " p", "?"} |->
  CASE t = "" -> 0
    [] t \in {"A", " ", "p", "?"} -> 1
    [] t \in {" p", "%4"} -> 2
    [] t \in {"%41", "%20", "%FF", "U+FFFD"} -> 3
    [] t = "%2541" -> 5
    [] t = "%EF%BF%BD" -> 9]
KeyLength == 1

(* Values a program stores, and the wire forms that decode at all. *)
Values == {"A", "%41", " ", "U+FFFD"}
percent_decode ==
  [w \in {"A", "%41", "%20", "%2541", "%FF", "%EF%BF%BD"} |->
     CASE w \in {"A", "%41"} -> "A"
       [] w = "%20" -> " "
       [] w = "%2541" -> "%41"
       [] w \in {"%FF", "%EF%BF%BD"} -> "U+FFFD"]

(* Fault: a percent sign is not escaped. *)
encode_value_keeping_percent(v) ==
  CASE v \in {"A", "%41"} -> v [] v = " " -> "%20" [] v = "U+FFFD" -> "%EF%BF%BD"

encode_value(v) ==
  CASE v = "A" -> "A"
    [] v = "%41" -> "%2541"
    [] v = " " -> "%20"
    [] v = "U+FFFD" -> "%EF%BF%BD"

(* Metadata that is a list of properties, to what parsing leaves of it: properties are
   trimmed.  "?" is no such list. *)
Canonical == [m \in {"", "p", " p"} |-> IF m = "" THEN "" ELSE "p"]

-----------------------------------------------------------------------------
EntryBytes(e) == KeyLength + Length[e.value] + Length[e.metadata]

stored_bytes(entries) == FoldLeft(LAMBDA n, e : n + EntryBytes(e), 0, entries)

Positions(entries, k) == {i \in DOMAIN entries : entries[i].key = k}
Has(entries, k) == Positions(entries, k) # {}

(* An entry takes the place of one with its key, or the end. *)
Put(entries, e) ==
  IF Has(entries, e.key)
    THEN [i \in DOMAIN entries |-> IF entries[i].key = e.key THEN e ELSE entries[i]]
    ELSE Append(entries, e)

(* Fault: what is replaced has made room already. *)
SetOkWhenReplacing(entries, e) ==
  \/ Has(entries, e.key)
  \/ /\ stored_bytes(entries) + EntryBytes(e) <= MaxBytes
     /\ Len(entries) # MaxItems

(* otel_baggage_builder_set: the limits, of what would be stored. *)
SetOk(entries, e) ==
  LET old == {EntryBytes(entries[i]) : i \in Positions(entries, e.key)}
      freed == IF old = {} THEN 0 ELSE CHOOSE n \in old : TRUE
  IN  /\ EntryBytes(e) <= MaxBytes
      /\ stored_bytes(entries) - freed + EntryBytes(e) <= MaxBytes
      /\ Has(entries, e.key) \/ Len(entries) # MaxItems

Without(entries, k) == SelectSeq(entries, LAMBDA e : e.key # k)

validate_bounds(entries) == Len(entries) <= MaxItems /\ stored_bytes(entries) <= MaxBytes

-----------------------------------------------------------------------------
MemberBytes(m) ==
  KeyLength + 1 + Length[m.value] + (IF m.metadata = "" THEN 0 ELSE 1 + Length[m.metadata])

HeaderBytes(h) ==
  IF h = <<>> THEN 0 ELSE FoldLeft(LAMBDA n, m : n + MemberBytes(m), Len(h) - 1, h)

(* parse_member: the key is a token, the value decodes, the properties are properties. *)
Parses(m) ==
  m.key \in Tokens /\ m.value \in DOMAIN percent_decode /\ m.metadata \in DOMAIN Canonical

parse_member(m) ==
  [key |-> m.key, value |-> percent_decode[m.value], metadata |-> Canonical[m.metadata]]

(* Members that do not parse are skipped; a key that is there already is replaced, however
   full the list is. *)
ExtractMember(entries, m) ==
  IF Parses(m) /\ (Has(entries, m.key) \/ Len(entries) < MaxItems)
    THEN Put(entries, parse_member(m))
    ELSE entries

(* otel_baggage_propagation_extract; a header over the limit is ignored. *)
Extract(header) ==
  IF HeaderBytes(header) <= MaxBytes THEN FoldLeft(ExtractMember, <<>>, header) ELSE <<>>

(* encoded_member: metadata is emitted as it is stored, once it is seen to parse. *)
Encodes(e) == e.key \in Tokens /\ e.metadata \in DOMAIN Canonical
encoded_member(e) == [e EXCEPT !.value = encode_value(e.value)]

InjectEntry(header, e) ==
  LET longer == Append(header, encoded_member(e))
  IN  IF Encodes(e) /\ HeaderBytes(longer) <= MaxBytes THEN longer ELSE header

(* otel_baggage_propagation_inject: what does not fit is left out, and the rest is tried. *)
Inject(entries) == FoldLeft(InjectEntry, <<>>, entries)

-----------------------------------------------------------------------------
(* otel_baggage_get: the entry of a key, as a set of at most one. *)
Get(entries, k) ==
  {entries[i] : i \in {i \in Positions(entries, k) : \A j \in 1..(i - 1) : entries[j].key # k}}

(* otel_baggage_visit: the entries a visitor sees that stops at the n-th. *)
VisitEntries(entries, n) == SubSeq(entries, 1, IF n < Len(entries) THEN n ELSE Len(entries))
===============================================================================
