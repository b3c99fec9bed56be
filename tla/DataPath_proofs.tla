----------------------------- MODULE DataPath_proofs -----------------------------
(***************************************************************************)
(* Proofs about the path of the data: the ownership of exporters, for any  *)
(* exporters, stages, processors, builders and SDKs, and what they and     *)
(* ManualReader_proofs say of the parts of MCDataPath.                     *)
(***************************************************************************)
EXTENDS MCDataPath, FiniteSetTheorems, TLAPS

--------------------------------------------------------------------------------
(* Exporters on their way into an SDK. *)

InBuilder(c, g, p) == p \in ToSet(added[c][g])
InSdk(s, g, p) == p \in ToSet(installed[s][g])

TypeOK ==
  /\ unused \subseteq Handles /\ live \subseteq Handles /\ unused \cap live = {}
  /\ staged \in [Stages -> Exporters \cup {NoExporter}]
  /\ inner \in [Processors -> Exporters \cup {NoExporter}]
  /\ added \in [Builders -> [Signals -> Seq(Processors)]]
  /\ installed \in [Sdks -> [Signals -> Seq(Processors)]]
  /\ providers \subseteq Sdks \X Signals
  /\ released \in [Exporters -> Nat]

(* An exporter has been inside one stage or processor at most, and the caller has no handle
   of it then. *)
Carried ==
  /\ \A a \in Stages : staged[a] \in Exporters =>
       a \in live /\ staged[a] \notin unused /\ staged[a] \notin live
  /\ \A a, b \in Stages : staged[a] = staged[b] /\ staged[a] \in Exporters => a = b
  /\ \A p \in Processors : inner[p] \in Exporters =>
       p \notin unused /\ inner[p] \notin unused /\ inner[p] \notin live
  /\ \A p, q \in Processors : inner[p] = inner[q] /\ inner[p] \in Exporters => p = q
  /\ \A a \in Stages, p \in Processors : staged[a] \in Exporters => staged[a] # inner[p]

(* A processor is the caller's or in one list of one builder or one SDK, and lists are kept
   only by a builder that is there and by an SDK or a handle of its provider. *)
Listed ==
  /\ \A p \in Processors : p \in live => inner[p] \in Exporters
  /\ \A c \in Builders, g \in Signals, p \in Processors : InBuilder(c, g, p) =>
       c \in live /\ p \notin live /\ inner[p] \in Exporters
  /\ \A s \in Sdks, g \in Signals, p \in Processors : InSdk(s, g, p) =>
       (s \in live \/ <<s, g>> \in providers) /\ p \notin live /\ inner[p] \in Exporters
  /\ \A c, d \in Builders, g, h \in Signals, p \in Processors :
       InBuilder(c, g, p) /\ InBuilder(d, h, p) => c = d /\ g = h
  /\ \A s, t \in Sdks, g, h \in Signals, p \in Processors :
       InSdk(s, g, p) /\ InSdk(t, h, p) => s = t /\ g = h
  /\ \A c \in Builders, s \in Sdks, g, h \in Signals, p \in Processors :
       ~(InBuilder(c, g, p) /\ InSdk(s, h, p))
  /\ \A s \in Sdks, g \in Signals : <<s, g>> \in providers => s \notin unused

(* Where a processor and an exporter can be. *)
Placed(p) ==
  \/ p \in live
  \/ \E c \in Builders, g \in Signals : InBuilder(c, g, p)
  \/ \E s \in Sdks, g \in Signals : InSdk(s, g, p)
Owned(e) ==
  \/ e \in unused \cup live
  \/ \E a \in Stages : staged[a] = e
  \/ \E p \in Processors : inner[p] = e /\ Placed(p)

(* What nobody has was released. *)
Accounted == \A e \in Exporters : released[e] = IF Owned(e) THEN 0 ELSE 1

PipelineInv == TypeOK /\ Carried /\ Listed /\ Accounted

(* Appending to a list adds one to it. *)
LEMMA ToSetOfAppend ==
  ASSUME NEW S, NEW q \in Seq(S), NEW one \in S
  PROVE  Append(q, one) \in Seq(S) /\ ToSet(Append(q, one)) = ToSet(q) \cup {one}
<1> DEFINE a == Append(q, one)
<1>1. /\ a \in Seq(S) /\ Len(q) \in Nat /\ DOMAIN q = 1..Len(q) /\ DOMAIN a = 1..(Len(q) + 1)
      /\ a[Len(q) + 1] = one
  OBVIOUS
<1>2. \A n \in 1..Len(q) : a[n] = q[n]
  OBVIOUS
<1> HIDE DEF a
<1>3. \A e : e \in ToSet(a) <=> e \in ToSet(q) \/ e = one
  <2>1. \A e : e \in ToSet(a) <=> \E n \in 1..(Len(q) + 1) : a[n] = e
    BY <1>1 DEF ToSet
  <2>2. \A e : e \in ToSet(q) <=> \E n \in 1..Len(q) : q[n] = e
    BY <1>1 DEF ToSet
  <2>3. \A n \in 1..(Len(q) + 1) : n \in 1..Len(q) \/ n = Len(q) + 1
    BY <1>1
  <2>4. 1..Len(q) \subseteq 1..(Len(q) + 1) /\ Len(q) + 1 \in 1..(Len(q) + 1)
    BY <1>1
  <2>5. QED
    BY <1>1, <1>2, <2>1, <2>2, <2>3, <2>4
<1>4. QED
  BY <1>1, <1>3 DEF a

(* The lists of nobody are empty. *)
LEMMA EmptyLists ==
  /\ Empty \in [Signals -> Seq(Processors)]
  /\ \A g \in Signals : \A p : p \notin ToSet(Empty[g])
BY DEF Empty, ToSet

(* The initial state satisfies the invariant. *)
LEMMA PipelineInitInv == Init => PipelineInv
<1> SUFFICES ASSUME Init PROVE PipelineInv
  OBVIOUS
<1> USE PipelineAssumption DEF PipelineAssumption, Init
<1>1. /\ \A c \in Builders, g \in Signals : \A p : ~InBuilder(c, g, p)
      /\ \A s \in Sdks, g \in Signals : \A p : ~InSdk(s, g, p)
  BY EmptyLists DEF InBuilder, InSdk
<1>2. TypeOK
  <2>1. Empty \in [Signals -> Seq(Processors)]
    BY DEF Empty
  <2>2. QED
    BY <2>1 DEF TypeOK
<1>3. Carried /\ Listed
  BY <1>1 DEF Carried, Listed
<1>4. Accounted
  BY DEF Accounted, Owned, Handles
<1>5. QED
  BY <1>2, <1>3, <1>4 DEF PipelineInv

(* Dropping the exporters that have lost their place, and no others, keeps the account. *)
LEMMA DropAccounts ==
  ASSUME PipelineInv, NEW es, Drop(es),
         \A e \in Exporters : IF e \in es THEN Owned(e) /\ ~Owned(e)' ELSE Owned(e)' <=> Owned(e)
  PROVE  Accounted' /\ released' \in [Exporters -> Nat]
<1>1. released \in [Exporters -> Nat] /\ Accounted
  BY DEF PipelineInv, TypeOK
<1>2. \A e \in Exporters : released'[e] = released[e] + IF e \in es THEN 1 ELSE 0
  BY DEF Drop
<1>3. released' \in [Exporters -> Nat]
  BY <1>1 DEF Drop
<1>4. Accounted'
  BY <1>1, <1>2 DEF Accounted
<1>5. QED
  BY <1>3, <1>4

(* Nothing is dropped if nothing loses its place. *)
LEMMA KeepAccounts ==
  ASSUME PipelineInv, UNCHANGED released, \A e \in Exporters : Owned(e)' <=> Owned(e)
  PROVE  Accounted'
BY DEF PipelineInv, Accounted

(* The exporters of a list are those inside its processors. *)
LEMMA InsideLists ==
  ASSUME PipelineInv
  PROVE  /\ \A c \in Builders, e \in Exporters :
              e \in AllInside(added[c]) <=>
                \E g \in Signals, p \in Processors : InBuilder(c, g, p) /\ inner[p] = e
         /\ \A s \in Sdks, g \in Signals, e \in Exporters :
              e \in Inside(installed[s], g) <=>
                \E p \in Processors : InSdk(s, g, p) /\ inner[p] = e
         /\ \A c \in Builders, g \in Signals : \A p : InBuilder(c, g, p) => p \in Processors
         /\ \A s \in Sdks, g \in Signals : \A p : InSdk(s, g, p) => p \in Processors
<1>1. \A q \in Seq(Processors) : ToSet(q) \subseteq Processors
  BY DEF ToSet
<1>2. /\ \A c \in Builders, g \in Signals : added[c][g] \in Seq(Processors)
      /\ \A s \in Sdks, g \in Signals : installed[s][g] \in Seq(Processors)
  BY DEF PipelineInv, TypeOK
<1>3. /\ \A c \in Builders, g \in Signals : \A p : InBuilder(c, g, p) => p \in Processors
      /\ \A s \in Sdks, g \in Signals : \A p : InSdk(s, g, p) => p \in Processors
  BY <1>1, <1>2 DEF InBuilder, InSdk
<1>4. QED
  BY <1>3 DEF AllInside, Inside, InBuilder, InSdk

(* A step that leaves the lists alone. *)
LEMMA SameLists ==
  /\ UNCHANGED added =>
       \A c \in Builders, g \in Signals : \A p : InBuilder(c, g, p)' <=> InBuilder(c, g, p)
  /\ UNCHANGED installed =>
       \A s \in Sdks, g \in Signals : \A p : InSdk(s, g, p)' <=> InSdk(s, g, p)
BY DEF InBuilder, InSdk

(* An exporter, a stage or a builder is made. *)
LEMMA NewStep ==
  ASSUME PipelineInv, NEW new_h, new(new_h)
  PROVE  PipelineInv'
<1> USE PipelineAssumption DEF PipelineAssumption
<1>1. /\ new_h \in Exporters \cup Stages \cup Builders /\ new_h \in unused
      /\ unused' = unused \ {new_h} /\ live' = live \cup {new_h}
      /\ UNCHANGED <<staged, inner, added, installed, providers, released>>
  BY DEF new, Create
<1>2. TypeOK'
  BY <1>1 DEF PipelineInv, TypeOK, Handles
<1>3. /\ \A c \in Builders, g \in Signals : \A p : InBuilder(c, g, p)' <=> InBuilder(c, g, p)
      /\ \A s \in Sdks, g \in Signals : \A p : InSdk(s, g, p)' <=> InSdk(s, g, p)
      /\ \A p \in Processors : p \in live' <=> p \in live
  BY <1>1, SameLists
<1>4. Carried'
  BY <1>1 DEF PipelineInv, Carried
<1>5. Listed'
  BY <1>1, <1>3 DEF PipelineInv, Listed
<1>6. \A p \in Processors : Placed(p)' <=> Placed(p)
  BY <1>3 DEF Placed
<1>7. \A e \in Exporters : Owned(e)' <=> Owned(e)
  BY <1>1, <1>6 DEF Owned
<1>8. QED
  BY <1>1, <1>2, <1>4, <1>5, <1>7, KeepAccounts DEF PipelineInv

(* The caller destroys an exporter. *)
LEMMA ExporterDestroyStep ==
  ASSUME PipelineInv, NEW e \in Exporters, exporter_destroy(e)
  PROVE  PipelineInv'
<1> USE PipelineAssumption DEF PipelineAssumption
<1>1. /\ e \in live /\ live' = live \ {e} /\ Drop({e})
      /\ UNCHANGED <<unused, staged, inner, added, installed, providers>>
  BY DEF exporter_destroy, Take
<1>2. /\ \A c \in Builders, g \in Signals : \A p : InBuilder(c, g, p)' <=> InBuilder(c, g, p)
      /\ \A s \in Sdks, g \in Signals : \A p : InSdk(s, g, p)' <=> InSdk(s, g, p)
      /\ \A p \in Stages \cup Processors \cup Builders \cup Sdks : p \in live' <=> p \in live
  BY <1>1, SameLists
<1>3. Carried' /\ Listed'
  BY <1>1, <1>2 DEF PipelineInv, Carried, Listed
<1>4. \A p \in Processors : Placed(p)' <=> Placed(p)
  BY <1>2 DEF Placed
<1>5. \A f \in Exporters : IF f \in {e} THEN Owned(f) /\ ~Owned(f)' ELSE Owned(f)' <=> Owned(f)
  BY <1>1, <1>4 DEF Owned, PipelineInv, Carried, TypeOK
<1>6. Accounted' /\ released' \in [Exporters -> Nat]
  BY <1>1, <1>5, DropAccounts
<1>7. TypeOK'
  BY <1>1, <1>6 DEF PipelineInv, TypeOK
<1>8. QED
  BY <1>3, <1>6, <1>7 DEF PipelineInv

(* An exporter moves into a stage and the one it replaces is dropped. *)
LEMMA SetExporterStep ==
  ASSUME PipelineInv, NEW e \in Exporters, NEW a \in Stages, set_exporter(a, e)
  PROVE  PipelineInv'
<1> USE PipelineAssumption DEF PipelineAssumption
<1>1. /\ a \in live /\ e \in live /\ live' = live \ {e} /\ Drop({staged[a]})
      /\ staged' = [staged EXCEPT ![a] = e]
      /\ UNCHANGED <<unused, inner, added, installed, providers>>
  BY DEF set_exporter, Take
<1>2. /\ staged \in [Stages -> Exporters \cup {NoExporter}] /\ e \notin unused
      /\ staged' \in [Stages -> Exporters \cup {NoExporter}]
      /\ staged'[a] = e /\ \A b \in Stages \ {a} : staged'[b] = staged[b]
  BY <1>1 DEF PipelineInv, TypeOK
<1>3. /\ \A c \in Builders, g \in Signals : \A p : InBuilder(c, g, p)' <=> InBuilder(c, g, p)
      /\ \A s \in Sdks, g \in Signals : \A p : InSdk(s, g, p)' <=> InSdk(s, g, p)
      /\ \A p \in Stages \cup Processors \cup Builders \cup Sdks : p \in live' <=> p \in live
  BY <1>1, SameLists
<1>4. /\ \A b \in Stages : staged[b] # e
      /\ \A p \in Processors : inner[p] # e
  BY <1>1 DEF PipelineInv, Carried
<1>5. Carried'
  BY <1>1, <1>2, <1>3, <1>4 DEF PipelineInv, Carried
<1>6. Listed'
  BY <1>1, <1>3 DEF PipelineInv, Listed
<1>7. \A p \in Processors : Placed(p)' <=> Placed(p)
  BY <1>3 DEF Placed
<1>8. \A f \in Exporters :
        IF f \in {staged[a]} THEN Owned(f) /\ ~Owned(f)' ELSE Owned(f)' <=> Owned(f)
  <2>1. ASSUME NEW f \in Exporters, f = staged[a] PROVE Owned(f) /\ ~Owned(f)'
    BY <1>1, <1>2, <1>4, <2>1 DEF Owned, PipelineInv, Carried
  <2>2. ASSUME NEW f \in Exporters, f # staged[a] PROVE Owned(f)' <=> Owned(f)
    BY <1>1, <1>2, <1>7, <2>2 DEF Owned
  <2>3. QED
    BY <2>1, <2>2
<1>9. Accounted' /\ released' \in [Exporters -> Nat]
  BY <1>1, <1>8, DropAccounts
<1>10. TypeOK'
  BY <1>1, <1>2, <1>9 DEF PipelineInv, TypeOK
<1>11. QED
  BY <1>5, <1>6, <1>9, <1>10 DEF PipelineInv

(* A stage is emptied, its exporter dropped; the stage itself may go, too. *)
LEMMA EmptyStageStep ==
  ASSUME PipelineInv, NEW a \in Stages, stage_build_fails(a) \/ stage_destroy(a)
  PROVE  PipelineInv'
<1> USE PipelineAssumption DEF PipelineAssumption
<1>1. /\ a \in live /\ live' \in {live, live \ {a}} /\ Drop({staged[a]})
      /\ staged' = [staged EXCEPT ![a] = NoExporter]
      /\ UNCHANGED <<unused, inner, added, installed, providers>>
  BY DEF stage_build_fails, stage_destroy, Take, handleVars
<1>2. /\ staged \in [Stages -> Exporters \cup {NoExporter}]
      /\ staged' \in [Stages -> Exporters \cup {NoExporter}]
      /\ staged'[a] = NoExporter /\ \A b \in Stages \ {a} : staged'[b] = staged[b]
  BY <1>1 DEF PipelineInv, TypeOK
<1>3. /\ \A c \in Builders, g \in Signals : \A p : InBuilder(c, g, p)' <=> InBuilder(c, g, p)
      /\ \A s \in Sdks, g \in Signals : \A p : InSdk(s, g, p)' <=> InSdk(s, g, p)
      /\ \A p \in Exporters \cup Processors \cup Builders \cup Sdks : p \in live' <=> p \in live
      /\ \A b \in Stages \ {a} : b \in live' <=> b \in live
  BY <1>1, SameLists
<1>4. Carried'
  BY <1>1, <1>2, <1>3 DEF PipelineInv, Carried
<1>5. Listed'
  BY <1>1, <1>3 DEF PipelineInv, Listed
<1>6. \A p \in Processors : Placed(p)' <=> Placed(p)
  BY <1>3 DEF Placed
<1>7. \A f \in Exporters :
        IF f \in {staged[a]} THEN Owned(f) /\ ~Owned(f)' ELSE Owned(f)' <=> Owned(f)
  <2>1. ASSUME NEW f \in Exporters, f = staged[a] PROVE Owned(f) /\ ~Owned(f)'
    BY <1>1, <1>2, <1>3, <2>1 DEF Owned, PipelineInv, Carried
  <2>2. ASSUME NEW f \in Exporters, f # staged[a] PROVE Owned(f)' <=> Owned(f)
    BY <1>1, <1>2, <1>3, <1>6, <2>2 DEF Owned
  <2>3. QED
    BY <2>1, <2>2
<1>8. Accounted' /\ released' \in [Exporters -> Nat]
  BY <1>1, <1>7, DropAccounts
<1>9. TypeOK'
  <2>1. live' \subseteq Handles /\ unused' \cap live' = {}
    BY <1>1 DEF PipelineInv, TypeOK
  <2>2. QED
    BY <1>1, <1>2, <1>8, <2>1 DEF PipelineInv, TypeOK
<1>10. QED
  BY <1>4, <1>5, <1>8, <1>9 DEF PipelineInv

(* The exporter of a stage, or one that needs no stage, moves into a new processor. *)
LEMMA ProcessorMadeStep ==
  ASSUME PipelineInv, NEW p \in Processors, NEW e \in Exporters,
         p \in unused, unused' = unused \ {p},
         inner' = [inner EXCEPT ![p] = e],
         \/ /\ \E a \in Stages : staged[a] = e /\ staged' = [staged EXCEPT ![a] = NoExporter]
            /\ live' = live \cup {p}
         \/ e \in live /\ live' = (live \ {e}) \cup {p} /\ UNCHANGED staged,
         UNCHANGED <<added, installed, providers, released>>
  PROVE  PipelineInv'
<1> USE PipelineAssumption DEF PipelineAssumption
<1>1. /\ inner \in [Processors -> Exporters \cup {NoExporter}]
      /\ staged \in [Stages -> Exporters \cup {NoExporter}]
      /\ inner' \in [Processors -> Exporters \cup {NoExporter}]
      /\ inner'[p] = e /\ \A q \in Processors \ {p} : inner'[q] = inner[q]
      /\ inner[p] \notin Exporters /\ p \notin live /\ e \notin unused
  BY DEF PipelineInv, TypeOK, Carried
<1>2. /\ staged' \in [Stages -> Exporters \cup {NoExporter}]
      /\ \A a \in Stages : staged'[a] \in Exporters <=> staged[a] \in Exporters /\ staged[a] # e
      /\ \A a \in Stages : staged'[a] \in Exporters => staged'[a] = staged[a]
  <2>1. CASE \E a \in Stages : staged[a] = e /\ staged' = [staged EXCEPT ![a] = NoExporter]
    <3>1. PICK a \in Stages : staged[a] = e /\ staged' = [staged EXCEPT ![a] = NoExporter]
      BY <2>1
    <3>2. \A b \in Stages : staged[b] = e => b = a
      BY <3>1 DEF PipelineInv, Carried
    <3>3. QED
      BY <1>1, <3>1, <3>2
  <2>2. CASE e \in live /\ UNCHANGED staged
    BY <1>1, <2>2 DEF PipelineInv, Carried
  <2>3. QED
    BY <2>1, <2>2
<1>3. /\ \A c \in Builders, g \in Signals : \A q : InBuilder(c, g, q)' <=> InBuilder(c, g, q)
      /\ \A s \in Sdks, g \in Signals : \A q : InSdk(s, g, q)' <=> InSdk(s, g, q)
      /\ \A f \in Exporters : f \in live' <=> f \in live /\ f # e
      /\ \A f \in Exporters \cup Stages \cup Builders \cup Sdks : f \in unused' <=> f \in unused
      /\ \A q \in Processors : q \in live' <=> q \in live \/ q = p
      /\ \A b \in Stages \cup Builders \cup Sdks : b \in live' <=> b \in live
  <2>1. \A f \in Exporters : f \in live' <=> f \in live /\ f # e
    BY DEF PipelineInv, Carried
  <2>2. QED
    BY <2>1, SameLists
<1>4. \A q \in Processors : inner[q] # e
  BY <1>1 DEF PipelineInv, Carried
<1>5. Carried'
  BY <1>1, <1>2, <1>3, <1>4 DEF PipelineInv, Carried
<1>6. /\ \A c \in Builders, g \in Signals : ~InBuilder(c, g, p)
      /\ \A s \in Sdks, g \in Signals : ~InSdk(s, g, p)
  BY <1>1 DEF PipelineInv, Listed
<1>7. Listed'
  BY <1>1, <1>3, <1>6 DEF PipelineInv, Listed
<1>8. /\ Placed(p)' /\ \A q \in Processors \ {p} : Placed(q)' <=> Placed(q)
  BY <1>3 DEF Placed
<1>9. \A f \in Exporters : Owned(f)' <=> Owned(f)
  <2>1. Owned(e) /\ Owned(e)'
    BY <1>1, <1>8 DEF Owned
  <2>2. ASSUME NEW f \in Exporters \ {e} PROVE Owned(f)' <=> Owned(f)
    BY <1>1, <1>2, <1>3, <1>8 DEF Owned
  <2>3. QED
    BY <2>1, <2>2
<1>10. Accounted'
  BY <1>9, KeepAccounts
<1>11. TypeOK'
  <2>1. unused' \subseteq Handles /\ live' \subseteq Handles /\ unused' \cap live' = {}
    BY DEF PipelineInv, TypeOK, Handles
  <2>2. QED
    BY <1>1, <1>2, <2>1 DEF PipelineInv, TypeOK
<1>12. QED
  BY <1>5, <1>7, <1>10, <1>11 DEF PipelineInv

(* The caller destroys a processor. *)
LEMMA ProcessorDestroyStep ==
  ASSUME PipelineInv, NEW p \in Processors, processor_destroy(p)
  PROVE  PipelineInv'
<1> USE PipelineAssumption DEF PipelineAssumption
<1>1. /\ p \in live /\ live' = live \ {p} /\ Drop({inner[p]})
      /\ UNCHANGED <<unused, staged, inner, added, installed, providers>>
  BY DEF processor_destroy, Take
<1>2. /\ \A c \in Builders, g \in Signals : \A q : InBuilder(c, g, q)' <=> InBuilder(c, g, q)
      /\ \A s \in Sdks, g \in Signals : \A q : InSdk(s, g, q)' <=> InSdk(s, g, q)
      /\ \A q \in Exporters \cup Stages \cup Builders \cup Sdks : q \in live' <=> q \in live
      /\ \A q \in Processors : q \in live' <=> q \in live /\ q # p
  BY <1>1, SameLists
<1>3. /\ inner[p] \in Exporters
      /\ \A c \in Builders, g \in Signals : ~InBuilder(c, g, p)
      /\ \A s \in Sdks, g \in Signals : ~InSdk(s, g, p)
  BY <1>1 DEF PipelineInv, Listed
<1>4. Carried'
  BY <1>1, <1>2 DEF PipelineInv, Carried
<1>5. Listed'
  BY <1>1, <1>2 DEF PipelineInv, Listed
<1>6. Placed(p) /\ ~Placed(p)' /\ \A q \in Processors \ {p} : Placed(q)' <=> Placed(q)
  <2>1. Placed(p) /\ ~Placed(p)'
    BY <1>1, <1>2, <1>3 DEF Placed
  <2>2. \A q \in Processors \ {p} : Placed(q)' <=> Placed(q)
    BY <1>2 DEF Placed
  <2>3. QED
    BY <2>1, <2>2
<1>7. \A f \in Exporters :
        IF f \in {inner[p]} THEN Owned(f) /\ ~Owned(f)' ELSE Owned(f)' <=> Owned(f)
  <2>1. ASSUME NEW f \in Exporters, f = inner[p] PROVE Owned(f) /\ ~Owned(f)'
    BY <1>1, <1>3, <1>6, <2>1 DEF Owned, PipelineInv, Carried
  <2>2. ASSUME NEW f \in Exporters, f # inner[p] PROVE Owned(f)' <=> Owned(f)
    BY <1>1, <1>2, <1>6, <2>2 DEF Owned
  <2>3. QED
    BY <2>1, <2>2
<1>8. Accounted' /\ released' \in [Exporters -> Nat]
  BY <1>1, <1>7, DropAccounts
<1>9. TypeOK'
  BY <1>1, <1>8 DEF PipelineInv, TypeOK
<1>10. QED
  BY <1>4, <1>5, <1>8, <1>9 DEF PipelineInv

(* A processor moves from the caller into a builder's list. *)
LEMMA AddProcessorStep ==
  ASSUME PipelineInv, NEW p \in Processors, NEW c \in Builders, add_processor(c, p)
  PROVE  PipelineInv'
<1> SUFFICES ASSUME NEW g, g = SignalOfProcessor(p) PROVE PipelineInv'
  OBVIOUS
<1> USE PipelineAssumption DEF PipelineAssumption
<1>1. /\ c \in live /\ p \in live /\ live' = live \ {p}
      /\ added' = [added EXCEPT ![c][g] = Append(@, p)]
      /\ UNCHANGED <<unused, staged, inner, installed, providers, released>>
  BY DEF add_processor, Take
<1>2. /\ inner[p] \in Exporters
      /\ \A d \in Builders, h \in Signals : ~InBuilder(d, h, p)
      /\ \A s \in Sdks, h \in Signals : ~InSdk(s, h, p)
  BY <1>1 DEF PipelineInv, Listed
<1>3. g \in Signals
  BY <1>2 DEF SignalOfProcessor
<1>4. added[c][g] \in Seq(Processors) /\ added[c] \in [Signals -> Seq(Processors)]
  BY <1>3 DEF PipelineInv, TypeOK
<1>5. /\ Append(added[c][g], p) \in Seq(Processors)
      /\ ToSet(Append(added[c][g], p)) = ToSet(added[c][g]) \cup {p}
  BY <1>4, ToSetOfAppend
<1>6. /\ added' \in [Builders -> [Signals -> Seq(Processors)]]
      /\ added'[c][g] = Append(added[c][g], p)
      /\ \A d \in Builders, h \in Signals : d # c \/ h # g => added'[d][h] = added[d][h]
  BY <1>1, <1>3, <1>4, <1>5 DEF PipelineInv, TypeOK
<1>7. /\ \A d \in Builders, h \in Signals, q \in Processors :
           InBuilder(d, h, q)' <=> InBuilder(d, h, q) \/ (d = c /\ h = g /\ q = p)
      /\ \A s \in Sdks, h \in Signals, q \in Processors : InSdk(s, h, q)' <=> InSdk(s, h, q)
      /\ \A q \in Exporters \cup Stages \cup Builders \cup Sdks : q \in live' <=> q \in live
      /\ \A q \in Processors : q \in live' <=> q \in live /\ q # p
  BY <1>1, <1>5, <1>6, SameLists DEF InBuilder
<1>8. Carried'
  BY <1>1, <1>7 DEF PipelineInv, Carried
<1>9. Listed'
  BY <1>1, <1>2, <1>7 DEF PipelineInv, Listed
<1>10. \A q \in Processors : Placed(q)' <=> Placed(q)
  BY <1>1, <1>3, <1>7 DEF Placed
<1>11. \A f \in Exporters : Owned(f)' <=> Owned(f)
  BY <1>1, <1>7, <1>10 DEF Owned
<1>12. Accounted'
  BY <1>1, <1>11, KeepAccounts
<1>13. TypeOK'
  BY <1>1, <1>6 DEF PipelineInv, TypeOK
<1>14. QED
  BY <1>8, <1>9, <1>12, <1>13 DEF PipelineInv

(* The SDK takes the lists of its builder. *)
LEMMA SdkBuildStep ==
  ASSUME PipelineInv, NEW c \in Builders, NEW s \in Sdks, sdk_build(c, s)
  PROVE  PipelineInv'
<1> USE PipelineAssumption DEF PipelineAssumption
<1>1. /\ c \in live /\ s \in unused /\ s \notin live
      /\ unused' = unused \ {s} /\ live' = live \cup {s}
      /\ installed' = [installed EXCEPT ![s] = added[c]]
      /\ added' = [added EXCEPT ![c] = Empty]
      /\ UNCHANGED <<staged, inner, providers, released>>
  BY DEF sdk_build, Create, PipelineInv, TypeOK
<1>2. /\ added' \in [Builders -> [Signals -> Seq(Processors)]]
      /\ installed' \in [Sdks -> [Signals -> Seq(Processors)]]
      /\ added'[c] = Empty /\ \A d \in Builders \ {c} : added'[d] = added[d]
      /\ installed'[s] = added[c] /\ \A t \in Sdks \ {s} : installed'[t] = installed[t]
  BY <1>1, EmptyLists DEF PipelineInv, TypeOK
<1>3. \A g \in Signals, p \in Processors : ~InSdk(s, g, p)
  BY <1>1 DEF PipelineInv, Listed
<1>4. \A d \in Builders, g \in Signals, p \in Processors :
        InBuilder(d, g, p)' <=> InBuilder(d, g, p) /\ d # c
  BY <1>2, EmptyLists DEF InBuilder
<1>5. \A t \in Sdks, g \in Signals, p \in Processors :
        InSdk(t, g, p)' <=> InSdk(t, g, p) \/ (t = s /\ InBuilder(c, g, p))
  BY <1>2, <1>3 DEF InSdk, InBuilder
<1>6. /\ \A q \in Exporters \cup Stages \cup Processors \cup Builders : q \in live' <=> q \in live
      /\ \A q \in Exporters \cup Stages \cup Processors \cup Builders : q \in unused' <=> q \in unused
  BY <1>1
<1>7. Carried'
  BY <1>1, <1>6 DEF PipelineInv, Carried
<1>8. Listed'
  <2>1. Listed
    BY DEF PipelineInv
  <2>2. /\ \A d, b \in Builders, g, h \in Signals, p \in Processors :
             InBuilder(d, g, p)' /\ InBuilder(b, h, p)' => d = b /\ g = h
        /\ \A r, t \in Sdks, g, h \in Signals, p \in Processors :
             InSdk(r, g, p)' /\ InSdk(t, h, p)' => r = t /\ g = h
        /\ \A d \in Builders, t \in Sdks, g, h \in Signals, p \in Processors :
             ~(InBuilder(d, g, p)' /\ InSdk(t, h, p)')
    BY <1>4, <1>5, <2>1 DEF Listed
  <2>3. /\ \A p \in Processors : p \in live' => inner'[p] \in Exporters
        /\ \A d \in Builders, g \in Signals, p \in Processors : InBuilder(d, g, p)' =>
             d \in live' /\ p \notin live' /\ inner'[p] \in Exporters
        /\ \A t \in Sdks, g \in Signals, p \in Processors : InSdk(t, g, p)' =>
             (t \in live' \/ <<t, g>> \in providers') /\ p \notin live' /\ inner'[p] \in Exporters
        /\ \A t \in Sdks, g \in Signals : <<t, g>> \in providers' => t \notin unused'
    BY <1>1, <1>4, <1>5, <1>6, <2>1 DEF Listed
  <2>4. QED
    BY <2>2, <2>3 DEF Listed
<1>9. \A p \in Processors : Placed(p)' <=> Placed(p)
  BY <1>4, <1>5, <1>6 DEF Placed
<1>10. \A f \in Exporters : Owned(f)' <=> Owned(f)
  BY <1>1, <1>6, <1>9 DEF Owned
<1>11. Accounted'
  BY <1>1, <1>10, KeepAccounts
<1>12. TypeOK'
  <2>1. unused' \subseteq Handles /\ live' \subseteq Handles /\ unused' \cap live' = {}
    BY <1>1 DEF PipelineInv, TypeOK, Handles
  <2>2. QED
    BY <1>1, <1>2, <2>1 DEF PipelineInv, TypeOK
<1>13. QED
  BY <1>7, <1>8, <1>11, <1>12 DEF PipelineInv

(* Lists are dropped with the exporters inside their processors: of the builders those in B, of
   the SDKs those in S. *)
DropLists(B, S, es) ==
  /\ B \in SUBSET (Builders \X Signals) /\ S \in SUBSET (Sdks \X Signals) /\ Drop(es)
  /\ \A e \in Exporters : e \in es <=>
       \E p \in Processors :
         /\ inner[p] = e
         /\ \/ \E c \in Builders, g \in Signals : <<c, g>> \in B /\ InBuilder(c, g, p)
            \/ \E s \in Sdks, g \in Signals : <<s, g>> \in S /\ InSdk(s, g, p)
  /\ \A c \in Builders, g \in Signals, p \in Processors :
       InBuilder(c, g, p)' <=> InBuilder(c, g, p) /\ <<c, g>> \notin B
  /\ \A s \in Sdks, g \in Signals, p \in Processors :
       InSdk(s, g, p)' <=> InSdk(s, g, p) /\ <<s, g>> \notin S
  /\ \A c \in Builders, g \in Signals : c \in live /\ c \notin live' => <<c, g>> \in B
  /\ \A s \in Sdks, g \in Signals :
       /\ s \in live \/ <<s, g>> \in providers
       /\ s \notin live' /\ <<s, g>> \notin providers'
       => <<s, g>> \in S
  /\ \A s \in Sdks, g \in Signals : <<s, g>> \in providers' => <<s, g>> \in providers
  /\ \A q \in Exporters \cup Stages \cup Processors : q \in live' <=> q \in live
  /\ live' \subseteq live /\ UNCHANGED <<unused, staged, inner>>

(* Exporters are dropped exactly with the lists they are in. *)
LEMMA DroppedLists ==
  ASSUME PipelineInv, NEW B, NEW S, NEW es, DropLists(B, S, es)
  PROVE  Carried' /\ Listed' /\ Accounted' /\ released' \in [Exporters -> Nat]
<1> USE DEF DropLists
<1>1. /\ \A d \in Builders, g \in Signals, p \in Processors : InBuilder(d, g, p)' => InBuilder(d, g, p)
      /\ \A t \in Sdks, g \in Signals, p \in Processors : InSdk(t, g, p)' => InSdk(t, g, p)
  OBVIOUS
<1>2. /\ \A d, b \in Builders, g, h \in Signals, p \in Processors :
           InBuilder(d, g, p) /\ InBuilder(b, h, p) => d = b /\ g = h
      /\ \A r, t \in Sdks, g, h \in Signals, p \in Processors :
           InSdk(r, g, p) /\ InSdk(t, h, p) => r = t /\ g = h
      /\ \A d \in Builders, t \in Sdks, g, h \in Signals, p \in Processors :
           ~(InBuilder(d, g, p) /\ InSdk(t, h, p))
  BY Zenon DEF PipelineInv, Listed
<1>3. Carried'
  BY DEF PipelineInv, Carried
<1>4. Listed'
  <2>1. Listed
    BY DEF PipelineInv
  <2>2. /\ \A d, b \in Builders, g, h \in Signals, p \in Processors :
             InBuilder(d, g, p)' /\ InBuilder(b, h, p)' => d = b /\ g = h
        /\ \A r, t \in Sdks, g, h \in Signals, p \in Processors :
             InSdk(r, g, p)' /\ InSdk(t, h, p)' => r = t /\ g = h
        /\ \A d \in Builders, t \in Sdks, g, h \in Signals, p \in Processors :
             ~(InBuilder(d, g, p)' /\ InSdk(t, h, p)')
    <3>1. ASSUME NEW d \in Builders, NEW b \in Builders, NEW g \in Signals, NEW h \in Signals,
                 NEW p \in Processors, InBuilder(d, g, p)', InBuilder(b, h, p)'
          PROVE  d = b /\ g = h
      BY <1>1, <1>2, <3>1
    <3>2. ASSUME NEW r \in Sdks, NEW t \in Sdks, NEW g \in Signals, NEW h \in Signals,
                 NEW p \in Processors, InSdk(r, g, p)', InSdk(t, h, p)'
          PROVE  r = t /\ g = h
      BY <1>1, <1>2, <3>2
    <3>3. ASSUME NEW d \in Builders, NEW t \in Sdks, NEW g \in Signals, NEW h \in Signals,
                 NEW p \in Processors, InBuilder(d, g, p)', InSdk(t, h, p)'
          PROVE  FALSE
      BY <1>1, <1>2, <3>3
    <3>4. QED
      BY <3>1, <3>2, <3>3
  <2>3. \A d \in Builders, g \in Signals, p \in Processors : InBuilder(d, g, p)' =>
          d \in live' /\ p \notin live' /\ inner'[p] \in Exporters
    BY <2>1 DEF Listed
  <2>4. \A t \in Sdks, g \in Signals, p \in Processors : InSdk(t, g, p)' =>
          (t \in live' \/ <<t, g>> \in providers') /\ p \notin live' /\ inner'[p] \in Exporters
    <3>1. ASSUME NEW t \in Sdks, NEW g \in Signals, NEW p \in Processors, InSdk(t, g, p)'
          PROVE  t \in live' \/ <<t, g>> \in providers'
      BY <2>1, <3>1 DEF Listed
    <3>2. ASSUME NEW t \in Sdks, NEW g \in Signals, NEW p \in Processors, InSdk(t, g, p)'
          PROVE  p \notin live' /\ inner'[p] \in Exporters
      BY <2>1, <3>2 DEF Listed
    <3>3. QED
      BY <3>1, <3>2
  <2>5. /\ \A p \in Processors : p \in live' => inner'[p] \in Exporters
        /\ \A t \in Sdks, g \in Signals : <<t, g>> \in providers' => t \notin unused'
    BY <2>1 DEF Listed
  <2>6. QED
    BY <2>2, <2>3, <2>4, <2>5 DEF Listed
<1> DEFINE fallen(p) == \/ \E c \in Builders, g \in Signals : <<c, g>> \in B /\ InBuilder(c, g, p)
                      \/ \E s \in Sdks, g \in Signals : <<s, g>> \in S /\ InSdk(s, g, p)
<1>5. ASSUME NEW p \in Processors PROVE Placed(p)' <=> Placed(p) /\ ~fallen(p)
  <2>1. Listed
    BY DEF PipelineInv
  <2>2. Placed(p)' => Placed(p)
    BY DEF Placed
  <2>3. Placed(p) /\ ~fallen(p) => Placed(p)'
    BY DEF Placed
  <2>4. ASSUME NEW c \in Builders, NEW g \in Signals, <<c, g>> \in B, InBuilder(c, g, p)
        PROVE  ~Placed(p)'
    <3>1. p \notin live'
      BY <2>1, <2>4 DEF Listed
    <3>2. ASSUME NEW d \in Builders, NEW h \in Signals PROVE ~InBuilder(d, h, p)'
      BY <1>1, <1>2, <2>4
    <3>3. ASSUME NEW s \in Sdks, NEW h \in Signals PROVE ~InSdk(s, h, p)'
      BY <1>1, <1>2, <2>4
    <3>4. QED
      BY <3>1, <3>2, <3>3 DEF Placed
  <2>5. ASSUME NEW t \in Sdks, NEW g \in Signals, <<t, g>> \in S, InSdk(t, g, p)
        PROVE  ~Placed(p)'
    <3>1. p \notin live'
      BY <2>1, <2>5 DEF Listed
    <3>2. ASSUME NEW d \in Builders, NEW h \in Signals PROVE ~InBuilder(d, h, p)'
      BY <1>1, <1>2, <2>5
    <3>3. ASSUME NEW s \in Sdks, NEW h \in Signals PROVE ~InSdk(s, h, p)'
      BY <1>1, <1>2, <2>5
    <3>4. QED
      BY <3>1, <3>2, <3>3 DEF Placed
  <2>6. QED
    BY <2>2, <2>3, <2>4, <2>5
<1>6. \A p \in Processors : fallen(p) => Placed(p) /\ inner[p] \in Exporters
  BY DEF PipelineInv, Listed, Placed
<1>7. \A e \in Exporters : e \in es <=> \E p \in Processors : inner[p] = e /\ fallen(p)
  OBVIOUS
<1> HIDE DEF fallen
<1>8. \A e \in Exporters : IF e \in es THEN Owned(e) /\ ~Owned(e)' ELSE Owned(e)' <=> Owned(e)
  <2>1. ASSUME NEW e \in Exporters, NEW p \in Processors, inner[p] = e, fallen(p)
        PROVE  Owned(e) /\ ~Owned(e)'
    BY <1>5, <1>6, <2>1 DEF Owned, PipelineInv, Carried
  <2>2. ASSUME NEW e \in Exporters, \A p \in Processors : inner[p] = e => ~fallen(p)
        PROVE  Owned(e)' <=> Owned(e)
    BY <1>5, <2>2 DEF Owned
  <2>3. QED
    BY <1>7, <2>1, <2>2
<1>9. QED
  BY <1>3, <1>4, <1>8, DropAccounts

(* A builder goes with what no SDK has taken. *)
LEMMA BuilderDestroyStep ==
  ASSUME PipelineInv, NEW c \in Builders, builder_destroy(c)
  PROVE  PipelineInv'
<1> USE PipelineAssumption DEF PipelineAssumption
<1>1. /\ c \in live /\ live' = live \ {c} /\ Drop(AllInside(added[c]))
      /\ added' = [added EXCEPT ![c] = Empty]
      /\ UNCHANGED <<unused, staged, inner, installed, providers>>
  BY DEF builder_destroy, Take
<1>2. /\ added' \in [Builders -> [Signals -> Seq(Processors)]]
      /\ added'[c] = Empty /\ \A d \in Builders \ {c} : added'[d] = added[d]
  BY <1>1, EmptyLists DEF PipelineInv, TypeOK
<1> SUFFICES ASSUME NEW B, B = {c} \X Signals, NEW S, S = {},
                    NEW es, es = AllInside(added[c])
             PROVE  PipelineInv'
  OBVIOUS
<1>3. \A d \in Builders, g \in Signals : <<d, g>> \in B <=> d = c
  OBVIOUS
<1>4. \A d \in Builders, g \in Signals, p \in Processors :
        InBuilder(d, g, p)' <=> InBuilder(d, g, p) /\ <<d, g>> \notin B
  BY <1>2, <1>3, EmptyLists DEF InBuilder
<1>5. \A s \in Sdks, g \in Signals, p \in Processors :
        InSdk(s, g, p)' <=> InSdk(s, g, p) /\ <<s, g>> \notin S
  BY <1>1, SameLists
<1>6. \A e \in Exporters : e \in es <=>
        \E p \in Processors : /\ inner[p] = e
                              /\ \/ \E d \in Builders, g \in Signals :
                                      <<d, g>> \in B /\ InBuilder(d, g, p)
                                 \/ \E s \in Sdks, g \in Signals :
                                      <<s, g>> \in S /\ InSdk(s, g, p)
  <2>1. \A e \in Exporters : e \in es <=>
          \E g \in Signals, p \in Processors : InBuilder(c, g, p) /\ inner[p] = e
    BY InsideLists
  <2>2. ASSUME NEW p \in Processors
        PROVE  (\E d \in Builders, g \in Signals : <<d, g>> \in B /\ InBuilder(d, g, p))
                 <=> \E g \in Signals : InBuilder(c, g, p)
    <3>1. ASSUME NEW d \in Builders, NEW g \in Signals, <<d, g>> \in B, InBuilder(d, g, p)
          PROVE  InBuilder(c, g, p)
      BY <1>3, <3>1
    <3>2. ASSUME NEW g \in Signals, InBuilder(c, g, p)
          PROVE  <<c, g>> \in B
      BY <1>3
    <3>3. QED
      BY <3>1, <3>2
  <2>3. \A t \in Sdks, g \in Signals : <<t, g>> \notin S
    OBVIOUS
  <2>4. QED
    BY <2>1, <2>2, <2>3
<1>7. /\ \A d \in Builders, g \in Signals : d \in live /\ d \notin live' => <<d, g>> \in B
      /\ \A q \in Exporters \cup Stages \cup Processors : q \in live' <=> q \in live
      /\ \A s \in Sdks, g \in Signals :
           /\ s \in live \/ <<s, g>> \in providers
           /\ s \notin live' /\ <<s, g>> \notin providers'
           => <<s, g>> \in S
      /\ live' \subseteq live
      /\ \A s \in Sdks, g \in Signals : <<s, g>> \in providers' => <<s, g>> \in providers
      /\ Drop(es) /\ UNCHANGED <<unused, staged, inner>>
  BY <1>1, <1>3
<1>8. Carried' /\ Listed' /\ Accounted' /\ released' \in [Exporters -> Nat]
  <2>1. B \in SUBSET (Builders \X Signals) /\ S \in SUBSET (Sdks \X Signals)
    OBVIOUS
  <2>2. DropLists(B, S, es)
    BY <1>4, <1>5, <1>6, <1>7, <2>1, Zenon DEF DropLists
  <2>3. QED
    BY <2>2, DroppedLists
<1>9. TypeOK'
  BY <1>1, <1>2, <1>8 DEF PipelineInv, TypeOK
<1>10. QED
  BY <1>8, <1>9 DEF PipelineInv

(* An SDK goes with the providers nobody else has. *)
LEMMA SdkDestroyStep ==
  ASSUME PipelineInv, NEW s \in Sdks, sdk_destroy(s)
  PROVE  PipelineInv'
<1> USE PipelineAssumption DEF PipelineAssumption
<1> SUFFICES ASSUME NEW G, G = Signals \ Held(s), NEW B, B = {}, NEW S, S = {s} \X G,
                    NEW es, es = UNION {Inside(installed[s], g) : g \in G}
             PROVE  PipelineInv'
  OBVIOUS
<1>1. /\ s \in live /\ live' = live \ {s}
      /\ Drop(UNION {Inside(installed[s], g) : g \in G})
      /\ installed' = [installed EXCEPT ![s] =
                         [g \in Signals |-> IF g \in Held(s) THEN installed[s][g] ELSE <<>>]]
      /\ UNCHANGED <<unused, staged, inner, added, providers>>
  BY DEF sdk_destroy, Take
<1>2. \A g \in Signals : g \in G <=> <<s, g>> \notin providers
  BY DEF Held
<1>3. installed \in [Sdks -> [Signals -> Seq(Processors)]]
  BY DEF PipelineInv, TypeOK
<1>4. /\ installed' \in [Sdks -> [Signals -> Seq(Processors)]]
      /\ \A t \in Sdks \ {s} : installed'[t] = installed[t]
      /\ \A g \in Signals : installed'[s][g] = IF g \in Held(s) THEN installed[s][g] ELSE <<>>
  <2>1. [g \in Signals |-> IF g \in Held(s) THEN installed[s][g] ELSE <<>>]
          \in [Signals -> Seq(Processors)]
    BY <1>3
  <2>2. QED
    BY <1>1, <1>3, <2>1
<1>5. \A t \in Sdks, g \in Signals : <<t, g>> \in S <=> t = s /\ g \in G
  OBVIOUS
<1>6. \A c \in Builders, g \in Signals, p \in Processors :
        InBuilder(c, g, p)' <=> InBuilder(c, g, p) /\ <<c, g>> \notin B
  BY <1>1, SameLists
<1>7. \A t \in Sdks, g \in Signals, p \in Processors :
        InSdk(t, g, p)' <=> InSdk(t, g, p) /\ <<t, g>> \notin S
  <2>1. \A g \in Signals : g \in G <=> g \notin Held(s)
    OBVIOUS
  <2>2. \A p : p \notin ToSet(<<>>)
    BY DEF ToSet
  <2>3. QED
    BY <1>4, <1>5, <2>1, <2>2 DEF InSdk
<1>8. \A e \in Exporters : e \in es <=>
        \E p \in Processors : /\ inner[p] = e
                              /\ \/ \E c \in Builders, g \in Signals :
                                      <<c, g>> \in B /\ InBuilder(c, g, p)
                                 \/ \E t \in Sdks, g \in Signals :
                                      <<t, g>> \in S /\ InSdk(t, g, p)
  <2>1. \A e \in Exporters : e \in es <=>
          \E g \in G, p \in Processors : InSdk(s, g, p) /\ inner[p] = e
    BY InsideLists
  <2>2. ASSUME NEW p \in Processors
        PROVE  (\E t \in Sdks, g \in Signals : <<t, g>> \in S /\ InSdk(t, g, p))
                 <=> \E g \in G : InSdk(s, g, p)
    <3>1. ASSUME NEW t \in Sdks, NEW g \in Signals, <<t, g>> \in S, InSdk(t, g, p)
          PROVE  InSdk(s, g, p) /\ g \in G
      BY <1>5, <3>1
    <3>2. ASSUME NEW g \in G, InSdk(s, g, p)
          PROVE  <<s, g>> \in S /\ g \in Signals
      OBVIOUS
    <3>3. QED
      BY <3>1, <3>2
  <2>3. \A c \in Builders, g \in Signals : <<c, g>> \notin B
    OBVIOUS
  <2>4. QED
    BY <2>1, <2>2, <2>3
<1>9. /\ \A t \in Sdks, g \in Signals :
           /\ t \in live \/ <<t, g>> \in providers
           /\ t \notin live' /\ <<t, g>> \notin providers'
           => <<t, g>> \in S
      /\ \A q \in Exporters \cup Stages \cup Processors : q \in live' <=> q \in live
      /\ \A c \in Builders, g \in Signals : c \in live /\ c \notin live' => <<c, g>> \in B
      /\ live' \subseteq live
      /\ \A t \in Sdks, g \in Signals : <<t, g>> \in providers' => <<t, g>> \in providers
      /\ Drop(es) /\ UNCHANGED <<unused, staged, inner>>
  BY <1>1, <1>2, <1>5
<1>10. Carried' /\ Listed' /\ Accounted' /\ released' \in [Exporters -> Nat]
  <2>1. B \in SUBSET (Builders \X Signals) /\ S \in SUBSET (Sdks \X Signals)
    OBVIOUS
  <2>2. DropLists(B, S, es)
    BY <1>6, <1>7, <1>8, <1>9, <2>1, Zenon DEF DropLists
  <2>3. QED
    BY <2>2, DroppedLists
<1>11. TypeOK'
  BY <1>1, <1>4, <1>10 DEF PipelineInv, TypeOK
<1>12. QED
  BY <1>10, <1>11 DEF PipelineInv

(* A handle of a provider is dropped; it may be the last. *)
LEMMA ProviderDestroyStep ==
  ASSUME PipelineInv, NEW s \in Sdks, NEW g \in Signals, provider_destroy(s, g)
  PROVE  PipelineInv'
<1> USE PipelineAssumption DEF PipelineAssumption
<1>1. /\ <<s, g>> \in providers /\ providers' = providers \ {<<s, g>>}
      /\ UNCHANGED <<unused, live, staged, inner, added>>
  BY DEF provider_destroy, handleVars
<1>2. CASE s \in live
  <2>1. UNCHANGED <<installed, released>>
    BY <1>2 DEF provider_destroy
  <2>2. /\ \A c \in Builders, h \in Signals : \A p : InBuilder(c, h, p)' <=> InBuilder(c, h, p)
        /\ \A t \in Sdks, h \in Signals : \A p : InSdk(t, h, p)' <=> InSdk(t, h, p)
    BY <1>1, <2>1, SameLists
  <2>3. Carried'
    BY <1>1 DEF PipelineInv, Carried
  <2>4. \A t \in Sdks, h \in Signals :
          t \in live \/ <<t, h>> \in providers => t \in live' \/ <<t, h>> \in providers'
    BY <1>1, <1>2
  <2>5. Listed'
    BY <1>1, <2>2, <2>4 DEF PipelineInv, Listed
  <2>6. \A e \in Exporters : Owned(e)' <=> Owned(e)
    BY <1>1, <2>2 DEF Owned, Placed
  <2>7. TypeOK'
    BY <1>1, <2>1 DEF PipelineInv, TypeOK
  <2>8. QED
    BY <2>1, <2>3, <2>5, <2>6, <2>7, KeepAccounts DEF PipelineInv
<1>3. CASE s \notin live
  <2> SUFFICES ASSUME NEW B, B = {}, NEW S, S = {<<s, g>>},
                      NEW es, es = Inside(installed[s], g)
               PROVE  PipelineInv'
    OBVIOUS
  <2>1. Drop(es) /\ installed' = [installed EXCEPT ![s][g] = <<>>]
    BY <1>3 DEF provider_destroy
  <2>2. /\ installed' \in [Sdks -> [Signals -> Seq(Processors)]]
        /\ installed'[s][g] = <<>>
        /\ \A t \in Sdks, h \in Signals : t # s \/ h # g => installed'[t][h] = installed[t][h]
    BY <2>1 DEF PipelineInv, TypeOK
  <2>3. /\ \A t \in Sdks, h \in Signals : <<t, h>> \in S <=> t = s /\ h = g
        /\ \A c \in Builders, h \in Signals : <<c, h>> \notin B
    OBVIOUS
  <2>4. \A c \in Builders, h \in Signals, p \in Processors :
          InBuilder(c, h, p)' <=> InBuilder(c, h, p) /\ <<c, h>> \notin B
    BY <1>1, <2>3, SameLists
  <2>5. \A t \in Sdks, h \in Signals, p \in Processors :
          InSdk(t, h, p)' <=> InSdk(t, h, p) /\ <<t, h>> \notin S
    <3>1. \A p : p \notin ToSet(<<>>)
      BY DEF ToSet
    <3>2. QED
      BY <2>2, <2>3, <3>1 DEF InSdk
  <2>6. \A e \in Exporters : e \in es <=>
          \E p \in Processors :
            /\ inner[p] = e
            /\ \/ \E c \in Builders, h \in Signals : <<c, h>> \in B /\ InBuilder(c, h, p)
               \/ \E t \in Sdks, h \in Signals : <<t, h>> \in S /\ InSdk(t, h, p)
    <3>1. \A e \in Exporters : e \in es <=> \E p \in Processors : InSdk(s, g, p) /\ inner[p] = e
      BY InsideLists
    <3>2. ASSUME NEW p \in Processors
          PROVE  (\E t \in Sdks, h \in Signals : <<t, h>> \in S /\ InSdk(t, h, p))
                   <=> InSdk(s, g, p)
      <4>1. ASSUME NEW t \in Sdks, NEW h \in Signals, <<t, h>> \in S, InSdk(t, h, p)
            PROVE  InSdk(s, g, p)
        BY <2>3, <4>1
      <4>2. <<s, g>> \in S
        OBVIOUS
      <4>3. QED
        BY <4>1, <4>2
    <3>3. QED
      BY <2>3, <3>1, <3>2
  <2>7. /\ \A c \in Builders, h \in Signals : c \in live /\ c \notin live' => <<c, h>> \in B
        /\ \A t \in Sdks, h \in Signals :
             /\ t \in live \/ <<t, h>> \in providers
             /\ t \notin live' /\ <<t, h>> \notin providers'
             => <<t, h>> \in S
        /\ \A t \in Sdks, h \in Signals : <<t, h>> \in providers' => <<t, h>> \in providers
        /\ \A q \in Exporters \cup Stages \cup Processors : q \in live' <=> q \in live
        /\ live' \subseteq live /\ UNCHANGED <<unused, staged, inner>>
    BY <1>1, <2>3
  <2>8. B \in SUBSET (Builders \X Signals) /\ S \in SUBSET (Sdks \X Signals)
    OBVIOUS
  <2>9. DropLists(B, S, es)
    BY <2>1, <2>4, <2>5, <2>6, <2>7, <2>8, Zenon DEF DropLists
  <2>10. Carried' /\ Listed' /\ Accounted' /\ released' \in [Exporters -> Nat]
    BY <2>9, DroppedLists
  <2>11. TypeOK'
    BY <1>1, <2>2, <2>10 DEF PipelineInv, TypeOK
  <2>12. QED
    BY <2>10, <2>11 DEF PipelineInv
<1>4. QED
  BY <1>2, <1>3

(* A provider of a live SDK gets a handle. *)
LEMMA GetProviderStep ==
  ASSUME PipelineInv, NEW s \in Sdks, NEW g \in Signals, get_provider(s, g)
  PROVE  PipelineInv'
<1>1. /\ s \in live /\ s \notin unused /\ providers' = providers \cup {<<s, g>>}
      /\ UNCHANGED <<unused, live, staged, inner, added, installed, released>>
  BY DEF get_provider, handleVars, PipelineInv, TypeOK
<1>2. /\ \A c \in Builders, h \in Signals : \A p : InBuilder(c, h, p)' <=> InBuilder(c, h, p)
      /\ \A t \in Sdks, h \in Signals : \A p : InSdk(t, h, p)' <=> InSdk(t, h, p)
  BY <1>1, SameLists
<1>3. Carried'
  BY <1>1 DEF PipelineInv, Carried
<1>4. /\ \A t \in Sdks, h \in Signals : <<t, h>> \in providers => <<t, h>> \in providers'
      /\ \A t \in Sdks, h \in Signals : <<t, h>> \in providers' => t \notin unused'
  BY <1>1 DEF PipelineInv, Listed
<1>5. Listed'
  BY <1>1, <1>2, <1>4 DEF PipelineInv, Listed
<1>6. \A e \in Exporters : Owned(e)' <=> Owned(e)
  BY <1>1, <1>2 DEF Owned, Placed
<1>7. TypeOK'
  BY <1>1 DEF PipelineInv, TypeOK
<1>8. QED
  BY <1>1, <1>3, <1>5, <1>6, <1>7, KeepAccounts DEF PipelineInv

(* The sampler has nothing to do with exporters. *)
LEMMA NothingMovesStep ==
  ASSUME PipelineInv,
         UNCHANGED <<unused, live, staged, inner, added, installed, providers, released>>
  PROVE  PipelineInv'
<1>1. TypeOK'
  BY DEF PipelineInv, TypeOK
<1>2. Carried'
  BY DEF PipelineInv, Carried
<1>3. /\ \A c \in Builders, h \in Signals : \A p : InBuilder(c, h, p)' <=> InBuilder(c, h, p)
      /\ \A t \in Sdks, h \in Signals : \A p : InSdk(t, h, p)' <=> InSdk(t, h, p)
  BY SameLists
<1>4. Listed'
  BY <1>3 DEF PipelineInv, Listed
<1>5. \A e \in Exporters : Owned(e)' <=> Owned(e)
  BY <1>3 DEF Owned, Placed
<1>6. QED
  BY <1>1, <1>2, <1>4, <1>5, KeepAccounts DEF PipelineInv

(* Every step keeps the invariant. *)
LEMMA PipelineStepInv ==
  ASSUME PipelineInv, [Next]_vars
  PROVE  PipelineInv'
<1>1. ASSUME NEW new_h \in Handles, new(new_h) PROVE PipelineInv'
  BY <1>1, NewStep
<1>2. ASSUME NEW e \in Exporters, ExporterStep(e) PROVE PipelineInv'
  <2>1. CASE exporter_destroy(e)
    BY <2>1, ExporterDestroyStep
  <2>2. ASSUME NEW a \in Stages, set_exporter(a, e) PROVE PipelineInv'
    BY <2>2, SetExporterStep
  <2>3. ASSUME NEW p \in Processors, wrap_exporter(e, p) PROVE PipelineInv'
    BY <2>3, ProcessorMadeStep DEF wrap_exporter, Exchange
  <2>4. QED
    BY <1>2, <2>1, <2>2, <2>3 DEF ExporterStep
<1>3. ASSUME NEW a \in Stages, StageStep(a) PROVE PipelineInv'
  <2>1. CASE stage_build_fails(a) \/ stage_destroy(a)
    BY <2>1, EmptyStageStep
  <2>2. ASSUME NEW p \in Processors, stage_build(a, p) PROVE PipelineInv'
    <3> SUFFICES ASSUME NEW e, e = staged[a] PROVE PipelineInv'
      OBVIOUS
    <3>1. e \in Exporters
      BY <2>2 DEF stage_build, PipelineInv, TypeOK
    <3>2. /\ p \in unused /\ unused' = unused \ {p} /\ inner' = [inner EXCEPT ![p] = e]
          /\ staged[a] = e /\ staged' = [staged EXCEPT ![a] = NoExporter]
          /\ live' = live \cup {p} /\ UNCHANGED <<added, installed, providers, released>>
      BY <2>2 DEF stage_build, Create
    <3>3. QED
      BY <3>1, <3>2, ProcessorMadeStep
  <2>3. QED
    BY <1>3, <2>1, <2>2 DEF StageStep
<1>4. ASSUME NEW p \in Processors, ProcessorStep(p) PROVE PipelineInv'
  BY <1>4, ProcessorDestroyStep, AddProcessorStep DEF ProcessorStep
<1>5. ASSUME NEW c \in Builders, BuilderStep(c) PROVE PipelineInv'
  <2>1. ASSUME NEW value, set_sampler(c, value) PROVE PipelineInv'
    BY <2>1, NothingMovesStep DEF set_sampler, handleVars
  <2>2. QED
    BY <1>5, <2>1, BuilderDestroyStep, SdkBuildStep DEF BuilderStep
<1>6. ASSUME NEW s \in Sdks, SdkStep(s) PROVE PipelineInv'
  BY <1>6, SdkDestroyStep, GetProviderStep, ProviderDestroyStep DEF SdkStep
<1>7. CASE UNCHANGED vars
  BY <1>7, NothingMovesStep DEF vars, handleVars
<1>8. QED
  BY <1>1, <1>2, <1>3, <1>4, <1>5, <1>6, <1>7 DEF Next

(* What is in one of an exporter's places. *)
LEMMA HomesOf ==
  ASSUME PipelineInv, NEW e \in Exporters
  PROVE  \A home : home \in Homes(e) <=>
           \/ home = <<"caller", e>> /\ e \in live
           \/ \E a \in Stages : home = <<"stage", a>> /\ staged[a] = e
           \/ \E p \in Processors : /\ inner[p] = e
                                    /\ \/ home = <<"processor", p>> /\ p \in live
                                       \/ \E c \in Builders, g \in Signals :
                                            home = <<"builder", c>> /\ InBuilder(c, g, p)
                                       \/ \E s \in Sdks, g \in Signals :
                                            home = <<"sdk", s>> /\ InSdk(s, g, p)
<1>1. \A home : home \in Homes(e) <=>
        \/ home = <<"caller", e>> /\ e \in live
        \/ \E a \in Stages : home = <<"stage", a>> /\ a \in live /\ staged[a] = e
        \/ \E p \in Processors : home = <<"processor", p>> /\ p \in live /\ inner[p] = e
        \/ \E c \in Builders : home = <<"builder", c>> /\ c \in live /\ e \in AllInside(added[c])
        \/ \E s \in Sdks : /\ home = <<"sdk", s>>
                           /\ \E g \in Signals : /\ e \in Inside(installed[s], g)
                                                 /\ s \in live \/ <<s, g>> \in providers
  BY DEF Homes
<1>2. \A a \in Stages : staged[a] = e => a \in live
  BY DEF PipelineInv, Carried
<1>3. \A c \in Builders : c \in live /\ e \in AllInside(added[c]) <=>
        \E g \in Signals, p \in Processors : InBuilder(c, g, p) /\ inner[p] = e
  <2>1. \A c \in Builders, g \in Signals, p \in Processors : InBuilder(c, g, p) => c \in live
    BY DEF PipelineInv, Listed
  <2>2. QED
    BY <2>1, InsideLists
<1>4. \A s \in Sdks, g \in Signals :
        /\ e \in Inside(installed[s], g) <=> \E p \in Processors : InSdk(s, g, p) /\ inner[p] = e
        /\ e \in Inside(installed[s], g) => s \in live \/ <<s, g>> \in providers
  <2>1. \A s \in Sdks, g \in Signals, p \in Processors :
          InSdk(s, g, p) => s \in live \/ <<s, g>> \in providers
    BY DEF PipelineInv, Listed
  <2>2. QED
    BY <2>1, InsideLists
<1>5. ASSUME NEW home
      PROVE  (\E c \in Builders : home = <<"builder", c>> /\ c \in live /\ e \in AllInside(added[c]))
               <=> \E p \in Processors : /\ inner[p] = e
                                         /\ \E c \in Builders, g \in Signals :
                                              home = <<"builder", c>> /\ InBuilder(c, g, p)
  BY <1>3, Zenon
<1>6. ASSUME NEW home
      PROVE  (\E s \in Sdks : /\ home = <<"sdk", s>>
                              /\ \E g \in Signals : /\ e \in Inside(installed[s], g)
                                                    /\ s \in live \/ <<s, g>> \in providers)
               <=> \E p \in Processors : /\ inner[p] = e
                                         /\ \E s \in Sdks, g \in Signals :
                                              home = <<"sdk", s>> /\ InSdk(s, g, p)
  <2> DEFINE held == \E s \in Sdks : /\ home = <<"sdk", s>>
                                   /\ \E g \in Signals : /\ e \in Inside(installed[s], g)
                                                         /\ s \in live \/ <<s, g>> \in providers
             listed == \E p \in Processors : /\ inner[p] = e
                                            /\ \E s \in Sdks, g \in Signals :
                                                 home = <<"sdk", s>> /\ InSdk(s, g, p)
  <2>1. ASSUME NEW s \in Sdks, home = <<"sdk", s>>, NEW g \in Signals, e \in Inside(installed[s], g)
        PROVE  listed
    <3>1. PICK p \in Processors : InSdk(s, g, p) /\ inner[p] = e
      BY <1>4, <2>1
    <3>2. QED
      BY <2>1, <3>1, Zenon
  <2>2. ASSUME NEW p \in Processors, inner[p] = e,
               NEW s \in Sdks, NEW g \in Signals, home = <<"sdk", s>>, InSdk(s, g, p)
        PROVE  held
    <3>1. e \in Inside(installed[s], g) /\ (s \in live \/ <<s, g>> \in providers)
      BY <1>4, <2>2, Zenon
    <3>2. QED
      BY <2>2, <3>1, Zenon
  <2>3. held => listed
    BY <2>1, Zenon
  <2>4. listed => held
    <3> HIDE DEF held
    <3>1. QED
      BY <2>2, Zenon
  <2>5. QED
    BY <2>3, <2>4, Zenon
<1>7. ASSUME NEW home
      PROVE  (\E a \in Stages : home = <<"stage", a>> /\ a \in live /\ staged[a] = e)
               <=> \E a \in Stages : home = <<"stage", a>> /\ staged[a] = e
  BY <1>2, Zenon
<1>8. ASSUME NEW home
      PROVE  (\E p \in Processors : /\ inner[p] = e
                                    /\ \/ home = <<"processor", p>> /\ p \in live
                                       \/ \E c \in Builders, g \in Signals :
                                            home = <<"builder", c>> /\ InBuilder(c, g, p)
                                       \/ \E s \in Sdks, g \in Signals :
                                            home = <<"sdk", s>> /\ InSdk(s, g, p))
               <=> \/ \E p \in Processors : home = <<"processor", p>> /\ p \in live /\ inner[p] = e
                   \/ \E p \in Processors : /\ inner[p] = e
                                            /\ \E c \in Builders, g \in Signals :
                                                 home = <<"builder", c>> /\ InBuilder(c, g, p)
                   \/ \E p \in Processors : /\ inner[p] = e
                                            /\ \E s \in Sdks, g \in Signals :
                                                 home = <<"sdk", s>> /\ InSdk(s, g, p)
  <2> DEFINE alone(p) == home = <<"processor", p>> /\ p \in live
             built(p) == \E c \in Builders, g \in Signals :
                           home = <<"builder", c>> /\ InBuilder(c, g, p)
             served(p) == \E s \in Sdks, g \in Signals :
                            home = <<"sdk", s>> /\ InSdk(s, g, p)
  <2> HIDE DEF alone, built, served
  <2>1. (\E p \in Processors : inner[p] = e /\ (alone(p) \/ built(p) \/ served(p)))
          <=> \/ \E p \in Processors : alone(p) /\ inner[p] = e
              \/ \E p \in Processors : inner[p] = e /\ built(p)
              \/ \E p \in Processors : inner[p] = e /\ served(p)
    BY Zenon
  <2>2. QED
    BY <2>1, Zenon DEF alone, built, served
<1>9. QED
  <2> SUFFICES ASSUME NEW home
               PROVE  home \in Homes(e) <=>
                        \/ home = <<"caller", e>> /\ e \in live
                        \/ \E a \in Stages : home = <<"stage", a>> /\ staged[a] = e
                        \/ \E p \in Processors :
                             /\ inner[p] = e
                             /\ \/ home = <<"processor", p>> /\ p \in live
                                \/ \E c \in Builders, g \in Signals :
                                     home = <<"builder", c>> /\ InBuilder(c, g, p)
                                \/ \E s \in Sdks, g \in Signals :
                                     home = <<"sdk", s>> /\ InSdk(s, g, p)
    OBVIOUS
  <2> DEFINE told == home = <<"caller", e>> /\ e \in live
             stage == \E a \in Stages : home = <<"stage", a>> /\ a \in live /\ staged[a] = e
             alone == \E p \in Processors : home = <<"processor", p>> /\ p \in live /\ inner[p] = e
             built == \E c \in Builders : home = <<"builder", c>> /\ c \in live /\ e \in AllInside(added[c])
             served == \E s \in Sdks : /\ home = <<"sdk", s>>
                                       /\ \E g \in Signals : /\ e \in Inside(installed[s], g)
                                                             /\ s \in live \/ <<s, g>> \in providers
  <2>1. home \in Homes(e) <=> told \/ stage \/ alone \/ built \/ served
    BY <1>1
  <2> HIDE DEF built, served, alone, told, stage
  <2>2. (\E a \in Stages : home = <<"stage", a>> /\ staged[a] = e) <=> stage
    BY <1>7 DEF stage
  <2>3. (\E p \in Processors : /\ inner[p] = e
                               /\ \/ home = <<"processor", p>> /\ p \in live
                                  \/ \E c \in Builders, g \in Signals :
                                       home = <<"builder", c>> /\ InBuilder(c, g, p)
                                  \/ \E s \in Sdks, g \in Signals :
                                       home = <<"sdk", s>> /\ InSdk(s, g, p))
          <=> alone \/ built \/ served
    BY <1>5, <1>6, <1>8, Zenon DEF alone, built, served
  <2>4. QED
    BY <2>1, <2>2, <2>3 DEF told

(* An exporter is in one place or in none. *)
LEMMA OneHome ==
  ASSUME PipelineInv, NEW e \in Exporters
  PROVE  /\ e \in unused \/ ~Owned(e) => Homes(e) = {}
         /\ e \notin unused /\ Owned(e) => \E home : Homes(e) = {home}
<1>1. ASSUME e \in unused \/ ~Owned(e) PROVE Homes(e) = {}
  <2>1. e \notin live
    BY <1>1 DEF Owned, PipelineInv, TypeOK
  <2>2. \A a \in Stages : staged[a] # e
    BY <1>1 DEF Owned, PipelineInv, Carried
  <2>3. \A p \in Processors : inner[p] = e => ~Placed(p)
    BY <1>1 DEF Owned, PipelineInv, Carried
  <2>4. \A home : home \notin Homes(e)
    BY <2>1, <2>2, <2>3, HomesOf DEF Placed
  <2>5. QED
    BY <2>4
<1>2. ASSUME e \notin unused, Owned(e) PROVE \E home : Homes(e) = {home}
  <2>1. CASE e \in live
    <3>1. /\ \A a \in Stages : staged[a] # e
          /\ \A p \in Processors : inner[p] # e
      BY <2>1 DEF PipelineInv, Carried
    <3>2. \A home : home \in Homes(e) <=> home = <<"caller", e>>
      BY <2>1, <3>1, HomesOf
    <3>3. Homes(e) = {<<"caller", e>>}
      BY <3>2, Zenon
    <3>4. QED
      BY <3>3
  <2>2. ASSUME NEW a \in Stages, staged[a] = e PROVE \E home : Homes(e) = {home}
    <3>1. /\ e \notin live
          /\ \A b \in Stages : staged[b] = e => b = a
          /\ \A p \in Processors : inner[p] # e
      BY <2>2 DEF PipelineInv, Carried
    <3>2. \A home : home \in Homes(e) <=> home = <<"stage", a>>
      BY <2>2, <3>1, HomesOf
    <3>3. Homes(e) = {<<"stage", a>>}
      BY <3>2, Zenon
    <3>4. QED
      BY <3>3
  <2>3. ASSUME NEW p \in Processors, inner[p] = e, Placed(p) PROVE \E home : Homes(e) = {home}
    <3>1. /\ e \notin live
          /\ \A a \in Stages : staged[a] # e
          /\ \A q \in Processors : inner[q] = e <=> q = p
      BY <2>3 DEF PipelineInv, Carried
    <3>2. \A home : home \in Homes(e) <=>
            \/ home = <<"processor", p>> /\ p \in live
            \/ \E c \in Builders, g \in Signals : home = <<"builder", c>> /\ InBuilder(c, g, p)
            \/ \E s \in Sdks, g \in Signals : home = <<"sdk", s>> /\ InSdk(s, g, p)
      BY <3>1, HomesOf
    <3>3. CASE p \in live
      <4>1. /\ \A c \in Builders, g \in Signals : ~InBuilder(c, g, p)
            /\ \A s \in Sdks, g \in Signals : ~InSdk(s, g, p)
        BY <3>3 DEF PipelineInv, Listed
      <4>2. \A home : home \in Homes(e) <=> home = <<"processor", p>>
        BY <3>2, <3>3, <4>1
      <4>3. Homes(e) = {<<"processor", p>>}
        BY <4>2, Zenon
      <4>4. QED
        BY <4>3
    <3>4. ASSUME NEW c \in Builders, NEW g \in Signals, InBuilder(c, g, p)
          PROVE  \E home : Homes(e) = {home}
      <4>1. /\ p \notin live
            /\ \A d \in Builders, h \in Signals : InBuilder(d, h, p) => d = c
        BY <3>4 DEF PipelineInv, Listed
      <4>2. ASSUME NEW s \in Sdks, NEW h \in Signals PROVE ~InSdk(s, h, p)
        BY <3>4 DEF PipelineInv, Listed
      <4>3. \A home : home \in Homes(e) <=> home = <<"builder", c>>
        BY <3>2, <3>4, <4>1, <4>2
      <4>4. Homes(e) = {<<"builder", c>>}
        BY <4>3, Zenon
      <4>5. QED
        BY <4>4
    <3>5. ASSUME NEW s \in Sdks, NEW g \in Signals, InSdk(s, g, p)
          PROVE  \E home : Homes(e) = {home}
      <4>1. /\ p \notin live
            /\ \A t \in Sdks, h \in Signals : InSdk(t, h, p) => t = s
        BY <3>5 DEF PipelineInv, Listed
      <4>2. ASSUME NEW c \in Builders, NEW h \in Signals PROVE ~InBuilder(c, h, p)
        BY <3>5 DEF PipelineInv, Listed
      <4>3. \A home : home \in Homes(e) <=> home = <<"sdk", s>>
        BY <3>2, <3>5, <4>1, <4>2
      <4>4. Homes(e) = {<<"sdk", s>>}
        BY <4>3, Zenon
      <4>5. QED
        BY <4>4
    <3>6. QED
      BY <2>3, <3>3, <3>4, <3>5 DEF Placed
  <2>4. QED
    BY <1>2, <2>1, <2>2, <2>3 DEF Owned
<1>3. QED
  BY <1>1, <1>2

(* What the invariant says of releases. *)
LEMMA ReleasesCounted == PipelineInv => ReleasedOnce
<1> SUFFICES ASSUME PipelineInv, NEW e \in Exporters
             PROVE  released[e] + Cardinality(Homes(e)) = IF e \in unused THEN 0 ELSE 1
  BY DEF ReleasedOnce
<1>1. released[e] = IF Owned(e) THEN 0 ELSE 1
  BY DEF PipelineInv, Accounted
<1>2. CASE e \in unused \/ ~Owned(e)
  <2>1. Cardinality(Homes(e)) = 0
    BY <1>2, OneHome, FS_EmptySet
  <2>2. e \in unused => Owned(e)
    BY DEF Owned
  <2>3. QED
    BY <1>1, <1>2, <2>1, <2>2
<1>3. CASE e \notin unused /\ Owned(e)
  <2>1. PICK home : Homes(e) = {home}
    BY <1>3, OneHome
  <2>2. Cardinality(Homes(e)) = 1
    BY <2>1, FS_Singleton
  <2>3. QED
    BY <1>1, <1>3, <2>2
<1>4. QED
  BY <1>2, <1>3

(* The invariant holds of every behaviour. *)
LEMMA PipelineInvHolds == Spec => []PipelineInv
<1>1. Init => PipelineInv
  BY PipelineInitInv
<1>2. PipelineInv /\ [Next]_vars => PipelineInv'
  BY PipelineStepInv
<1>3. QED
  BY <1>1, <1>2, PTL DEF Spec

--------------------------------------------------------------------------------
(* The parts of MCDataPath share no state: each behaves as its own specification says. *)

(* A step of one part is a step of it or leaves its variables. *)
LEMMA PartSteps ==
  ASSUME [DataPathNext]_<<OthersThanPipeline, vars>>
  PROVE  /\ UNCHANGED part
         /\ (part = "pipeline" /\ Next /\ UNCHANGED OthersThanPipeline) \/ UNCHANGED vars
         /\ (part = "instruments" /\ Instrument!Next) \/ UNCHANGED instrumentVars
         /\ (part = "manual_reader" /\ Manual!Next) \/ UNCHANGED readerVars
         /\ (part = "export_views" /\ Export!Next) \/ UNCHANGED exportVars
         /\ (part = "otlp" /\ Otlp!Next) \/ UNCHANGED otlpVars
<1> USE DEF OthersThanPipeline, OthersThanInstrument, OthersThanView, OthersThanManual,
            OthersThanWalk, OthersThanExport, OthersThanOtlp
<1>1. CASE PipelineStep
  BY <1>1 DEF PipelineStep, InPipeline, Next
<1>2. CASE InstrumentStep
  <2>1. part = "instruments" /\ Instrument!Next /\ UNCHANGED OthersThanInstrument
    BY <1>2 DEF InstrumentStep, InInstrument, Instrument!Next
  <2>2. QED
    BY <2>1
<1>3. CASE ViewStep
  BY <1>3 DEF ViewStep, InView
<1>4. CASE ManualStep
  <2>1. part = "manual_reader" /\ Manual!Next /\ UNCHANGED OthersThanManual
    BY <1>4 DEF ManualStep, InManual, Manual!Next
  <2>2. QED
    BY <2>1
<1>5. CASE WalkStep
  BY <1>5 DEF WalkStep, InWalk
<1>6. CASE ExportStep
  <2>1. part = "export_views" /\ Export!Next /\ UNCHANGED OthersThanExport
    BY <1>6 DEF ExportStep, InExport, Export!Next
  <2>2. QED
    BY <2>1
<1>7. CASE OtlpStep
  <2>1. part = "otlp" /\ Otlp!Next /\ UNCHANGED OthersThanOtlp
    BY <1>7 DEF OtlpStep, InOtlp, Otlp!Next
  <2>2. QED
    BY <2>1
<1>8. CASE UNCHANGED <<OthersThanPipeline, vars>>
  BY <1>8
<1>9. QED
  BY <1>1, <1>2, <1>3, <1>4, <1>5, <1>6, <1>7, <1>8 DEF DataPathNext

(* Along every path of transfers, refusals, failures and destructions an exporter is in one
   place and, once in none, was released exactly once (batch_processor.rs:289, sdk.rs:772). *)
THEOREM ReleasedOnceHolds == DataPathSpec => []ReleasedOnce
<1>1. DataPathInit => PipelineInv
  BY PipelineInitInv DEF DataPathInit
<1>2. PipelineInv /\ [DataPathNext]_<<OthersThanPipeline, vars>> => PipelineInv'
  BY PartSteps, PipelineStepInv
<1>3. PipelineInv => ReleasedOnce
  BY ReleasesCounted
<1>4. QED
  BY <1>1, <1>2, <1>3, PTL DEF DataPathSpec

--------------------------------------------------------------------------------
(* The manual reader, for any threads and measurements. *)

Reader == INSTANCE ManualReader_proofs WITH
  Threads <- Flushers, exporter <- accepting, batch <- taken

(* The manual reader of MCDataPath is the one ManualReader_proofs is about. *)
LEMMA SameReader ==
  /\ Manual!Init => Reader!Init
  /\ Manual!Next => Reader!Next
  /\ UNCHANGED readerVars => UNCHANGED Reader!vars
  /\ Reader!FlushAccounts /\ Reader!StoppedOnce => Manual!FlushAccounts /\ Manual!StoppedOnce
<1>1. Manual!Init => Reader!Init
  BY DEF Manual!Init, Reader!Init
<1>2. UNCHANGED readerVars => UNCHANGED Reader!vars
  BY DEF readerVars, Reader!vars, Reader!data, Reader!locks, Reader!local
<1>3. Reader!FlushAccounts /\ Reader!StoppedOnce => Manual!FlushAccounts /\ Manual!StoppedOnce
  BY DEF Reader!FlushAccounts, Reader!StoppedOnce, Manual!FlushAccounts, Manual!StoppedOnce,
         Reader!InOtherHands, Manual!InOtherHands, Reader!delta, Manual!delta
<1>4. ASSUME NEW t \in Flushers, Manual!Flush(t) PROVE Reader!Flush(t)
  <2> USE DEF Manual!Goto, Reader!Goto, Manual!Ends, Reader!Ends, Manual!delta, Reader!delta,
              Manual!data, Reader!data, Manual!locks, Reader!locks, Manual!local, Reader!local
  <2>1. Manual!metrics_force_flush(t) => Reader!metrics_force_flush(t)
    BY DEF Manual!metrics_force_flush, Reader!metrics_force_flush
  <2>2. Manual!metrics_force_flush_refused(t) => Reader!metrics_force_flush_refused(t)
    BY DEF Manual!metrics_force_flush_refused, Reader!metrics_force_flush_refused
  <2>3. Manual!Collect(t) => Reader!Collect(t)
    BY DEF Manual!Collect, Reader!Collect
  <2>4. Manual!CollectFails(t) => Reader!CollectFails(t)
    BY DEF Manual!CollectFails, Reader!CollectFails
  <2>5. Manual!Export(t) => Reader!Export(t)
    BY DEF Manual!Export, Reader!Export
  <2>6. Manual!ExportFails(t) => Reader!ExportFails(t)
    BY DEF Manual!ExportFails, Reader!ExportFails
  <2>7. Manual!FlushExporter(t) => Reader!FlushExporter(t)
    BY DEF Manual!FlushExporter, Reader!FlushExporter
  <2>8. Manual!FlushExporterFails(t) => Reader!FlushExporterFails(t)
    BY DEF Manual!FlushExporterFails, Reader!FlushExporterFails
  <2> HIDE DEF Manual!Goto, Reader!Goto, Manual!Ends, Reader!Ends, Manual!delta, Reader!delta,
               Manual!data, Reader!data, Manual!locks, Reader!locks, Manual!local, Reader!local
  <2>9. QED
    BY <1>4, <2>1, <2>2, <2>3, <2>4, <2>5, <2>6, <2>7, <2>8 DEF Manual!Flush, Reader!Flush
<1>5. ASSUME NEW t \in Flushers, Manual!Shutdown(t) PROVE Reader!Shutdown(t)
  <2> USE DEF Manual!Goto, Reader!Goto, Manual!Ends, Reader!Ends,
              Manual!data, Reader!data, Manual!locks, Reader!locks
  <2>1. Manual!metrics_shutdown(t) => Reader!metrics_shutdown(t)
    BY DEF Manual!metrics_shutdown, Reader!metrics_shutdown
  <2>2. Manual!sdk_destroy(t) => Reader!sdk_destroy(t)
    BY DEF Manual!sdk_destroy, Reader!sdk_destroy
  <2>3. Manual!metrics_shutdown_refused(t) => Reader!metrics_shutdown_refused(t)
    BY DEF Manual!metrics_shutdown_refused, Reader!metrics_shutdown_refused
  <2>4. Manual!SwapShutdown(t) => Reader!SwapShutdown(t)
    BY DEF Manual!SwapShutdown, Reader!SwapShutdown
  <2>5. Manual!AlreadyShutdown(t) => Reader!AlreadyShutdown(t)
    BY DEF Manual!AlreadyShutdown, Reader!AlreadyShutdown
  <2>6. Manual!StopReader(t) => Reader!StopReader(t)
    BY DEF Manual!StopReader, Reader!StopReader
  <2>7. Manual!StopExporter(t) => Reader!StopExporter(t)
    BY DEF Manual!StopExporter, Reader!StopExporter
  <2> HIDE DEF Manual!Goto, Reader!Goto, Manual!Ends, Reader!Ends,
               Manual!data, Reader!data, Manual!locks, Reader!locks
  <2>8. QED
    BY <1>5, <2>1, <2>2, <2>3, <2>4, <2>5, <2>6, <2>7 DEF Manual!Shutdown, Reader!Shutdown
<1>6. ASSUME NEW m \in Measurements, Manual!Record(m) PROVE Reader!Record(m)
  BY <1>6 DEF Manual!Record, Reader!Record, Manual!locks, Reader!locks, Manual!local, Reader!local
<1>7. QED
  BY <1>1, <1>2, <1>3, <1>4, <1>5, <1>6 DEF Manual!Next, Reader!Next

(* Nothing measured is unaccounted for, a flush that answers Ok leaves nothing behind but what
   another flush has taken, and the exporter is stopped once, after its reader
   (manual_metric_reader.rs:37-55). *)
THEOREM ManualReaderAccountsHolds == DataPathSpec => []ManualReaderAccounts
<1> DEFINE ReaderInv == part = "manual_reader" => Reader!Inv
<1>1. DataPathInit => ReaderInv
  BY SameReader, Reader!InitInv DEF DataPathInit
<1>2. ReaderInv /\ [DataPathNext]_<<OthersThanPipeline, vars>> => ReaderInv'
  BY PartSteps, SameReader, Reader!StepInv
<1>3. ReaderInv => ManualReaderAccounts
  BY SameReader, Reader!InvMeans DEF ManualReaderAccounts
<1>4. QED
  BY <1>1, <1>2, <1>3, PTL DEF DataPathSpec

--------------------------------------------------------------------------------
(* OTLP exporters, for any handles, headers and builds. *)

DistinctNames(headers) ==
  \A i, j \in DOMAIN headers : LowerCase[headers[i].key] = LowerCase[headers[j].key] => i = j

(* What is sent is what was asked. *)
SentAsAsked(headers, metadata) ==
  \A i \in DOMAIN headers : metadata[LowerCase[headers[i].key]] = headers[i].value

OtlpTypeOK ==
  /\ builder \in {Null} \cup OtlpConfig
  /\ exporter \in [OtlpHandles -> {Null} \cup OtlpExporter]
  /\ runtime \in [OtlpHandles -> {"none", "running", "stopped", "panicked"}]
  /\ call \in {Null} \cup OtlpCall
  /\ readerConfig \in [runtime : {"blocking", "async"}, timeout : BOOLEAN,
                       exporter : OtlpHandles \cup {Null}]
  /\ otlpReader \in {Null} \cup OtlpReader

(* While a gRPC exporter is built its builder is what was validated. *)
OtlpBuilding ==
  /\ builder # Null => DistinctNames(builder.headers)
  /\ call # Null /\ call.op = "build" =>
       /\ builder # Null /\ builder.transport = "grpc"
       /\ Otlp!validate_transport_available(builder)
       /\ Otlp!validate_compression_available(builder)
  /\ Otlp!BuiltAsAsked

(* A runtime runs for a gRPC exporter or for the call that builds or drops one. *)
OtlpRuntimes ==
  /\ call # Null => exporter[call.e] = Null /\ runtime[call.e] = "running"
  /\ \A e \in OtlpHandles : exporter[e] # Null => (runtime[e] = "running" <=> exporter[e].kind = "grpc")
  /\ \A e \in OtlpHandles :
       exporter[e] = Null /\ runtime[e] = "running" => call # Null /\ call.e = e
  /\ \A e \in OtlpHandles : runtime[e] # "panicked"

(* The reader and its builder own an exporter each, and an async reader one that does not
   block. *)
OtlpOwned ==
  /\ readerConfig.exporter # Null => exporter[readerConfig.exporter] # Null
  /\ otlpReader # Null =>
       /\ exporter[otlpReader.exporter] # Null
       /\ otlpReader.exporter # readerConfig.exporter
       /\ otlpReader.runtime = "async" => exporter[otlpReader.exporter].kind = "custom"
  /\ outcome \in {"none", "sent"}

OtlpInv == OtlpTypeOK /\ OtlpBuilding /\ OtlpRuntimes /\ OtlpOwned

(* The names of a builder's headers, and what each of two maps makes of them. *)
LEMMA NamesOfHeaders ==
  ASSUME NEW headers \in Seq(Header)
  PROVE  /\ Otlp!Names(headers) \subseteq HeaderNames
         /\ \A i \in DOMAIN headers : /\ headers[i] \in Header
                                      /\ LowerCase[headers[i].key] \in Otlp!Names(headers)
         /\ \A n \in Otlp!Names(headers) :
              \E i \in DOMAIN headers : LowerCase[headers[i].key] = n
<1>1. \A i \in DOMAIN headers : headers[i] \in Header
  OBVIOUS
<1>2. \A i \in DOMAIN headers : LowerCase[headers[i].key] \in HeaderNames
  BY <1>1, OtlpAssumption DEF Header, OtlpAssumption
<1>3. QED
  BY <1>1, <1>2 DEF Otlp!Names

(* gRPC metadata: no later header replaces an earlier one if their names differ. *)
LEMMA GrpcMetadata ==
  ASSUME NEW headers \in Seq(Header), DistinctNames(headers)
  PROVE  /\ Otlp!build_grpc_metadata(headers) \in [Otlp!Names(headers) -> HeaderValues]
         /\ SentAsAsked(headers, Otlp!build_grpc_metadata(headers))
<1> DEFINE IsLast(n, i) == /\ LowerCase[headers[i].key] = n
                           /\ \A j \in DOMAIN headers : LowerCase[headers[j].key] = n => j <= i
           lastOf(n) == CHOOSE i \in DOMAIN headers : IsLast(n, i)
<1>1. DOMAIN headers \subseteq Nat
  OBVIOUS
<1>2. ASSUME NEW i \in DOMAIN headers PROVE lastOf(LowerCase[headers[i].key]) = i
  <2>1. \A j \in DOMAIN headers : LowerCase[headers[j].key] = LowerCase[headers[i].key] => j = i
    BY DEF DistinctNames
  <2>2. IsLast(LowerCase[headers[i].key], i)
    BY <1>1, <2>1
  <2>3. \A j \in DOMAIN headers : IsLast(LowerCase[headers[i].key], j) => j = i
    BY <2>1
  <2> HIDE DEF IsLast
  <2>4. QED
    BY <2>2, <2>3
<1>3. Otlp!build_grpc_metadata(headers) = [n \in Otlp!Names(headers) |-> headers[lastOf(n)].value]
  BY DEF Otlp!build_grpc_metadata
<1> HIDE DEF lastOf, IsLast
<1>4. \A n \in Otlp!Names(headers) : headers[lastOf(n)].value \in HeaderValues
  <2>1. ASSUME NEW n \in Otlp!Names(headers) PROVE lastOf(n) \in DOMAIN headers
    BY <1>2, NamesOfHeaders
  <2>2. QED
    BY <2>1, NamesOfHeaders DEF Header
<1>5. QED
  BY <1>2, <1>3, <1>4, NamesOfHeaders DEF SentAsAsked

(* HTTP headers: a hash map cannot lose one if their names differ. *)
LEMMA HttpMetadata ==
  ASSUME NEW headers \in Seq(Header), DistinctNames(headers),
         NEW metadata \in Otlp!HttpHeaders(headers)
  PROVE  /\ metadata \in [Otlp!Names(headers) -> HeaderValues]
         /\ SentAsAsked(headers, metadata)
<1>1. \A n \in Otlp!Names(headers) :
        \E i \in DOMAIN headers : LowerCase[headers[i].key] = n /\ headers[i].value = metadata[n]
  BY DEF Otlp!HttpHeaders
<1>2. \A i \in DOMAIN headers : metadata[LowerCase[headers[i].key]] = headers[i].value
  BY <1>1, NamesOfHeaders DEF DistinctNames
<1>3. QED
  BY <1>2 DEF SentAsAsked, Otlp!HttpHeaders

(* The initial states satisfy the invariant. *)
LEMMA OtlpInitInv == Otlp!Init => OtlpInv
<1> SUFFICES ASSUME Otlp!Init PROVE OtlpInv
  OBVIOUS
<1> USE OtlpAssumption DEF OtlpAssumption, Otlp!Init, Otlp!EmptyReader
<1>1. OtlpTypeOK
  BY DEF OtlpTypeOK
<1>2. OtlpBuilding /\ OtlpRuntimes /\ OtlpOwned
  BY DEF OtlpBuilding, OtlpRuntimes, OtlpOwned, Otlp!BuiltAsAsked
<1>3. QED
  BY <1>1, <1>2 DEF OtlpInv

(* A builder is created, set up or destroyed; a header is added only under a new name. *)
LEMMA ConfigureStep ==
  ASSUME OtlpInv, Otlp!Configure
  PROVE  OtlpInv'
<1> USE OtlpAssumption DEF OtlpAssumption
<1>1. call = Null /\ UNCHANGED <<features, exporter, runtime, call, readerConfig, otlpReader, outcome>>
  BY DEF Otlp!Configure, Otlp!otel_otlp_exporter_builder_new,
         Otlp!otel_otlp_exporter_builder_destroy, Otlp!set_transport, Otlp!set_compression,
         Otlp!set_temporality, Otlp!add_header, Otlp!with_config, Otlp!ConfigOnly, Otlp!Idle
<1>2. builder' \in {Null} \cup OtlpConfig /\ (builder' # Null => DistinctNames(builder'.headers))
  <2>1. CASE Otlp!otel_otlp_exporter_builder_new
    <3>1. builder' = Otlp!EmptyConfig
      BY <2>1 DEF Otlp!otel_otlp_exporter_builder_new
    <3>2. Otlp!EmptyConfig \in OtlpConfig
      BY DEF Otlp!EmptyConfig, OtlpConfig, Otlp!Transports
    <3>3. DistinctNames(Otlp!EmptyConfig.headers)
      BY DEF DistinctNames, Otlp!EmptyConfig
    <3>4. QED
      BY <3>1, <3>2, <3>3
  <2>2. CASE Otlp!otel_otlp_exporter_builder_destroy
    BY <2>2 DEF Otlp!otel_otlp_exporter_builder_destroy
  <2>3. ASSUME NEW c \in OtlpConfig, builder # Null, builder' = c, builder.headers = c.headers
        PROVE  builder' \in OtlpConfig /\ DistinctNames(builder'.headers)
    BY <2>3 DEF OtlpInv, OtlpBuilding
  <2>4. builder # Null => builder \in OtlpConfig
    BY DEF OtlpInv, OtlpTypeOK
  <2>5. ASSUME NEW t \in Otlp!Transports, Otlp!set_transport(t)
        PROVE  builder' \in OtlpConfig /\ DistinctNames(builder'.headers)
    <3>1. builder # Null /\ builder' = [builder EXCEPT !.transport = t]
      BY <2>5 DEF Otlp!set_transport, Otlp!with_config
    <3>2. /\ [builder EXCEPT !.transport = t] \in OtlpConfig
          /\ [builder EXCEPT !.transport = t].headers = builder.headers
      BY <2>4, <3>1 DEF OtlpConfig
    <3>3. QED
      BY <2>3, <3>1, <3>2
  <2>6. ASSUME NEW t \in Compressions, Otlp!set_compression(t)
        PROVE  builder' \in OtlpConfig /\ DistinctNames(builder'.headers)
    <3>1. builder # Null /\ builder' = [builder EXCEPT !.compression = t]
      BY <2>6 DEF Otlp!set_compression, Otlp!with_config
    <3>2. /\ [builder EXCEPT !.compression = t] \in OtlpConfig
          /\ [builder EXCEPT !.compression = t].headers = builder.headers
      BY <2>4, <3>1 DEF OtlpConfig
    <3>3. QED
      BY <2>3, <3>1, <3>2
  <2>7. ASSUME NEW t \in Temporalities, Otlp!set_temporality(t)
        PROVE  builder' \in OtlpConfig /\ DistinctNames(builder'.headers)
    <3>1. builder # Null /\ builder' = [builder EXCEPT !.temporality = t]
      BY <2>7 DEF Otlp!set_temporality, Otlp!with_config
    <3>2. /\ [builder EXCEPT !.temporality = t] \in OtlpConfig
          /\ [builder EXCEPT !.temporality = t].headers = builder.headers
      BY <2>4, <3>1 DEF OtlpConfig
    <3>3. QED
      BY <2>3, <3>1, <3>2
  <2>8. ASSUME NEW name \in HeaderNames, NEW value \in HeaderValues, Otlp!add_header(name, value)
        PROVE  builder' \in OtlpConfig /\ DistinctNames(builder'.headers)
    <3> DEFINE one == [key |-> name, value |-> value]
    <3>1. /\ builder # Null /\ builder' = [builder EXCEPT !.headers = Append(@, one)]
          /\ \A i \in DOMAIN builder.headers :
               LowerCase[builder.headers[i].key] # LowerCase[name]
      BY <2>8 DEF Otlp!add_header, Otlp!with_config, Otlp!SameName
    <3>2. builder.headers \in Seq(Header) /\ one \in Header /\ one.key = name
      BY <2>4, <3>1 DEF OtlpConfig, Header
    <3> HIDE DEF one
    <3>3. Append(builder.headers, one) \in Seq(Header)
      BY <3>2
    <3>4. builder' \in OtlpConfig /\ builder'.headers = Append(builder.headers, one)
      BY <2>4, <3>1, <3>3 DEF OtlpConfig
    <3>5. DistinctNames(Append(builder.headers, one))
      <4>1. DistinctNames(builder.headers)
        BY <3>1 DEF OtlpInv, OtlpBuilding
      <4>2. \A i \in DOMAIN Append(builder.headers, one) :
              \/ i \in DOMAIN builder.headers /\ Append(builder.headers, one)[i] = builder.headers[i]
              \/ i = Len(builder.headers) + 1 /\ Append(builder.headers, one)[i] = one
        BY <3>2
      <4>3. QED
        BY <3>1, <3>2, <4>1, <4>2 DEF DistinctNames
    <3>6. QED
      BY <3>4, <3>5
  <2>9. QED
    BY <2>1, <2>2, <2>5, <2>6, <2>7, <2>8 DEF Otlp!Configure
<1>3. OtlpTypeOK'
  BY <1>1, <1>2 DEF OtlpInv, OtlpTypeOK
<1>4. Otlp!BuiltAsAsked'
  BY <1>1 DEF OtlpInv, OtlpBuilding, Otlp!BuiltAsAsked
<1>5. OtlpBuilding'
  BY <1>1, <1>2, <1>4 DEF OtlpBuilding
<1>6. OtlpRuntimes' /\ OtlpOwned'
  BY <1>1 DEF OtlpInv, OtlpRuntimes, OtlpOwned
<1>7. QED
  BY <1>3, <1>5, <1>6 DEF OtlpInv

(* What a configuration becomes is an exporter that was asked for. *)
LEMMA BuiltIsAsked ==
  ASSUME NEW c \in OtlpConfig, NEW metadata,
         metadata \in [Otlp!Names(c.headers) -> HeaderValues], SentAsAsked(c.headers, metadata)
  PROVE  /\ Otlp!Built(c, metadata) \in OtlpExporter
         /\ Otlp!Built(c, metadata).kind = c.transport
         /\ Otlp!Built(c, metadata).compression = c.compression
         /\ SentAsAsked(Otlp!Built(c, metadata).asked, Otlp!Built(c, metadata).metadata)
<1>1. c.headers \in Seq(Header)
  BY DEF OtlpConfig
<1>2. metadata \in UNION {[names -> HeaderValues] : names \in SUBSET HeaderNames}
  BY <1>1, NamesOfHeaders
<1>3. QED
  BY <1>2 DEF Otlp!Built, OtlpConfig, OtlpExporter

(* An exporter that was just built is what was asked for. *)
LEMMA NewExporterAsAsked ==
  ASSUME OtlpInv, NEW e \in OtlpHandles, NEW made \in OtlpExporter,
         exporter' = [exporter EXCEPT ![e] = made], UNCHANGED features,
         made.kind = "custom" \/
           /\ "otlp-" \o made.kind \in features
           /\ Otlp!CompressionCompiledIn(made.kind, made.compression)
           /\ SentAsAsked(made.asked, made.metadata)
  PROVE  Otlp!BuiltAsAsked'
<1>1. exporter'[e] = made /\ \A f \in OtlpHandles \ {e} : exporter'[f] = exporter[f]
  BY DEF OtlpInv, OtlpTypeOK
<1>2. Otlp!BuiltAsAsked
  BY DEF OtlpInv, OtlpBuilding
<1>3. ASSUME NEW f \in OtlpHandles, exporter'[f] # Null, exporter'[f].kind # "custom"
      PROVE  /\ ("otlp-" \o exporter'[f].kind) \in features
             /\ Otlp!CompressionCompiledIn(exporter'[f].kind, exporter'[f].compression)
             /\ SentAsAsked(exporter'[f].asked, exporter'[f].metadata)
  <2>1. CASE f = e
    BY <1>1, <1>3, <2>1
  <2>2. CASE f # e
    <3>1. exporter'[f] = exporter[f]
      BY <1>1, <2>2
    <3>2. QED
      BY <1>2, <1>3, <3>1 DEF Otlp!BuiltAsAsked, Otlp!CompressionCompiledIn, SentAsAsked
  <2>3. QED
    BY <2>1, <2>2
<1>4. QED
  BY <1>3 DEF Otlp!BuiltAsAsked, Otlp!CompressionCompiledIn, SentAsAsked

(* An exporter is built, or begins to be built, or fails to be. *)
LEMMA BuildStep ==
  ASSUME OtlpInv, Otlp!Build
  PROVE  OtlpInv'
<1> USE OtlpAssumption DEF OtlpAssumption
<1>1. OtlpTypeOK /\ OtlpBuilding /\ OtlpRuntimes /\ OtlpOwned
  BY DEF OtlpInv
<1>2. ASSUME NEW e \in OtlpHandles, NEW caller \in Otlp!Callers,
             Otlp!otel_otlp_exporter_builder_build(e, caller)
      PROVE  OtlpInv'
  <2>1. /\ call = Null /\ builder \in OtlpConfig /\ builder # Null
        /\ exporter[e] = Null /\ runtime[e] = "none"
        /\ Otlp!validate_transport_available(builder)
        /\ Otlp!validate_compression_available(builder)
        /\ UNCHANGED <<features, builder, readerConfig, otlpReader, outcome>>
    BY <1>1, <1>2 DEF Otlp!otel_otlp_exporter_builder_build, Otlp!Idle, Otlp!Fresh, OtlpTypeOK
  <2>2. DistinctNames(builder.headers) /\ builder.headers \in Seq(Header)
    BY <1>1, <2>1 DEF OtlpBuilding, OtlpConfig
  <2>3. CASE Otlp!build_http_exporter(e)
    <3>1. builder.transport = "http" /\ UNCHANGED <<runtime, call>>
      BY <2>3 DEF Otlp!build_http_exporter
    <3>2. PICK metadata \in Otlp!HttpHeaders(builder.headers) :
            exporter' = [exporter EXCEPT ![e] = Otlp!Built(builder, metadata)]
      BY <2>3 DEF Otlp!build_http_exporter
    <3> SUFFICES ASSUME NEW made, made = Otlp!Built(builder, metadata) PROVE OtlpInv'
      OBVIOUS
    <3>3. /\ made \in OtlpExporter /\ made.kind = "http"
          /\ made.compression = builder.compression
          /\ SentAsAsked(made.asked, made.metadata)
      BY <2>1, <2>2, <3>1, HttpMetadata, BuiltIsAsked
    <3>4. Otlp!BuiltAsAsked'
      BY <2>1, <3>1, <3>2, <3>3, NewExporterAsAsked
         DEF Otlp!validate_transport_available, Otlp!validate_compression_available
    <3>5. /\ exporter' \in [OtlpHandles -> {Null} \cup OtlpExporter]
          /\ exporter'[e] = made /\ \A f \in OtlpHandles \ {e} : exporter'[f] = exporter[f]
      BY <1>1, <3>2, <3>3 DEF OtlpTypeOK
    <3>6. OtlpTypeOK'
      BY <1>1, <2>1, <3>1, <3>5 DEF OtlpTypeOK
    <3>7. OtlpBuilding'
      BY <1>1, <2>1, <3>1, <3>4 DEF OtlpBuilding
    <3>8. OtlpRuntimes'
      BY <1>1, <2>1, <3>1, <3>3, <3>5 DEF OtlpRuntimes
    <3>9. OtlpOwned'
      BY <1>1, <2>1, <3>5 DEF OtlpOwned, OtlpTypeOK, OtlpReader
    <3>10. QED
      BY <3>6, <3>7, <3>8, <3>9 DEF OtlpInv
  <2>4. CASE Otlp!build_grpc_exporter(e, caller)
    <3> SUFFICES ASSUME NEW made, made = [op |-> "build", e |-> e, caller |-> caller] PROVE OtlpInv'
      OBVIOUS
    <3>1. /\ builder.transport = "grpc" /\ runtime' = [runtime EXCEPT ![e] = "running"]
          /\ call' = made /\ UNCHANGED exporter
      BY <2>4 DEF Otlp!build_grpc_exporter
    <3>2. made \in OtlpCall /\ made # Null /\ made.e = e /\ made.op = "build"
      BY DEF OtlpCall
    <3>3. /\ runtime' \in [OtlpHandles -> {"none", "running", "stopped", "panicked"}]
          /\ runtime'[e] = "running" /\ \A f \in OtlpHandles \ {e} : runtime'[f] = runtime[f]
      BY <1>1, <3>1 DEF OtlpTypeOK
    <3>4. OtlpTypeOK'
      BY <1>1, <2>1, <3>1, <3>2, <3>3 DEF OtlpTypeOK
    <3>5. Otlp!BuiltAsAsked'
      BY <1>1, <2>1, <3>1 DEF OtlpBuilding, Otlp!BuiltAsAsked
    <3>6. /\ Otlp!validate_transport_available(builder)'
          /\ Otlp!validate_compression_available(builder)'
      BY <2>1 DEF Otlp!validate_transport_available, Otlp!validate_compression_available,
                  Otlp!CompressionCompiledIn
    <3>7. OtlpBuilding'
      BY <2>1, <2>2, <3>1, <3>5, <3>6 DEF OtlpBuilding
    <3>8. OtlpRuntimes'
      BY <1>1, <2>1, <3>1, <3>2, <3>3 DEF OtlpRuntimes
    <3>9. OtlpOwned'
      BY <1>1, <2>1, <3>1 DEF OtlpOwned
    <3>10. QED
      BY <3>4, <3>7, <3>8, <3>9 DEF OtlpInv
  <2>5. QED
    BY <1>2, <2>3, <2>4 DEF Otlp!otel_otlp_exporter_builder_build
<1>3. ASSUME NEW e \in OtlpHandles, Otlp!otel_custom_metric_exporter_new(e) PROVE OtlpInv'
  <2> SUFFICES ASSUME NEW made,
                      made = [kind |-> "custom", compression |-> "none",
                              temporality |-> "default", asked |-> <<>>, metadata |-> <<>>]
               PROVE  OtlpInv'
    OBVIOUS
  <2>1. /\ call = Null /\ exporter[e] = Null /\ runtime[e] = "none"
        /\ exporter' = [exporter EXCEPT ![e] = made]
        /\ UNCHANGED <<features, builder, runtime, call, readerConfig, otlpReader, outcome>>
    BY <1>3 DEF Otlp!otel_custom_metric_exporter_new, Otlp!Idle, Otlp!Fresh
  <2>2. made \in OtlpExporter /\ made.kind = "custom"
    <3>1. <<>> \in Seq(Header) /\ <<>> \in [{} -> HeaderValues]
      OBVIOUS
    <3>2. <<>> \in UNION {[names -> HeaderValues] : names \in SUBSET HeaderNames}
      BY <3>1
    <3>3. QED
      BY <3>1, <3>2 DEF OtlpExporter
  <2>3. Otlp!BuiltAsAsked'
    BY <2>1, <2>2, NewExporterAsAsked
  <2>4. /\ exporter' \in [OtlpHandles -> {Null} \cup OtlpExporter]
        /\ exporter'[e] = made /\ \A f \in OtlpHandles \ {e} : exporter'[f] = exporter[f]
    BY <1>1, <2>1, <2>2 DEF OtlpTypeOK
  <2>5. OtlpTypeOK'
    BY <1>1, <2>1, <2>4 DEF OtlpTypeOK
  <2>6. OtlpBuilding'
    BY <1>1, <2>1, <2>3 DEF OtlpBuilding
  <2>7. OtlpRuntimes'
    BY <1>1, <2>1, <2>2, <2>4 DEF OtlpRuntimes
  <2>8. OtlpOwned'
    BY <1>1, <2>1, <2>4 DEF OtlpOwned, OtlpTypeOK, OtlpReader
  <2>9. QED
    BY <2>5, <2>6, <2>7, <2>8 DEF OtlpInv
<1>4. CASE Otlp!GrpcExporterBuilt
  <2> SUFFICES ASSUME NEW e, e = call.e, NEW metadata,
                      metadata = Otlp!build_grpc_metadata(builder.headers),
                      NEW made, made = Otlp!Built(builder, metadata)
               PROVE  OtlpInv'
    OBVIOUS
  <2>1. /\ call # Null /\ call.op = "build" /\ call' = Null
        /\ exporter' = [exporter EXCEPT ![e] = made]
        /\ UNCHANGED <<features, builder, runtime, readerConfig, otlpReader, outcome>>
    BY <1>4 DEF Otlp!GrpcExporterBuilt
  <2>2. e \in OtlpHandles /\ exporter[e] = Null /\ runtime[e] = "running"
    BY <1>1, <2>1 DEF OtlpTypeOK, OtlpCall, OtlpRuntimes
  <2>3. /\ builder # Null /\ builder \in OtlpConfig /\ builder.transport = "grpc"
        /\ Otlp!validate_transport_available(builder)
        /\ Otlp!validate_compression_available(builder)
        /\ DistinctNames(builder.headers) /\ builder.headers \in Seq(Header)
    BY <1>1, <2>1 DEF OtlpTypeOK, OtlpBuilding, OtlpConfig
  <2>4. /\ made \in OtlpExporter /\ made.kind = "grpc"
        /\ made.compression = builder.compression
        /\ SentAsAsked(made.asked, made.metadata)
    BY <2>3, GrpcMetadata, BuiltIsAsked
  <2>5. Otlp!BuiltAsAsked'
    BY <2>1, <2>2, <2>3, <2>4, NewExporterAsAsked
       DEF Otlp!validate_transport_available, Otlp!validate_compression_available
  <2>6. /\ exporter' \in [OtlpHandles -> {Null} \cup OtlpExporter]
        /\ exporter'[e] = made /\ \A f \in OtlpHandles \ {e} : exporter'[f] = exporter[f]
    BY <1>1, <2>1, <2>2, <2>4 DEF OtlpTypeOK
  <2>7. OtlpTypeOK'
    BY <1>1, <2>1, <2>6 DEF OtlpTypeOK
  <2>8. OtlpBuilding'
    BY <1>1, <2>1, <2>5 DEF OtlpBuilding
  <2>9. OtlpRuntimes'
    BY <1>1, <2>1, <2>2, <2>4, <2>6 DEF OtlpRuntimes
  <2>10. OtlpOwned'
    BY <1>1, <2>1, <2>2, <2>6 DEF OtlpOwned, OtlpTypeOK, OtlpReader
  <2>11. QED
    BY <2>7, <2>8, <2>9, <2>10 DEF OtlpInv
<1>5. CASE Otlp!GrpcExporterFails
  <2> SUFFICES ASSUME NEW e, e = call.e PROVE OtlpInv'
    OBVIOUS
  <2>1. /\ call # Null /\ call.op = "build" /\ call' = Null
        /\ runtime' = [runtime EXCEPT ![e] = "stopped"]
        /\ UNCHANGED <<features, builder, exporter, readerConfig, otlpReader, outcome>>
    BY <1>1, <1>5 DEF Otlp!GrpcExporterFails, Otlp!dispose_grpc_runtime, Otlp!DropRuntime,
                      OtlpTypeOK, OtlpCall, Otlp!Callers
  <2>2. e \in OtlpHandles /\ exporter[e] = Null
    BY <1>1, <2>1 DEF OtlpTypeOK, OtlpCall, OtlpRuntimes
  <2>3. /\ runtime' \in [OtlpHandles -> {"none", "running", "stopped", "panicked"}]
        /\ runtime'[e] = "stopped" /\ \A f \in OtlpHandles \ {e} : runtime'[f] = runtime[f]
    BY <1>1, <2>1, <2>2 DEF OtlpTypeOK
  <2>4. OtlpTypeOK'
    BY <1>1, <2>1, <2>3 DEF OtlpTypeOK
  <2>5. OtlpBuilding'
    BY <1>1, <2>1 DEF OtlpBuilding, Otlp!BuiltAsAsked
  <2>6. OtlpRuntimes'
    BY <1>1, <2>1, <2>2, <2>3 DEF OtlpRuntimes
  <2>7. OtlpOwned'
    BY <1>1, <2>1 DEF OtlpOwned
  <2>8. QED
    BY <2>4, <2>5, <2>6, <2>7 DEF OtlpInv
<1>6. QED
  BY <1>2, <1>3, <1>4, <1>5 DEF Otlp!Build

(* The reader and its builder are set up, built and used. *)
LEMMA ReadStep ==
  ASSUME OtlpInv, Otlp!Read
  PROVE  OtlpInv'
<1> USE OtlpAssumption DEF OtlpAssumption
<1>1. OtlpTypeOK /\ OtlpBuilding /\ OtlpRuntimes /\ OtlpOwned
  BY DEF OtlpInv
<1>2. call = Null /\ UNCHANGED <<features, builder, exporter, runtime, call>>
  BY DEF Otlp!Read, Otlp!set_runtime, Otlp!set_timeout, Otlp!set_exporter, Otlp!ReaderConfig,
         Otlp!otel_periodic_metric_reader_builder_build, Otlp!Export, Otlp!Idle
<1>3. OtlpBuilding' /\ OtlpRuntimes'
  BY <1>1, <1>2 DEF OtlpBuilding, OtlpRuntimes, Otlp!BuiltAsAsked
<1>4. readerConfig \in [runtime : {"blocking", "async"}, timeout : BOOLEAN,
                        exporter : OtlpHandles \cup {Null}]
  BY <1>1 DEF OtlpTypeOK
<1>5. ASSUME NEW r \in {"blocking", "async"}, Otlp!set_runtime(r) PROVE OtlpTypeOK' /\ OtlpOwned'
  <2>1. readerConfig' = [readerConfig EXCEPT !.runtime = r] /\ UNCHANGED <<otlpReader, outcome>>
    BY <1>5 DEF Otlp!set_runtime, Otlp!ReaderConfig
  <2>2. /\ readerConfig' \in [runtime : {"blocking", "async"}, timeout : BOOLEAN,
                              exporter : OtlpHandles \cup {Null}]
        /\ readerConfig'.exporter = readerConfig.exporter
    BY <1>4, <2>1
  <2>3. QED
    BY <1>1, <1>2, <2>1, <2>2 DEF OtlpTypeOK, OtlpOwned
<1>6. ASSUME NEW given \in BOOLEAN, Otlp!set_timeout(given) PROVE OtlpTypeOK' /\ OtlpOwned'
  <2>1. readerConfig' = [readerConfig EXCEPT !.timeout = given] /\ UNCHANGED <<otlpReader, outcome>>
    BY <1>6 DEF Otlp!set_timeout, Otlp!ReaderConfig
  <2>2. /\ readerConfig' \in [runtime : {"blocking", "async"}, timeout : BOOLEAN,
                              exporter : OtlpHandles \cup {Null}]
        /\ readerConfig'.exporter = readerConfig.exporter
    BY <1>4, <2>1
  <2>3. QED
    BY <1>1, <1>2, <2>1, <2>2 DEF OtlpTypeOK, OtlpOwned
<1>7. ASSUME NEW e \in OtlpHandles, Otlp!set_exporter(e) PROVE OtlpTypeOK' /\ OtlpOwned'
  <2>1. /\ readerConfig' = [readerConfig EXCEPT !.exporter = e] /\ UNCHANGED <<otlpReader, outcome>>
        /\ exporter[e] # Null /\ (otlpReader # Null => otlpReader.exporter # e)
    BY <1>7 DEF Otlp!set_exporter, Otlp!ReaderConfig, Otlp!Owned
  <2>2. /\ readerConfig' \in [runtime : {"blocking", "async"}, timeout : BOOLEAN,
                              exporter : OtlpHandles \cup {Null}]
        /\ readerConfig'.exporter = e
    BY <1>4, <2>1
  <2>3. QED
    BY <1>1, <1>2, <2>1, <2>2 DEF OtlpTypeOK, OtlpOwned
<1>8. ASSUME Otlp!otel_periodic_metric_reader_builder_build PROVE OtlpTypeOK' /\ OtlpOwned'
  <2> SUFFICES ASSUME NEW e, e = readerConfig.exporter,
                      NEW made, made = [runtime |-> readerConfig.runtime, exporter |-> e]
               PROVE  OtlpTypeOK' /\ OtlpOwned'
    OBVIOUS
  <2>1. /\ otlpReader = Null /\ e # Null /\ ~Otlp!Refused
        /\ otlpReader' = made /\ UNCHANGED outcome
        /\ readerConfig' = [readerConfig EXCEPT !.exporter = Null]
    BY <1>8 DEF Otlp!otel_periodic_metric_reader_builder_build
  <2>2. e \in OtlpHandles /\ exporter[e] # Null /\ exporter[e] \in OtlpExporter
    BY <1>1, <1>4, <2>1 DEF OtlpTypeOK, OtlpOwned
  <2>3. made \in OtlpReader /\ made.exporter = e /\ made.runtime = readerConfig.runtime
    BY <1>4, <2>2 DEF OtlpReader
  <2>4. /\ readerConfig' \in [runtime : {"blocking", "async"}, timeout : BOOLEAN,
                              exporter : OtlpHandles \cup {Null}]
        /\ readerConfig'.exporter = Null
    BY <1>4, <2>1
  <2>5. made.runtime = "async" => exporter[e].kind = "custom"
    BY <2>1, <2>2, <2>3 DEF Otlp!Refused, Otlp!Blocks, OtlpExporter, Otlp!Transports
  <2>6. OtlpTypeOK'
    BY <1>1, <1>2, <2>1, <2>3, <2>4 DEF OtlpTypeOK
  <2>7. OtlpOwned'
    BY <1>1, <1>2, <2>1, <2>2, <2>3, <2>4, <2>5 DEF OtlpOwned
  <2>8. QED
    BY <2>6, <2>7
<1>9. ASSUME Otlp!Export PROVE OtlpTypeOK' /\ OtlpOwned'
  <2>1. /\ otlpReader # Null /\ UNCHANGED <<readerConfig, otlpReader>>
        /\ outcome' = Otlp!ExportFrom(exporter[otlpReader.exporter].kind, Otlp!Worker)
    BY <1>9 DEF Otlp!Export
  <2>2. outcome' = "sent"
    BY <1>1, <2>1 DEF OtlpOwned, Otlp!ExportFrom, Otlp!Worker
  <2>3. QED
    BY <1>1, <1>2, <2>1, <2>2 DEF OtlpTypeOK, OtlpOwned
<1>10. QED
  BY <1>3, <1>5, <1>6, <1>7, <1>8, <1>9 DEF OtlpInv, Otlp!Read

(* An exporter that goes leaves the others as they were asked for. *)
LEMMA AskedStays ==
  ASSUME Otlp!BuiltAsAsked, UNCHANGED features,
         \A f \in OtlpHandles : exporter'[f] = exporter[f] \/ exporter'[f] = Null
  PROVE  Otlp!BuiltAsAsked'
<1> DEFINE asked(e) == /\ ("otlp-" \o e.kind) \in features
                       /\ e.compression = "none"
                            \/ "otlp-" \o e.kind \o "-" \o e.compression \in features
                       /\ \A i \in DOMAIN e.asked : e.metadata[LowerCase[e.asked[i].key]] = e.asked[i].value
<1>1. \A f \in OtlpHandles : exporter[f] # Null /\ exporter[f].kind # "custom" => asked(exporter[f])
  BY DEF Otlp!BuiltAsAsked
<1>2. (\A f \in OtlpHandles : exporter'[f] # Null /\ exporter'[f].kind # "custom" => asked(exporter'[f]))
        => Otlp!BuiltAsAsked'
  BY DEF Otlp!BuiltAsAsked
<1> HIDE DEF asked
<1>3. QED
  BY <1>1, <1>2

(* An exporter that neither the reader nor its builder will have is dropped. *)
LEMMA ExporterDropped ==
  ASSUME OtlpInv, call = Null,
         NEW e \in OtlpHandles, exporter[e] # Null, NEW caller \in Otlp!Callers,
         Otlp!GrpcExporterDropped(e, caller),
         readerConfig' \in [runtime : {"blocking", "async"}, timeout : BOOLEAN,
                            exporter : OtlpHandles \cup {Null}],
         readerConfig'.exporter \in {Null, readerConfig.exporter} \ {e},
         otlpReader' = Null \/ (otlpReader' = otlpReader /\ otlpReader.exporter # e),
         UNCHANGED <<features, builder, outcome>>
  PROVE  OtlpInv'
<1> USE OtlpAssumption DEF OtlpAssumption
<1> SUFFICES ASSUME NEW made, made = [op |-> "drop", e |-> e, caller |-> caller] PROVE OtlpInv'
  OBVIOUS
<1>1. OtlpTypeOK /\ OtlpBuilding /\ OtlpRuntimes /\ OtlpOwned
  BY DEF OtlpInv
<1>2. /\ exporter' = [exporter EXCEPT ![e] = Null]
      /\ call' = IF exporter[e].kind = "grpc" THEN made ELSE Null
      /\ UNCHANGED runtime
  BY DEF Otlp!GrpcExporterDropped
<1>3. made \in OtlpCall /\ made # Null /\ made.e = e /\ made.op = "drop"
  BY DEF OtlpCall
<1>4. /\ exporter' \in [OtlpHandles -> {Null} \cup OtlpExporter]
      /\ exporter'[e] = Null /\ \A f \in OtlpHandles \ {e} : exporter'[f] = exporter[f]
  BY <1>1, <1>2 DEF OtlpTypeOK
<1>5. OtlpTypeOK'
  BY <1>1, <1>2, <1>3, <1>4 DEF OtlpTypeOK
<1>6. Otlp!BuiltAsAsked'
  <2>1. Otlp!BuiltAsAsked /\ \A f \in OtlpHandles : exporter'[f] = exporter[f] \/ exporter'[f] = Null
    BY <1>1, <1>4 DEF OtlpBuilding
  <2>2. QED
    BY <2>1, AskedStays
<1>7. OtlpBuilding'
  BY <1>1, <1>2, <1>3, <1>6 DEF OtlpBuilding
<1>8. OtlpRuntimes'
  BY <1>1, <1>2, <1>3, <1>4 DEF OtlpRuntimes
<1>9. OtlpOwned'
  <2>1. readerConfig'.exporter # Null => exporter'[readerConfig'.exporter] # Null
    BY <1>1, <1>4 DEF OtlpOwned
  <2>2. otlpReader' # Null => otlpReader' = otlpReader /\ exporter'[otlpReader.exporter] = exporter[otlpReader.exporter]
    BY <1>1, <1>4 DEF OtlpTypeOK, OtlpReader
  <2>3. otlpReader' # Null => otlpReader.exporter # readerConfig'.exporter
    BY <1>1, <2>2 DEF OtlpOwned, OtlpTypeOK, OtlpReader
  <2>4. QED
    BY <1>1, <2>1, <2>2, <2>3 DEF OtlpOwned
<1>10. QED
  BY <1>5, <1>7, <1>8, <1>9 DEF OtlpInv

(* An exporter is released by the application, by a builder or by a reader. *)
LEMMA ReleaseStep ==
  ASSUME OtlpInv, Otlp!Release
  PROVE  OtlpInv'
<1> USE OtlpAssumption DEF OtlpAssumption
<1>1. OtlpTypeOK /\ OtlpBuilding /\ OtlpRuntimes /\ OtlpOwned
  BY DEF OtlpInv
<1>2. readerConfig \in [runtime : {"blocking", "async"}, timeout : BOOLEAN,
                        exporter : OtlpHandles \cup {Null}]
  BY <1>1 DEF OtlpTypeOK
<1>3. ASSUME NEW e \in OtlpHandles, NEW caller \in Otlp!Callers,
             Otlp!otel_metric_exporter_destroy(e, caller)
      PROVE  OtlpInv'
  <2>1. /\ call = Null /\ exporter[e] # Null /\ Otlp!GrpcExporterDropped(e, caller)
        /\ UNCHANGED <<features, builder, readerConfig, otlpReader, outcome>>
    BY <1>3 DEF Otlp!otel_metric_exporter_destroy, Otlp!Idle
  <2>2. readerConfig.exporter # e /\ (otlpReader # Null => otlpReader.exporter # e)
    BY <1>3 DEF Otlp!otel_metric_exporter_destroy, Otlp!Owned
  <2>3. QED
    BY <1>2, <2>1, <2>2, ExporterDropped
<1>4. ASSUME NEW caller \in Otlp!Callers,
             Otlp!otel_periodic_metric_reader_builder_destroy(caller)
      PROVE  OtlpInv'
  <2> SUFFICES ASSUME NEW e, e = readerConfig.exporter PROVE OtlpInv'
    OBVIOUS
  <2>1. /\ call = Null /\ e # Null /\ Otlp!GrpcExporterDropped(e, caller)
        /\ readerConfig' = Otlp!EmptyReader
        /\ UNCHANGED <<features, builder, otlpReader, outcome>>
    BY <1>4 DEF Otlp!otel_periodic_metric_reader_builder_destroy, Otlp!Idle
  <2>2. e \in OtlpHandles /\ exporter[e] # Null /\ (otlpReader # Null => otlpReader.exporter # e)
    BY <1>1, <1>2, <2>1 DEF OtlpOwned
  <2>3. /\ readerConfig' \in [runtime : {"blocking", "async"}, timeout : BOOLEAN,
                              exporter : OtlpHandles \cup {Null}]
        /\ readerConfig'.exporter = Null
    BY <2>1 DEF Otlp!EmptyReader
  <2>4. QED
    BY <2>1, <2>2, <2>3, ExporterDropped
<1>5. CASE Otlp!otel_periodic_metric_reader_destroy
  <2> SUFFICES ASSUME NEW e, e = otlpReader.exporter, NEW caller, caller = Otlp!Worker PROVE OtlpInv'
    OBVIOUS
  <2>1. /\ call = Null /\ otlpReader # Null /\ Otlp!GrpcExporterDropped(e, caller)
        /\ otlpReader' = Null /\ UNCHANGED <<features, builder, readerConfig, outcome>>
    BY <1>5 DEF Otlp!otel_periodic_metric_reader_destroy, Otlp!Idle
  <2>2. /\ e \in OtlpHandles /\ exporter[e] # Null /\ readerConfig.exporter # e
        /\ caller \in Otlp!Callers
    BY <1>1, <2>1 DEF OtlpOwned, OtlpTypeOK, OtlpReader, Otlp!Worker, Otlp!Callers
  <2>3. QED
    BY <1>2, <2>1, <2>2, ExporterDropped
<1>6. CASE Otlp!ReleaseRuntime
  <2> SUFFICES ASSUME NEW e, e = call.e PROVE OtlpInv'
    OBVIOUS
  <2>1. /\ call # Null /\ call' = Null
        /\ exporter' = [exporter EXCEPT ![e] = Null]
        /\ runtime' = [runtime EXCEPT ![e] = "stopped"]
        /\ UNCHANGED <<features, builder, readerConfig, otlpReader, outcome>>
    BY <1>1, <1>6 DEF Otlp!ReleaseRuntime, Otlp!dispose_grpc_runtime, Otlp!DropRuntime,
                      OtlpTypeOK, OtlpCall, Otlp!Callers
  <2>2. e \in OtlpHandles /\ exporter[e] = Null
    BY <1>1, <2>1 DEF OtlpTypeOK, OtlpCall, OtlpRuntimes
  <2>3. exporter' = exporter
    BY <1>1, <2>1, <2>2 DEF OtlpTypeOK
  <2>4. /\ runtime' \in [OtlpHandles -> {"none", "running", "stopped", "panicked"}]
        /\ runtime'[e] = "stopped" /\ \A f \in OtlpHandles \ {e} : runtime'[f] = runtime[f]
    BY <1>1, <2>1, <2>2 DEF OtlpTypeOK
  <2>5. OtlpTypeOK'
    BY <1>1, <2>1, <2>3, <2>4 DEF OtlpTypeOK
  <2>6. OtlpBuilding'
    <3>1. Otlp!BuiltAsAsked'
      <4>1. Otlp!BuiltAsAsked
        BY <1>1 DEF OtlpBuilding
      <4>2. QED
        BY <2>1, <2>3, <4>1, AskedStays
    <3>2. builder' # Null => DistinctNames(builder'.headers)
      BY <1>1, <2>1 DEF OtlpBuilding
    <3>3. QED
      BY <2>1, <3>1, <3>2 DEF OtlpBuilding
  <2>7. OtlpRuntimes'
    BY <1>1, <2>1, <2>2, <2>3, <2>4 DEF OtlpRuntimes
  <2>8. OtlpOwned'
    BY <1>1, <2>1, <2>3 DEF OtlpOwned
  <2>9. QED
    BY <2>5, <2>6, <2>7, <2>8 DEF OtlpInv
<1>7. QED
  BY <1>3, <1>4, <1>5, <1>6 DEF Otlp!Release

(* Every step keeps the invariant, steps of other parts included. *)
LEMMA OtlpStepInv ==
  ASSUME OtlpInv, [Otlp!Next]_otlpVars
  PROVE  OtlpInv'
<1>1. CASE UNCHANGED otlpVars
  <2>1. OtlpTypeOK'
    BY <1>1 DEF otlpVars, OtlpInv, OtlpTypeOK
  <2>2. OtlpBuilding'
    <3>1. Otlp!BuiltAsAsked'
      <4>1. Otlp!BuiltAsAsked /\ UNCHANGED <<exporter, features>>
        BY <1>1 DEF otlpVars, OtlpInv, OtlpBuilding
      <4>2. QED
        BY <4>1, AskedStays
    <3>2. QED
      BY <1>1, <3>1 DEF otlpVars, OtlpInv, OtlpBuilding, Otlp!CompressionCompiledIn,
                        Otlp!validate_transport_available, Otlp!validate_compression_available
  <2>3. OtlpRuntimes' /\ OtlpOwned'
    BY <1>1 DEF otlpVars, OtlpInv, OtlpRuntimes, OtlpOwned
  <2>4. QED
    BY <2>1, <2>2, <2>3 DEF OtlpInv
<1>2. QED
  BY <1>1, ConfigureStep, BuildStep, ReadStep, ReleaseStep DEF Otlp!Next

(* What the invariant says of exporters, their runtimes and readers. *)
LEMMA OtlpPromises ==
  OtlpInv => Otlp!BuiltAsAsked /\ Otlp!RuntimeFollowsExporter /\ Otlp!ReadersCanExport
<1>1. OtlpInv => Otlp!BuiltAsAsked /\ Otlp!ReadersCanExport
  BY DEF OtlpInv, OtlpBuilding, OtlpOwned, Otlp!ReadersCanExport
<1>2. OtlpInv => Otlp!RuntimeFollowsExporter
  BY DEF OtlpInv, OtlpRuntimes, Otlp!RuntimeFollowsExporter
<1>3. QED
  BY <1>1, <1>2

(* The invariant holds while a behaviour is of OTLP exporters. *)
LEMMA OtlpInvHolds == DataPathSpec => [](part = "otlp" => OtlpInv)
<1>1. DataPathInit => (part = "otlp" => OtlpInv)
  BY OtlpInitInv DEF DataPathInit
<1>2. (part = "otlp" => OtlpInv) /\ [DataPathNext]_<<OthersThanPipeline, vars>>
        => (part = "otlp" => OtlpInv)'
  BY PartSteps, OtlpStepInv
<1>3. QED
  BY <1>1, <1>2, PTL DEF DataPathSpec

(* Whatever order a builder's calls come in, an exporter is of the transport and compression
   it was asked for, which are compiled in, and sends every header with the value it was
   accepted with (otlp_exporter.rs:148-186, 255-276, 369-405). *)
THEOREM OtlpBuiltAsAskedHolds == DataPathSpec => []OtlpBuiltAsAsked
<1>1. (part = "otlp" => OtlpInv) => OtlpBuiltAsAsked
  BY OtlpPromises DEF OtlpBuiltAsAsked
<1>2. QED
  BY <1>1, OtlpInvHolds, PTL

(* A gRPC exporter never lives without its runtime, which is neither left behind nor dropped
   inside another (metric_exporter.rs:56-113). *)
THEOREM OtlpRuntimeFollowsExporterHolds == DataPathSpec => []OtlpRuntimeFollowsExporter
<1>1. (part = "otlp" => OtlpInv) => OtlpRuntimeFollowsExporter
  BY OtlpPromises DEF OtlpRuntimeFollowsExporter
<1>2. QED
  BY <1>1, OtlpInvHolds, PTL

(* No order of a reader builder's calls leaves a blocking exporter with a worker inside Tokio
   (periodic_metric_reader.rs:309-330, 396-437). *)
THEOREM OtlpReadersCanExportHolds == DataPathSpec => []OtlpReadersCanExport
<1>1. (part = "otlp" => OtlpInv) => OtlpReadersCanExport
  BY OtlpPromises DEF OtlpReadersCanExport
<1>2. QED
  BY <1>1, OtlpInvHolds, PTL

--------------------------------------------------------------------------------
(* Instruments, for any number of handles and objects. *)

Kinds == {"meter", "instrument", "bound"}
HandleType ==
  [what : Kinds, row : Instrument!Rows \cup {Null}, ctx : Nat, state : Nat, live : BOOLEAN]
ContextType == [what : Kinds, row : Instrument!Rows \cup {Null}, freed : Nat]
StateType ==
  [row : Instrument!ObservableRows, handle : BOOLEAN,
   lease : {"none", "handed", "leased", "closure"}, released : Nat]

InstrumentTypeOK ==
  /\ handles \in Seq(HandleType) /\ contexts \in Seq(ContextType) /\ states \in Seq(StateType)
  /\ creation \in {Null} \cup Creation

(* A handle's box was made for the handle's own row, and so is the box of a creation; only
   rows that can be bound have been. *)
Matching ==
  /\ \A h \in DOMAIN handles :
       /\ handles[h].ctx # 0 => contexts[handles[h].ctx].row = handles[h].row
       /\ handles[h].what = "bound" => Instrument!BoundRecord(handles[h].row) # Null
  /\ creation # Null /\ creation.ctx # 0 => contexts[creation.ctx].row = creation.row
  /\ Instrument!TypesAgree

(* Every box is a handle's, the creation's or freed. *)
HandlesBox ==
  \A h \in DOMAIN handles : handles[h].ctx # 0 =>
    /\ handles[h].ctx \in DOMAIN contexts
    /\ contexts[handles[h].ctx].freed = IF handles[h].live THEN 0 ELSE 1
OneHandleEach ==
  \A g, h \in DOMAIN handles : handles[g].ctx = handles[h].ctx /\ handles[g].ctx # 0 => g = h
CreationsBox ==
  creation # Null /\ creation.ctx # 0 =>
    /\ creation.at = "returned"
    /\ creation.ctx \in DOMAIN contexts /\ contexts[creation.ctx].freed = 0
    /\ \A h \in DOMAIN handles : handles[h].ctx # creation.ctx
NoBoxLost ==
  \A c \in DOMAIN contexts :
    (\A h \in DOMAIN handles : handles[h].ctx # c) /\ ~(creation # Null /\ creation.ctx = c) =>
      contexts[c].freed = 1
Boxes == HandlesBox /\ OneHandleEach /\ CreationsBox /\ NoBoxLost

(* Every callback state is a handle's, the creation's or released, and how far a creation has
   come tells who owes the release. *)
HandlesState ==
  \A h \in DOMAIN handles : handles[h].state # 0 =>
    /\ handles[h].state \in DOMAIN states
    /\ handles[h].ctx # 0 =>
         states[handles[h].state].lease # "none" \/ states[handles[h].state].released = 1
LeasesEnd ==
  \A s \in DOMAIN states : /\ states[s].released \in {0, 1}
                           /\ states[s].released = 1 => states[s].lease = "none"
CreationsState ==
  creation # Null /\ creation.state # 0 =>
    /\ creation.state \in DOMAIN states
    /\ \A h \in DOMAIN handles : handles[h].state # creation.state
    /\ IF creation.at = "returned" /\ creation.ctx = 0
         THEN states[creation.state].lease = "none" /\ states[creation.state].released = 1
         ELSE states[creation.state].lease # "none" /\ states[creation.state].released = 0
NoStateLost ==
  \A s \in DOMAIN states :
    /\ \A h \in DOMAIN handles : handles[h].state # s
    /\ ~(creation # Null /\ creation.state = s)
    => states[s].released = 1
Leases == HandlesState /\ LeasesEnd /\ CreationsState /\ NoStateLost

InstrumentInv == InstrumentTypeOK /\ Matching /\ Boxes /\ Leases

(* The tables: every row's variant is in its own entries, and only there. *)
LEMMA TablesAgree ==
  /\ \A row \in Instrument!SyncRows :
       Instrument!Variant(row) \in Instrument!RecordVariants[row.record]
  /\ \A row : Instrument!BoundRecord(row) # Null =>
       /\ Instrument!Variant(row) \in Instrument!BindVariants
       /\ Instrument!Variant(row) \in Instrument!BoundRecordVariants[Instrument!BoundRecord(row)]
  /\ \A row \in Instrument!ObservableRows :
       /\ row.trampoline = row.callback
       /\ row.trampoline = Instrument!ObserverContext(Instrument!Variant(row))
<1>1. ASSUME NEW row \in Instrument!SyncRows
      PROVE  Instrument!Variant(row) \in Instrument!RecordVariants[row.record]
  BY DEF Instrument!SyncRows, Instrument!SyncRow, Instrument!Variant, Instrument!RecordVariants
<1>2. ASSUME NEW row, Instrument!BoundRecord(row) # Null
      PROVE  /\ Instrument!Variant(row) \in Instrument!BindVariants
             /\ Instrument!Variant(row)
                  \in Instrument!BoundRecordVariants[Instrument!BoundRecord(row)]
  BY <1>2 DEF Instrument!BoundRecord, Instrument!Variant, Instrument!BindVariants,
              Instrument!BoundRecordVariants
<1>3. ASSUME NEW row \in Instrument!ObservableRows
      PROVE  /\ row.trampoline = row.callback
             /\ row.trampoline = Instrument!ObserverContext(Instrument!Variant(row))
  <2>1. /\ row.trampoline = row.callback /\ row.trampoline \in Instrument!Numbers
        /\ Instrument!Variant(row) \in Instrument!ObserverContexts[row.trampoline]
    BY DEF Instrument!ObservableRows, Instrument!ObservableRow, Instrument!Variant,
           Instrument!Numbers, Instrument!ObserverContexts
  <2>2. \A n \in Instrument!Numbers, other \in Instrument!Numbers : n # other =>
          Instrument!ObserverContexts[n] \cap Instrument!ObserverContexts[other] = {}
    BY DEF Instrument!Numbers, Instrument!ObserverContexts
  <2>3. \A n \in Instrument!Numbers :
          Instrument!Variant(row) \in Instrument!ObserverContexts[n] => n = row.trampoline
    BY <2>1, <2>2
  <2>4. QED
    BY <2>1, <2>3 DEF Instrument!ObserverContext
<1>4. QED
  BY <1>1, <1>2, <1>3

(* An entry is appended to a table. *)
LEMMA Appended ==
  ASSUME NEW R, NEW q \in Seq(R), NEW one \in R
  PROVE  /\ Append(q, one) \in Seq(R) /\ Len(q) + 1 \in Nat \ {0} /\ Len(q) + 1 \notin DOMAIN q
         /\ \A i : i \in DOMAIN Append(q, one) <=> i \in DOMAIN q \/ i = Len(q) + 1
         /\ Append(q, one)[Len(q) + 1] = one
         /\ \A i \in DOMAIN q : Append(q, one)[i] = q[i]
<1>1. Append(q, one) \in Seq(R) /\ Len(Append(q, one)) = Len(q) + 1 /\ Len(q) \in Nat
  OBVIOUS
<1>2. DOMAIN q = 1..Len(q) /\ DOMAIN Append(q, one) = 1..(Len(q) + 1)
  OBVIOUS
<1>3. Append(q, one)[Len(q) + 1] = one /\ \A i \in 1..Len(q) : Append(q, one)[i] = q[i]
  OBVIOUS
<1>4. QED
  BY <1>1, <1>2, <1>3

(* An entry of a table is replaced. *)
LEMMA Replaced ==
  ASSUME NEW R, NEW q \in Seq(R), NEW i \in DOMAIN q, NEW one \in R
  PROVE  /\ [q EXCEPT ![i] = one] \in Seq(R) /\ DOMAIN [q EXCEPT ![i] = one] = DOMAIN q
         /\ [q EXCEPT ![i] = one][i] = one
         /\ \A j \in DOMAIN q \ {i} : [q EXCEPT ![i] = one][j] = q[j]
  OBVIOUS

(* A call that only answers. *)
LEMMA AnswerStep ==
  ASSUME InstrumentInv, UNCHANGED <<handles, contexts, states, creation>>,
         answer' \notin {"mismatch", "silent", "confused"}
  PROVE  InstrumentInv'
<1>1. InstrumentTypeOK'
  BY DEF InstrumentInv, InstrumentTypeOK
<1>2. Boxes'
  BY DEF InstrumentInv, Boxes, HandlesBox, OneHandleEach, CreationsBox, NoBoxLost
<1>3. Leases'
  BY DEF InstrumentInv, Leases, HandlesState, LeasesEnd, CreationsState, NoStateLost
<1>4. Matching'
  BY DEF InstrumentInv, Matching, Instrument!TypesAgree
<1>5. QED
  BY <1>1, <1>2, <1>3, <1>4 DEF InstrumentInv

(* A box can be made for a handle at once, or none; a callback state too. *)
LEMMA HandleMade ==
  ASSUME InstrumentInv, creation = Null, UNCHANGED creation,
         NEW what \in Kinds, NEW row \in Instrument!Rows \cup {Null},
         what = "bound" => Instrument!BoundRecord(row) # Null,
         NEW ctx \in Nat, NEW state \in Nat,
         handles' = Append(handles, [what |-> what, row |-> row, ctx |-> ctx, state |-> state,
                                     live |-> TRUE]),
         \/ ctx = 0 /\ UNCHANGED contexts
         \/ /\ ctx = Len(contexts) + 1
            /\ contexts' = Append(contexts, [what |-> what, row |-> row, freed |-> 0]),
         \/ state = 0 /\ UNCHANGED states
         \/ /\ ctx = 0 /\ state = Len(states) + 1 /\ row \in Instrument!ObservableRows
            /\ states' = Append(states, [row |-> row, handle |-> TRUE, lease |-> "none",
                                         released |-> 0]),
         answer' = "ok"
  PROVE  InstrumentInv'
<1> DEFINE n == Len(handles) + 1
           one == [what |-> what, row |-> row, ctx |-> ctx, state |-> state, live |-> TRUE]
           box == [what |-> what, row |-> row, freed |-> 0]
           token == [row |-> row, handle |-> TRUE, lease |-> "none", released |-> 0]
<1>1. /\ InstrumentTypeOK /\ Matching
      /\ HandlesBox /\ OneHandleEach /\ NoBoxLost /\ HandlesState /\ LeasesEnd /\ NoStateLost
  BY DEF InstrumentInv, Boxes, Leases
<1>2. /\ one \in HandleType /\ one.what = what /\ one.row = row /\ one.ctx = ctx
      /\ one.state = state /\ one.live = TRUE
  BY DEF HandleType
<1>3. box \in ContextType /\ box.row = row /\ box.freed = 0
  BY DEF ContextType
<1>4. row \in Instrument!ObservableRows =>
        token \in StateType /\ token.lease = "none" /\ token.released = 0
  BY DEF StateType
<1> HIDE DEF one, box, token
<1>5. /\ handles' \in Seq(HandleType) /\ n \notin DOMAIN handles /\ handles'[n] = one
      /\ \A h : h \in DOMAIN handles' <=> h \in DOMAIN handles \/ h = n
      /\ \A h \in DOMAIN handles : handles'[h] = handles[h]
  BY <1>1, <1>2, Appended DEF InstrumentTypeOK, one
<1> HIDE DEF n
<1>6. /\ contexts' \in Seq(ContextType)
      /\ \A c \in DOMAIN contexts : c \in DOMAIN contexts' /\ contexts'[c] = contexts[c]
      /\ ctx # 0 => ctx \notin DOMAIN contexts /\ ctx \in DOMAIN contexts' /\ contexts'[ctx] = box
      /\ \A c \in DOMAIN contexts' : c \in DOMAIN contexts \/ (ctx # 0 /\ c = ctx)
  <2>1. CASE ctx = 0 /\ UNCHANGED contexts
    BY <1>1, <2>1 DEF InstrumentTypeOK
  <2>2. CASE ctx = Len(contexts) + 1 /\ contexts' = Append(contexts, box)
    BY <1>1, <1>3, <2>2, Appended DEF InstrumentTypeOK
  <2>3. QED
    BY <2>1, <2>2 DEF box
<1>7. /\ states' \in Seq(StateType)
      /\ \A s \in DOMAIN states : s \in DOMAIN states' /\ states'[s] = states[s]
      /\ state # 0 => /\ ctx = 0 /\ state \notin DOMAIN states /\ state \in DOMAIN states'
                      /\ states'[state].lease = "none" /\ states'[state].released = 0
      /\ \A s \in DOMAIN states' : s \in DOMAIN states \/ (state # 0 /\ s = state)
  <2>1. CASE state = 0 /\ UNCHANGED states
    BY <1>1, <2>1 DEF InstrumentTypeOK
  <2>2. CASE /\ ctx = 0 /\ state = Len(states) + 1 /\ row \in Instrument!ObservableRows
             /\ states' = Append(states, token)
    BY <1>1, <1>4, <2>2, Appended DEF InstrumentTypeOK
  <2>3. QED
    BY <2>1, <2>2 DEF token
<1>8. InstrumentTypeOK'
  BY <1>1, <1>5, <1>6, <1>7 DEF InstrumentTypeOK
<1>9. Matching'
  <2>1. \A h \in DOMAIN handles : handles[h].ctx # 0 => handles[h].ctx \in DOMAIN contexts
    BY <1>1 DEF HandlesBox
  <2>2. QED
    BY <1>1, <1>2, <1>3, <1>5, <1>6, <2>1 DEF Matching, Instrument!TypesAgree
<1>10. \A h \in DOMAIN handles : /\ ctx # 0 => handles[h].ctx # ctx
                                 /\ state # 0 => handles[h].state # state
  BY <1>1, <1>6, <1>7 DEF HandlesBox, HandlesState
<1>11. Boxes'
  <2>1. HandlesBox'
    <3>1. ASSUME NEW h \in DOMAIN handles, handles[h].ctx # 0
          PROVE  /\ handles'[h].ctx \in DOMAIN contexts'
                 /\ contexts'[handles'[h].ctx].freed = IF handles'[h].live THEN 0 ELSE 1
      BY <1>1, <1>5, <1>6, <3>1 DEF HandlesBox
    <3>2. QED
      BY <1>2, <1>3, <1>5, <1>6, <3>1 DEF HandlesBox
  <2>2. OneHandleEach'
    BY <1>1, <1>2, <1>5, <1>10 DEF OneHandleEach
  <2>3. CreationsBox'
    BY DEF CreationsBox
  <2>4. NoBoxLost'
    <3>1. ASSUME NEW c \in DOMAIN contexts', \A h \in DOMAIN handles' : handles'[h].ctx # c
          PROVE  c \in DOMAIN contexts /\ \A h \in DOMAIN handles : handles[h].ctx # c
      BY <1>2, <1>5, <1>6, <3>1
    <3>2. \A c \in DOMAIN contexts : contexts'[c].freed = contexts[c].freed
      BY <1>6
    <3>3. NoBoxLost
      BY <1>1
    <3>4. QED
      BY <3>1, <3>2, <3>3 DEF NoBoxLost
  <2>5. QED
    BY <2>1, <2>2, <2>3, <2>4 DEF Boxes
<1>12. Leases'
  <2>1. HandlesState'
    <3>1. ASSUME NEW h \in DOMAIN handles, handles[h].state # 0
          PROVE  /\ handles'[h].state \in DOMAIN states'
                 /\ handles'[h].ctx # 0 =>
                      \/ states'[handles'[h].state].lease # "none"
                      \/ states'[handles'[h].state].released = 1
      BY <1>1, <1>5, <1>7, <3>1 DEF HandlesState
    <3>2. QED
      BY <1>2, <1>5, <1>7, <3>1 DEF HandlesState
  <2>2. LeasesEnd'
    BY <1>1, <1>7 DEF LeasesEnd
  <2>3. CreationsState'
    BY DEF CreationsState
  <2>4. NoStateLost'
    <3>1. ASSUME NEW s \in DOMAIN states', \A h \in DOMAIN handles' : handles'[h].state # s
          PROVE  s \in DOMAIN states /\ \A h \in DOMAIN handles : handles[h].state # s
      BY <1>2, <1>5, <1>7, <3>1
    <3>2. \A s \in DOMAIN states : states'[s].released = states[s].released
      BY <1>7
    <3>3. NoStateLost
      BY <1>1
    <3>4. QED
      BY <3>1, <3>2, <3>3 DEF NoStateLost
  <2>5. QED
    BY <2>1, <2>2, <2>3, <2>4 DEF Leases
<1>13. QED
  BY <1>8, <1>9, <1>11, <1>12 DEF InstrumentInv

(* A creation goes over to the SDK, with a reference to an observable's state. *)
LEMMA CreateStep ==
  ASSUME InstrumentInv, NEW i \in DOMAIN handles, NEW row \in Instrument!Rows,
         Instrument!create(i, row)
  PROVE  InstrumentInv'
<1> USE InstrumentAssumption DEF InstrumentAssumption
<1> SUFFICES ASSUME NEW state, state = Instrument!StateOf(row),
                    NEW made, made = [at |-> "entered", row |-> row, ctx |-> 0, state |-> state],
                    NEW token, token = [row |-> row, handle |-> TRUE, lease |-> "handed",
                                        released |-> 0]
             PROVE  InstrumentInv'
  OBVIOUS
<1>1. /\ InstrumentTypeOK /\ Matching
      /\ HandlesBox /\ OneHandleEach /\ NoBoxLost /\ HandlesState /\ LeasesEnd /\ NoStateLost
  BY DEF InstrumentInv, Boxes, Leases
<1>2. /\ creation = Null /\ creation' = made /\ UNCHANGED <<handles, contexts, answer>>
      /\ states' = IF row \in Instrument!ObservableRows THEN Append(states, token) ELSE states
  BY DEF Instrument!create, Instrument!Idle, Instrument!NewState, Instrument!Observable
<1>3. /\ states' \in Seq(StateType)
      /\ \A s \in DOMAIN states : s \in DOMAIN states' /\ states'[s] = states[s]
      /\ state \in Nat
      /\ state # 0 => /\ state \notin DOMAIN states /\ state \in DOMAIN states'
                      /\ states'[state].lease = "handed" /\ states'[state].released = 0
      /\ \A s \in DOMAIN states' : s \in DOMAIN states \/ (state # 0 /\ s = state)
  <2>1. CASE row \in Instrument!ObservableRows
    <3>1. token \in StateType /\ token.lease = "handed" /\ token.released = 0
      BY <2>1 DEF StateType
    <3>2. state = Len(states) + 1 /\ states' = Append(states, token)
      BY <1>2, <2>1 DEF Instrument!StateOf, Instrument!Observable
    <3>3. QED
      BY <1>1, <3>1, <3>2, Appended DEF InstrumentTypeOK
  <2>2. CASE row \notin Instrument!ObservableRows
    BY <1>1, <1>2, <2>2 DEF Instrument!StateOf, Instrument!Observable, InstrumentTypeOK
  <2>3. QED
    BY <2>1, <2>2
<1>4. /\ made \in Creation /\ made # Null /\ made.at = "entered" /\ made.ctx = 0
      /\ made.state = state
  BY <1>3 DEF Creation
<1>5. InstrumentTypeOK'
  BY <1>1, <1>2, <1>3, <1>4 DEF InstrumentTypeOK
<1>6. Matching'
  BY <1>1, <1>2, <1>4 DEF Matching, Instrument!TypesAgree
<1>7. HandlesBox' /\ OneHandleEach' /\ CreationsBox' /\ NoBoxLost'
  BY <1>1, <1>2, <1>4 DEF HandlesBox, OneHandleEach, CreationsBox, NoBoxLost
<1>8. HandlesState' /\ LeasesEnd'
  BY <1>1, <1>2, <1>3 DEF HandlesState, LeasesEnd
<1>9. CreationsState'
  <2>1. state # 0 => \A h \in DOMAIN handles : handles[h].state # state
    BY <1>1, <1>3 DEF HandlesState
  <2>2. QED
    BY <1>2, <1>3, <1>4, <2>1 DEF CreationsState
<1>10. NoStateLost'
  BY <1>1, <1>2, <1>3, <1>4 DEF NoStateLost
<1>11. QED
  BY <1>5, <1>6, <1>7, <1>8, <1>9, <1>10 DEF InstrumentInv, Boxes, Leases

(* What becomes of a lease. *)
LEMMA LeaseMoves ==
  ASSUME InstrumentInv, NEW s \in Nat, s # 0 => s \in DOMAIN states,
         NEW lease \in {"none", "handed", "leased", "closure"}, NEW n \in {0, 1},
         Instrument!Lease(s, lease, n)
  PROVE  /\ states' \in Seq(StateType) /\ DOMAIN states' = DOMAIN states
         /\ \A t \in DOMAIN states \ {s} : states'[t] = states[t]
         /\ s # 0 => /\ states'[s].lease = lease
                     /\ states'[s].released = states[s].released + n
<1>1. states \in Seq(StateType)
  BY DEF InstrumentInv, InstrumentTypeOK
<1>2. CASE s = 0
  BY <1>1, <1>2 DEF Instrument!Lease
<1>3. CASE s # 0
  <2> DEFINE one == [states[s] EXCEPT !.lease = lease, !.released = @ + n]
  <2>1. states[s] \in StateType
    BY <1>1, <1>3
  <2>2. one \in StateType /\ one.lease = lease /\ one.released = states[s].released + n
    <3>1. ASSUME NEW token \in StateType, NEW count \in Nat
          PROVE  LET to == [token EXCEPT !.lease = lease, !.released = count]
                 IN  to \in StateType /\ to.lease = lease /\ to.released = count
      BY DEF StateType
    <3>2. states[s].released + n \in Nat
      BY <2>1 DEF StateType
    <3>3. one = [states[s] EXCEPT !.lease = lease, !.released = states[s].released + n]
      BY <2>1 DEF StateType
    <3> HIDE DEF one
    <3>4. QED
      BY <2>1, <3>1, <3>2, <3>3
  <2>3. states' = [states EXCEPT ![s] = one]
    BY <1>1, <1>3, <2>1 DEF Instrument!Lease, StateType
  <2> HIDE DEF one
  <2>4. QED
    BY <1>1, <1>3, <2>2, <2>3, Replaced
<1>4. QED
  BY <1>2, <1>3

(* A creation moves on inside the SDK: the lease is taken, dropped with a failure or moved
   into the closure of the instrument made. *)
LEMMA CreationMoves ==
  ASSUME InstrumentInv, creation # Null, creation.at # "returned",
         NEW to \in Creation, creation' = to, to.row = creation.row, to.state = creation.state,
         UNCHANGED <<handles, answer>>,
         \/ to.ctx = 0 /\ UNCHANGED contexts
         \/ /\ to.at = "returned" /\ to.ctx = Len(contexts) + 1
            /\ contexts' = Append(contexts, [what |-> "instrument", row |-> creation.row,
                                             freed |-> 0]),
         NEW lease \in {"none", "handed", "leased", "closure"}, NEW n \in {0, 1},
         Instrument!Lease(creation.state, lease, n),
         IF to.at = "returned" /\ to.ctx = 0 THEN lease = "none" /\ n = 1
                                             ELSE lease # "none" /\ n = 0
  PROVE  InstrumentInv'
<1> USE InstrumentAssumption DEF InstrumentAssumption
<1> SUFFICES ASSUME NEW state, state = creation.state, NEW row, row = creation.row,
                    NEW box, box = [what |-> "instrument", row |-> row, freed |-> 0]
             PROVE  InstrumentInv'
  OBVIOUS
<1>1. /\ InstrumentTypeOK /\ Matching
      /\ HandlesBox /\ OneHandleEach /\ CreationsBox /\ NoBoxLost
      /\ HandlesState /\ LeasesEnd /\ CreationsState /\ NoStateLost
  BY DEF InstrumentInv, Boxes, Leases
<1>2. /\ creation \in Creation /\ creation.ctx = 0 /\ to # Null /\ to.ctx \in Nat
      /\ state \in Nat /\ row \in Instrument!Rows
  BY <1>1 DEF InstrumentTypeOK, CreationsBox, Creation
<1>3. state # 0 => /\ state \in DOMAIN states
                   /\ \A h \in DOMAIN handles : handles[h].state # state
                   /\ states[state].lease # "none" /\ states[state].released = 0
  BY <1>1 DEF CreationsState
<1>4. /\ states' \in Seq(StateType) /\ DOMAIN states' = DOMAIN states
      /\ \A s \in DOMAIN states \ {state} : states'[s] = states[s]
      /\ state # 0 => states'[state].lease = lease /\ states'[state].released = n
  <2>1. Instrument!Lease(state, lease, n)
    OBVIOUS
  <2>2. /\ states' \in Seq(StateType) /\ DOMAIN states' = DOMAIN states
        /\ \A s \in DOMAIN states \ {state} : states'[s] = states[s]
        /\ state # 0 => /\ states'[state].lease = lease
                        /\ states'[state].released = states[state].released + n
    BY <1>2, <1>3, <2>1, LeaseMoves
  <2>3. QED
    BY <1>3, <2>2
<1>5. /\ contexts' \in Seq(ContextType)
      /\ \A c \in DOMAIN contexts : c \in DOMAIN contexts' /\ contexts'[c] = contexts[c]
      /\ to.ctx # 0 =>
           /\ to.at = "returned" /\ to.ctx \notin DOMAIN contexts /\ to.ctx \in DOMAIN contexts'
           /\ contexts'[to.ctx].freed = 0 /\ contexts'[to.ctx].row = row
      /\ \A c \in DOMAIN contexts' : c \in DOMAIN contexts \/ (to.ctx # 0 /\ c = to.ctx)
  <2>1. CASE to.ctx = 0 /\ UNCHANGED contexts
    BY <1>1, <2>1 DEF InstrumentTypeOK
  <2>2. CASE /\ to.at = "returned" /\ to.ctx = Len(contexts) + 1
             /\ contexts' = Append(contexts, box)
    <3>1. box \in ContextType /\ box.row = row /\ box.freed = 0
      BY <1>2 DEF ContextType, Kinds
    <3>2. QED
      BY <1>1, <2>2, <3>1, Appended DEF InstrumentTypeOK
  <2>3. QED
    BY <2>1, <2>2
<1>6. InstrumentTypeOK'
  BY <1>1, <1>4, <1>5 DEF InstrumentTypeOK
<1>7. Matching'
  <2>1. \A h \in DOMAIN handles : handles[h].ctx # 0 => handles[h].ctx \in DOMAIN contexts
    BY <1>1 DEF HandlesBox
  <2>2. QED
    BY <1>1, <1>5, <2>1 DEF Matching, Instrument!TypesAgree
<1>8. Boxes'
  <2>1. HandlesBox' /\ OneHandleEach'
    BY <1>1, <1>5 DEF HandlesBox, OneHandleEach
  <2>2. CreationsBox'
    BY <1>1, <1>5 DEF HandlesBox, CreationsBox
  <2>3. NoBoxLost'
    <3>1. \A c \in DOMAIN contexts : c # 0
      BY <1>1 DEF InstrumentTypeOK
    <3>2. ASSUME NEW c \in DOMAIN contexts', c # to.ctx
          PROVE  /\ c \in DOMAIN contexts /\ contexts'[c] = contexts[c]
                 /\ ~(creation # Null /\ creation.ctx = c)
      BY <1>2, <1>5, <3>1, <3>2
    <3>3. NoBoxLost /\ to # Null
      BY <1>1, <1>2
    <3>4. QED
      BY <3>2, <3>3 DEF NoBoxLost
  <2>4. QED
    BY <2>1, <2>2, <2>3 DEF Boxes
<1>9. Leases'
  <2>1. HandlesState'
    BY <1>1, <1>3, <1>4 DEF HandlesState
  <2>2. LeasesEnd'
    BY <1>1, <1>4 DEF LeasesEnd
  <2>3. CreationsState'
    BY <1>3, <1>4 DEF CreationsState
  <2>4. NoStateLost'
    BY <1>1, <1>2, <1>4 DEF NoStateLost
  <2>5. QED
    BY <2>1, <2>2, <2>3, <2>4 DEF Leases
<1>10. QED
  BY <1>6, <1>7, <1>8, <1>9 DEF InstrumentInv

(* The creation's answer reaches the caller, as a handle. *)
LEMMA CreateReturnsStep ==
  ASSUME InstrumentInv, Instrument!CreateReturns
  PROVE  InstrumentInv'
<1> USE InstrumentAssumption DEF InstrumentAssumption
<1> SUFFICES ASSUME NEW made, made = creation,
                    NEW one, one = [what |-> "instrument", row |-> made.row, ctx |-> made.ctx,
                                    state |-> made.state, live |-> TRUE]
             PROVE  InstrumentInv'
  OBVIOUS
<1> DEFINE n == Len(handles) + 1
<1>1. /\ InstrumentTypeOK /\ Matching
      /\ HandlesBox /\ OneHandleEach /\ CreationsBox /\ NoBoxLost
      /\ HandlesState /\ LeasesEnd /\ CreationsState /\ NoStateLost
  BY DEF InstrumentInv, Boxes, Leases
<1>2. /\ made # Null /\ made.at = "returned" /\ made.ctx # 0 /\ creation' = Null
      /\ handles' = Append(handles, one) /\ UNCHANGED <<contexts, states>> /\ answer' = "ok"
  BY DEF Instrument!CreateReturns, Instrument!At, Instrument!Idle, Instrument!NewHandle,
         Instrument!Ends
<1>3. made \in Creation
  BY <1>1, <1>2 DEF InstrumentTypeOK
<1>4. /\ one \in HandleType /\ one.what = "instrument" /\ one.row = made.row
      /\ one.ctx = made.ctx /\ one.state = made.state /\ one.live = TRUE
  BY <1>3 DEF HandleType, Creation, Kinds
<1>5. /\ made.ctx \in DOMAIN contexts /\ contexts[made.ctx].freed = 0
      /\ contexts[made.ctx].row = made.row
      /\ \A h \in DOMAIN handles : handles[h].ctx # made.ctx
  BY <1>1, <1>2 DEF CreationsBox, Matching
<1>6. made.state # 0 =>
        /\ made.state \in DOMAIN states /\ states[made.state].lease # "none"
        /\ \A h \in DOMAIN handles : handles[h].state # made.state
  BY <1>1, <1>2 DEF CreationsState
<1>7. /\ handles' \in Seq(HandleType) /\ n \notin DOMAIN handles /\ handles'[n] = one
      /\ \A h : h \in DOMAIN handles' <=> h \in DOMAIN handles \/ h = n
      /\ \A h \in DOMAIN handles : handles'[h] = handles[h]
  BY <1>1, <1>2, <1>4, Appended DEF InstrumentTypeOK
<1> HIDE DEF n
<1>8. InstrumentTypeOK'
  BY <1>1, <1>2, <1>7 DEF InstrumentTypeOK
<1>9. Matching'
  BY <1>1, <1>2, <1>4, <1>5, <1>7 DEF Matching, Instrument!TypesAgree
<1>10. Boxes'
  <2>1. HandlesBox'
    BY <1>1, <1>2, <1>4, <1>5, <1>7 DEF HandlesBox
  <2>2. OneHandleEach'
    BY <1>1, <1>4, <1>5, <1>7 DEF OneHandleEach
  <2>3. CreationsBox'
    BY <1>2 DEF CreationsBox
  <2>4. NoBoxLost'
    BY <1>1, <1>2, <1>4, <1>7 DEF NoBoxLost
  <2>5. QED
    BY <2>1, <2>2, <2>3, <2>4 DEF Boxes
<1>11. Leases'
  <2>1. HandlesState'
    BY <1>1, <1>2, <1>4, <1>6, <1>7 DEF HandlesState
  <2>2. LeasesEnd'
    BY <1>1, <1>2 DEF LeasesEnd
  <2>3. CreationsState'
    BY <1>2 DEF CreationsState
  <2>4. NoStateLost'
    BY <1>1, <1>2, <1>4, <1>7 DEF NoStateLost
  <2>5. QED
    BY <2>1, <2>2, <2>3, <2>4 DEF Leases
<1>12. QED
  BY <1>8, <1>9, <1>10, <1>11 DEF InstrumentInv

(* A handle gives up its reference to a callback state, which keeps its lease. *)
LEMMA ReferenceDropped ==
  ASSUME InstrumentInv, NEW s \in Nat, s # 0 => s \in DOMAIN states,
         states' = IF s = 0 THEN states ELSE [states EXCEPT ![s].handle = FALSE]
  PROVE  /\ states' \in Seq(StateType) /\ DOMAIN states' = DOMAIN states
         /\ \A t \in DOMAIN states : /\ states'[t].lease = states[t].lease
                                     /\ states'[t].released = states[t].released
<1>1. states \in Seq(StateType)
  BY DEF InstrumentInv, InstrumentTypeOK
<1>2. CASE s = 0
  BY <1>1, <1>2
<1>3. CASE s # 0
  <2> DEFINE one == [states[s] EXCEPT !.handle = FALSE]
  <2>1. states[s] \in StateType
    BY <1>1, <1>3
  <2>2. /\ one \in StateType /\ one.lease = states[s].lease
        /\ one.released = states[s].released
    BY <2>1 DEF StateType
  <2>3. states' = [states EXCEPT ![s] = one]
    BY <1>1, <1>3, <2>1 DEF StateType
  <2> HIDE DEF one
  <2>4. LET q == [states EXCEPT ![s] = one]
        IN  /\ q \in Seq(StateType) /\ DOMAIN q = DOMAIN states
            /\ q[s] = one /\ \A t \in DOMAIN states \ {s} : q[t] = states[t]
    <3>1. s \in DOMAIN states /\ one \in StateType
      BY <1>3, <2>2
    <3>2. QED
      BY <1>1, <3>1, Replaced
  <2>5. /\ states' \in Seq(StateType) /\ DOMAIN states' = DOMAIN states
        /\ states'[s] = one /\ \A t \in DOMAIN states \ {s} : states'[t] = states[t]
    BY <2>3, <2>4
  <2>6. QED
    BY <2>2, <2>5
<1>4. QED
  BY <1>2, <1>3

(* ... or as NULL; what was released stays released. *)
LEMMA CreateReturnsNullStep ==
  ASSUME InstrumentInv, Instrument!CreateReturnsNull
  PROVE  InstrumentInv'
<1> USE InstrumentAssumption DEF InstrumentAssumption
<1> SUFFICES ASSUME NEW made, made = creation PROVE InstrumentInv'
  OBVIOUS
<1>1. /\ InstrumentTypeOK /\ Matching
      /\ HandlesBox /\ OneHandleEach /\ CreationsBox /\ NoBoxLost
      /\ HandlesState /\ LeasesEnd /\ CreationsState /\ NoStateLost
  BY DEF InstrumentInv, Boxes, Leases
<1>2. /\ made # Null /\ made.at = "returned" /\ made.ctx = 0 /\ creation' = Null
      /\ states' = IF made.state = 0 THEN states ELSE [states EXCEPT ![made.state].handle = FALSE]
      /\ UNCHANGED <<handles, contexts>> /\ answer' \notin {"mismatch", "silent", "confused"}
  BY DEF Instrument!CreateReturnsNull, Instrument!At, Instrument!Idle, Instrument!Ends
<1>3. made \in Creation
  BY <1>1, <1>2 DEF InstrumentTypeOK
<1>4. made.state # 0 => made.state \in DOMAIN states /\ states[made.state].released = 1
  BY <1>1, <1>2 DEF CreationsState
<1>5. /\ states' \in Seq(StateType) /\ DOMAIN states' = DOMAIN states
      /\ \A s \in DOMAIN states : /\ states'[s].lease = states[s].lease
                                  /\ states'[s].released = states[s].released
  <2>1. made.state \in Nat
    BY <1>3 DEF Creation
  <2>2. QED
    BY <1>2, <1>4, <2>1, ReferenceDropped
<1>6. InstrumentTypeOK'
  BY <1>1, <1>2, <1>5 DEF InstrumentTypeOK
<1>7. Matching'
  BY <1>1, <1>2 DEF Matching, Instrument!TypesAgree
<1>8. Boxes'
  <2>1. HandlesBox' /\ OneHandleEach'
    BY <1>1, <1>2 DEF HandlesBox, OneHandleEach
  <2>2. CreationsBox'
    BY <1>2 DEF CreationsBox
  <2>3. \A c \in DOMAIN contexts : c # 0
    BY <1>1 DEF InstrumentTypeOK
  <2>4. NoBoxLost'
    BY <1>1, <1>2, <2>3 DEF NoBoxLost
  <2>5. QED
    BY <2>1, <2>2, <2>4 DEF Boxes
<1>9. Leases'
  <2>1. HandlesState'
    BY <1>1, <1>2, <1>5 DEF HandlesState
  <2>2. LeasesEnd'
    BY <1>1, <1>5 DEF LeasesEnd
  <2>3. CreationsState'
    BY <1>2 DEF CreationsState
  <2>4. \A s \in DOMAIN states : s # 0
    BY <1>1 DEF InstrumentTypeOK
  <2>5. NoStateLost'
    BY <1>1, <1>2, <1>4, <1>5, <2>4 DEF NoStateLost
  <2>6. QED
    BY <2>1, <2>2, <2>3, <2>5 DEF Leases
<1>10. QED
  BY <1>6, <1>7, <1>8, <1>9 DEF InstrumentInv

(* Whatever a creation under way does next. *)
LEMMA CreatingStep ==
  ASSUME InstrumentInv, Instrument!Creating
  PROVE  InstrumentInv'
<1> USE InstrumentAssumption DEF InstrumentAssumption
<1>1. ASSUME creation # Null
      PROVE  /\ creation \in Creation
             /\ creation.at # "returned" => creation.ctx = 0
  BY <1>1 DEF InstrumentInv, InstrumentTypeOK, Boxes, CreationsBox
<1>2. CASE Instrument!TakeLease
  <2>1. /\ creation # Null /\ creation.at = "entered" /\ UNCHANGED <<handles, contexts, answer>>
        /\ creation' = [creation EXCEPT !.at = "leased"]
        /\ Instrument!Lease(creation.state, "leased", 0)
    BY <1>2 DEF Instrument!TakeLease, Instrument!At, Instrument!Idle, Instrument!Moved
  <2>2. /\ creation' \in Creation /\ creation'.at = "leased" /\ creation'.ctx = 0
        /\ creation'.row = creation.row /\ creation'.state = creation.state
    BY <1>1, <2>1 DEF Creation
  <2>3. QED
    BY <2>1, <2>2, CreationMoves
<1>3. CASE Instrument!SdkFails
  <2>1. /\ creation # Null /\ creation.at = "leased" /\ UNCHANGED <<handles, contexts, answer>>
        /\ creation' = [creation EXCEPT !.at = "returned"]
        /\ Instrument!Lease(creation.state, "none", 1)
    BY <1>3 DEF Instrument!SdkFails, Instrument!At, Instrument!Idle, Instrument!Moved
  <2>2. /\ creation' \in Creation /\ creation'.at = "returned" /\ creation'.ctx = 0
        /\ creation'.row = creation.row /\ creation'.state = creation.state
    BY <1>1, <2>1 DEF Creation
  <2>3. QED
    BY <2>1, <2>2, CreationMoves
<1>4. CASE Instrument!SdkBuilds
  <2>1. /\ creation # Null /\ creation.at = "leased" /\ UNCHANGED <<handles, answer>>
        /\ creation' = [creation EXCEPT !.at = "returned", !.ctx = Len(contexts) + 1]
        /\ contexts' = Append(contexts, [what |-> "instrument", row |-> creation.row,
                                         freed |-> 0])
        /\ Instrument!Lease(creation.state, "closure", 0)
    BY <1>4 DEF Instrument!SdkBuilds, Instrument!At, Instrument!Idle, Instrument!NewContext,
                Instrument!NextContext
  <2>2. Len(contexts) + 1 \in Nat /\ Len(contexts) + 1 # 0
    BY DEF InstrumentInv, InstrumentTypeOK
  <2>3. /\ creation' \in Creation /\ creation'.at = "returned"
        /\ creation'.ctx = Len(contexts) + 1
        /\ creation'.row = creation.row /\ creation'.state = creation.state
    BY <1>1, <2>1, <2>2 DEF Creation
  <2>4. QED
    BY <2>1, <2>2, <2>3, CreationMoves
<1>5. QED
  BY <1>2, <1>3, <1>4, CreateReturnsStep, CreateReturnsNullStep DEF Instrument!Creating

(* A binding makes a box and a handle: an instrument that can be bound always matches. *)
LEMMA BindStep ==
  ASSUME InstrumentInv, NEW i \in DOMAIN handles, Instrument!bind(i)
  PROVE  InstrumentInv'
<1> SUFFICES ASSUME NEW row, row = handles[i].row PROVE InstrumentInv'
  OBVIOUS
<1>1. InstrumentTypeOK /\ Matching
  BY DEF InstrumentInv
<1>2. /\ creation = Null /\ UNCHANGED <<creation, states>>
      /\ handles[i].ctx # 0 /\ Instrument!BoundRecord(row) # Null
  BY DEF Instrument!bind, Instrument!Idle, Instrument!Bindable
<1>3. contexts[handles[i].ctx].row = row /\ row \in Instrument!Rows \cup {Null}
  <2>1. handles[i] \in HandleType
    BY <1>1 DEF InstrumentTypeOK
  <2>2. QED
    BY <1>1, <1>2, <2>1 DEF Matching, HandleType
<1>4. Instrument!Variant(contexts[handles[i].ctx].row) \in Instrument!BindVariants
  BY <1>2, <1>3, TablesAgree
<1>5. /\ contexts' = Append(contexts, [what |-> "bound", row |-> row, freed |-> 0])
      /\ handles' = Append(handles, [what |-> "bound", row |-> row, ctx |-> Len(contexts) + 1,
                                     state |-> 0, live |-> TRUE])
      /\ answer' = "ok"
  BY <1>4 DEF Instrument!bind, Instrument!NewContext, Instrument!NewHandle,
              Instrument!NextContext, Instrument!Ends
<1>6. Len(contexts) + 1 \in Nat
  BY <1>1 DEF InstrumentTypeOK
<1>7. QED
  BY <1>2, <1>3, <1>5, <1>6, HandleMade DEF Kinds

(* A binding that reports an error frees the box it was given. *)
LEMMA BindFailsStep ==
  ASSUME InstrumentInv, NEW i \in DOMAIN handles, Instrument!bind_fails_with_context(i)
  PROVE  InstrumentInv'
<1> SUFFICES ASSUME NEW box, box = [what |-> "bound", row |-> handles[i].row, freed |-> 1]
             PROVE  InstrumentInv'
  OBVIOUS
<1> DEFINE n == Len(contexts) + 1
<1>1. /\ InstrumentTypeOK /\ Matching
      /\ HandlesBox /\ OneHandleEach /\ CreationsBox /\ NoBoxLost /\ Leases
  BY DEF InstrumentInv, Boxes
<1>2. /\ creation = Null /\ UNCHANGED <<creation, states, handles>> /\ answer' = "failed"
      /\ contexts' = Append(contexts, box)
  BY DEF Instrument!bind_fails_with_context, Instrument!Idle, Instrument!Ends
<1>3. box \in ContextType /\ box.freed = 1
  <2>1. handles[i] \in HandleType
    BY <1>1 DEF InstrumentTypeOK
  <2>2. QED
    BY <2>1 DEF ContextType, HandleType, Kinds
<1>4. /\ contexts' \in Seq(ContextType) /\ contexts'[n] = box
      /\ \A c : c \in DOMAIN contexts' <=> c \in DOMAIN contexts \/ c = n
      /\ \A c \in DOMAIN contexts : contexts'[c] = contexts[c]
  BY <1>1, <1>2, <1>3, Appended DEF InstrumentTypeOK
<1> HIDE DEF n
<1>5. InstrumentTypeOK'
  BY <1>1, <1>2, <1>4 DEF InstrumentTypeOK
<1>6. Matching'
  <2>1. \A h \in DOMAIN handles : handles[h].ctx # 0 => handles[h].ctx \in DOMAIN contexts
    BY <1>1 DEF HandlesBox
  <2>2. QED
    BY <1>1, <1>2, <1>4, <2>1 DEF Matching, Instrument!TypesAgree
<1>7. HandlesBox' /\ OneHandleEach' /\ CreationsBox'
  BY <1>1, <1>2, <1>4 DEF HandlesBox, OneHandleEach, CreationsBox
<1>8. NoBoxLost'
  BY <1>1, <1>2, <1>3, <1>4 DEF NoBoxLost
<1>9. Leases'
  BY <1>1, <1>2 DEF Leases, HandlesState, LeasesEnd, CreationsState, NoStateLost
<1>10. QED
  BY <1>5, <1>6, <1>7, <1>8, <1>9 DEF InstrumentInv, Boxes

(* destroy frees the handle's box, which it had not been, and drops its reference. *)
LEMMA DestroyHandleStep ==
  ASSUME InstrumentInv, NEW g \in DOMAIN handles, Instrument!destroy(g)
  PROVE  InstrumentInv'
<1> SUFFICES ASSUME NEW ctx, ctx = handles[g].ctx, NEW state, state = handles[g].state,
                    NEW one, one = [handles[g] EXCEPT !.live = FALSE],
                    NEW box, box = [contexts[ctx] EXCEPT !.freed = 1]
             PROVE  InstrumentInv'
  OBVIOUS
<1>1. /\ InstrumentTypeOK /\ Matching
      /\ HandlesBox /\ OneHandleEach /\ CreationsBox /\ NoBoxLost
      /\ HandlesState /\ LeasesEnd /\ NoStateLost
  BY DEF InstrumentInv, Boxes, Leases
<1>2. /\ creation = Null /\ UNCHANGED <<creation, answer>> /\ handles[g].live
      /\ handles' = [handles EXCEPT ![g].live = FALSE]
      /\ contexts' = IF ctx = 0 THEN contexts ELSE [contexts EXCEPT ![ctx].freed = @ + 1]
      /\ states' = IF state = 0 THEN states ELSE [states EXCEPT ![state].handle = FALSE]
  BY DEF Instrument!destroy, Instrument!Idle, Instrument!Freed
<1>3. /\ handles[g] \in HandleType /\ ctx \in Nat /\ state \in Nat
      /\ ctx # 0 => ctx \in DOMAIN contexts /\ contexts[ctx].freed = 0
      /\ state # 0 => state \in DOMAIN states
  <2>1. handles[g] \in HandleType
    BY <1>1 DEF InstrumentTypeOK
  <2>2. ctx # 0 => ctx \in DOMAIN contexts /\ contexts[ctx].freed = 0
    BY <1>1, <1>2 DEF HandlesBox
  <2>3. state # 0 => state \in DOMAIN states
    BY <1>1 DEF HandlesState
  <2>4. QED
    BY <2>1, <2>2, <2>3 DEF HandleType
<1>4. /\ one \in HandleType /\ one.what = handles[g].what /\ one.row = handles[g].row
      /\ one.ctx = ctx /\ one.state = state /\ one.live = FALSE
  BY <1>3 DEF HandleType
<1>5. /\ handles' \in Seq(HandleType) /\ DOMAIN handles' = DOMAIN handles /\ handles'[g] = one
      /\ \A h \in DOMAIN handles \ {g} : handles'[h] = handles[h]
  <2>1. handles' = [handles EXCEPT ![g] = one]
    BY <1>1, <1>2 DEF InstrumentTypeOK
  <2>2. QED
    BY <1>1, <1>4, <2>1, Replaced DEF InstrumentTypeOK
<1>6. \A h \in DOMAIN handles :
        /\ handles'[h].what = handles[h].what /\ handles'[h].row = handles[h].row
        /\ handles'[h].ctx = handles[h].ctx /\ handles'[h].state = handles[h].state
        /\ handles'[h].live = (handles[h].live /\ h # g)
  <2>1. \A h \in DOMAIN handles : handles[h].live \in BOOLEAN
    <3>1. \A h \in DOMAIN handles : handles[h] \in HandleType
      BY <1>1 DEF InstrumentTypeOK
    <3>2. QED
      BY <3>1 DEF HandleType
  <2>2. QED
    BY <1>4, <1>5, <2>1
<1>7. /\ contexts' \in Seq(ContextType) /\ DOMAIN contexts' = DOMAIN contexts
      /\ \A c \in DOMAIN contexts :
           /\ contexts'[c].row = contexts[c].row
           /\ contexts'[c].freed = IF c = ctx THEN 1 ELSE contexts[c].freed
  <2>1. CASE ctx = 0
    BY <1>1, <1>2, <2>1 DEF InstrumentTypeOK
  <2>2. CASE ctx # 0
    <3>1. contexts[ctx] \in ContextType /\ contexts[ctx].freed + 1 = 1
      BY <1>1, <1>3, <2>2 DEF InstrumentTypeOK
    <3>2. box \in ContextType /\ box.row = contexts[ctx].row /\ box.freed = 1
      BY <3>1 DEF ContextType
    <3>3. contexts' = [contexts EXCEPT ![ctx] = box]
      BY <1>1, <1>2, <1>3, <2>2, <3>1 DEF InstrumentTypeOK
    <3>4. /\ contexts' \in Seq(ContextType) /\ DOMAIN contexts' = DOMAIN contexts
          /\ contexts'[ctx] = box
          /\ \A c \in DOMAIN contexts \ {ctx} : contexts'[c] = contexts[c]
      <4>1. contexts \in Seq(ContextType) /\ ctx \in DOMAIN contexts /\ box \in ContextType
        BY <1>1, <1>3, <2>2, <3>2 DEF InstrumentTypeOK
      <4>2. QED
        BY <3>3, <4>1, Replaced
    <3>5. QED
      BY <3>2, <3>4
  <2>3. QED
    BY <2>1, <2>2
<1>8. /\ states' \in Seq(StateType) /\ DOMAIN states' = DOMAIN states
      /\ \A s \in DOMAIN states : /\ states'[s].lease = states[s].lease
                                  /\ states'[s].released = states[s].released
  BY <1>2, <1>3, ReferenceDropped
<1>9. InstrumentTypeOK'
  BY <1>1, <1>2, <1>5, <1>7, <1>8 DEF InstrumentTypeOK
<1>10. Matching'
  <2>1. \A h \in DOMAIN handles : handles[h].ctx # 0 => handles[h].ctx \in DOMAIN contexts
    BY <1>1 DEF HandlesBox
  <2>2. QED
    BY <1>1, <1>2, <1>5, <1>6, <1>7, <2>1 DEF Matching, Instrument!TypesAgree
<1>11. Boxes'
  <2>1. HandlesBox'
    <3>1. ASSUME NEW h \in DOMAIN handles, handles[h].ctx # 0
          PROVE  /\ handles'[h].ctx \in DOMAIN contexts'
                 /\ contexts'[handles'[h].ctx].freed = IF handles'[h].live THEN 0 ELSE 1
      <4>1. /\ handles[h].ctx \in DOMAIN contexts
            /\ contexts[handles[h].ctx].freed = IF handles[h].live THEN 0 ELSE 1
        BY <1>1, <3>1 DEF HandlesBox
      <4>2. handles[h].ctx = ctx <=> h = g
        BY <1>1, <3>1 DEF OneHandleEach
      <4>3. handles'[h].ctx = handles[h].ctx /\ handles'[h].live = (handles[h].live /\ h # g)
        BY <1>6
      <4>4. /\ DOMAIN contexts' = DOMAIN contexts
            /\ contexts'[handles[h].ctx].freed =
                 IF handles[h].ctx = ctx THEN 1 ELSE contexts[handles[h].ctx].freed
        BY <1>7, <4>1
      <4>5. QED
        BY <4>1, <4>2, <4>3, <4>4
    <3>2. QED
      BY <1>5, <1>6, <3>1 DEF HandlesBox
  <2>2. OneHandleEach'
    BY <1>1, <1>5, <1>6 DEF OneHandleEach
  <2>3. CreationsBox'
    BY <1>2 DEF CreationsBox
  <2>4. NoBoxLost'
    <3>1. ASSUME NEW c \in DOMAIN contexts', \A h \in DOMAIN handles' : handles'[h].ctx # c
          PROVE  contexts'[c].freed = 1
      <4>1. \A h \in DOMAIN handles : handles[h].ctx # c
        BY <1>5, <1>6, <3>1
      <4>2. QED
        BY <1>1, <1>2, <1>7, <4>1 DEF NoBoxLost
    <3>2. QED
      BY <3>1 DEF NoBoxLost
  <2>5. QED
    BY <2>1, <2>2, <2>3, <2>4 DEF Boxes
<1>12. Leases'
  <2>1. HandlesState'
    <3>1. ASSUME NEW h \in DOMAIN handles, handles[h].state # 0
          PROVE  /\ handles'[h].state \in DOMAIN states'
                 /\ handles'[h].ctx # 0 =>
                      \/ states'[handles'[h].state].lease # "none"
                      \/ states'[handles'[h].state].released = 1
      <4>1. /\ handles[h].state \in DOMAIN states
            /\ handles[h].ctx # 0 =>
                 \/ states[handles[h].state].lease # "none"
                 \/ states[handles[h].state].released = 1
        BY <1>1, <3>1 DEF HandlesState
      <4>2. QED
        BY <1>6, <1>8, <4>1
    <3>2. QED
      BY <1>5, <1>6, <3>1 DEF HandlesState
  <2>2. LeasesEnd'
    BY <1>1, <1>8 DEF LeasesEnd
  <2>3. CreationsState'
    BY <1>2 DEF CreationsState
  <2>4. NoStateLost'
    BY <1>1, <1>2, <1>5, <1>6, <1>8 DEF NoStateLost
  <2>5. QED
    BY <2>1, <2>2, <2>3, <2>4 DEF Leases
<1>13. QED
  BY <1>9, <1>10, <1>11, <1>12 DEF InstrumentInv

(* The pipeline releases the closures it drops, each of which had not been. *)
LEMMA DropPipelineStep ==
  ASSUME InstrumentInv, Instrument!DropPipeline
  PROVE  InstrumentInv'
<1>1. /\ InstrumentTypeOK /\ Matching /\ Boxes /\ HandlesState /\ LeasesEnd /\ NoStateLost
  BY DEF InstrumentInv, Leases
<1>2. /\ creation = Null /\ UNCHANGED <<handles, contexts, creation, answer>>
      /\ states' = [s \in DOMAIN states |->
                     IF states[s].lease = "closure"
                     THEN [states[s] EXCEPT !.lease = "none", !.released = @ + 1]
                     ELSE states[s]]
  BY DEF Instrument!DropPipeline, Instrument!Idle
<1>3. DOMAIN states' = DOMAIN states
  BY <1>2
<1>4. ASSUME NEW s \in DOMAIN states
      PROVE  /\ states'[s] \in StateType
             /\ states[s].lease = "closure" =>
                  states'[s].lease = "none" /\ states'[s].released = 1
             /\ states[s].lease # "closure" => states'[s] = states[s]
  <2>1. states[s] \in StateType
    BY <1>1 DEF InstrumentTypeOK
  <2>2. CASE states[s].lease = "closure"
    <3>1. states[s].released = 0
      <4>1. /\ states[s].released = 0 \/ states[s].released = 1
            /\ states[s].released = 1 => states[s].lease = "none"
        BY <1>1 DEF LeasesEnd
      <4>2. QED
        BY <2>2, <4>1
    <3>2. states'[s] = [states[s] EXCEPT !.lease = "none", !.released = @ + 1]
      BY <1>2, <2>2
    <3>3. states'[s] = [states[s] EXCEPT !.lease = "none", !.released = 1]
      BY <2>1, <3>1, <3>2 DEF StateType
    <3>4. ASSUME NEW token \in StateType
          PROVE  LET to == [token EXCEPT !.lease = "none", !.released = 1]
                 IN  to \in StateType /\ to.lease = "none" /\ to.released = 1
      BY DEF StateType
    <3>5. states'[s] \in StateType /\ states'[s].lease = "none" /\ states'[s].released = 1
      BY <2>1, <3>3, <3>4
    <3>6. QED
      BY <2>2, <3>5
  <2>3. CASE states[s].lease # "closure"
    BY <1>2, <2>1, <2>3
  <2>4. QED
    BY <2>2, <2>3
<1>5. states' \in Seq(StateType)
  <2>1. Len(states) \in Nat /\ DOMAIN states = 1..Len(states)
    BY <1>1 DEF InstrumentTypeOK
  <2>2. states' \in [1..Len(states) -> StateType]
    BY <1>2, <1>3, <1>4, <2>1
  <2>3. QED
    BY <2>1, <2>2
<1>6. InstrumentTypeOK'
  BY <1>1, <1>2, <1>5 DEF InstrumentTypeOK
<1>7. Matching'
  BY <1>1, <1>2 DEF Matching, Instrument!TypesAgree
<1>8. Boxes'
  BY <1>1, <1>2 DEF Boxes, HandlesBox, OneHandleEach, CreationsBox, NoBoxLost
<1>9. HandlesState'
  BY <1>1, <1>2, <1>3, <1>4 DEF HandlesState
<1>10. LeasesEnd'
  BY <1>1, <1>3, <1>4 DEF LeasesEnd
<1>11. CreationsState'
  BY <1>2 DEF CreationsState
<1>12. NoStateLost'
  <2>1. ASSUME NEW s \in DOMAIN states, states[s].released = 1
        PROVE  states'[s].released = 1
    BY <1>4, <2>1
  <2>2. QED
    BY <1>1, <1>2, <1>3, <2>1 DEF NoStateLost
<1>13. QED
  BY <1>6, <1>7, <1>8, <1>9, <1>10, <1>11, <1>12 DEF InstrumentInv, Leases

(* Measurements and collections only answer, and never that types do not match. *)
LEMMA MeasureStep ==
  ASSUME InstrumentInv,
         \/ \E h \in DOMAIN handles, readable \in BOOLEAN : Instrument!record(h, readable)
         \/ \E h \in DOMAIN handles : Instrument!bound_record(h)
         \/ Instrument!Collect
  PROVE  InstrumentInv'
<1>1. InstrumentTypeOK /\ Matching
  BY DEF InstrumentInv
<1>2. ASSUME NEW h \in DOMAIN handles, NEW readable \in BOOLEAN, Instrument!record(h, readable)
      PROVE  InstrumentInv'
  <2>1. /\ UNCHANGED <<handles, contexts, states, creation>>
        /\ answer' = IF handles[h].ctx = 0 THEN "ok"
                     ELSE IF ~readable THEN "refused"
                     ELSE IF Instrument!Variant(contexts[handles[h].ctx].row)
                               \in Instrument!RecordVariants[handles[h].row.record]
                     THEN "ok" ELSE "mismatch"
        /\ handles[h].row \in Instrument!SyncRows
    BY <1>2 DEF Instrument!record, Instrument!Ends
  <2>2. handles[h].ctx # 0 => Instrument!Variant(contexts[handles[h].ctx].row)
                                \in Instrument!RecordVariants[handles[h].row.record]
    BY <1>1, <2>1, TablesAgree DEF Matching
  <2>3. answer' \notin {"mismatch", "silent", "confused"}
    BY <2>1, <2>2
  <2>4. QED
    BY <2>1, <2>3, AnswerStep
<1>3. ASSUME NEW h \in DOMAIN handles, Instrument!bound_record(h)
      PROVE  InstrumentInv'
  <2>1. /\ UNCHANGED <<handles, contexts, states, creation>>
        /\ answer' = IF \/ handles[h].ctx = 0
                        \/ Instrument!Variant(contexts[handles[h].ctx].row) \in
                             Instrument!BoundRecordVariants[Instrument!BoundRecord(handles[h].row)]
                     THEN "ok" ELSE "mismatch"
        /\ handles[h].what = "bound"
    BY <1>3 DEF Instrument!bound_record, Instrument!Ends, Instrument!IsA
  <2>2. handles[h].ctx # 0 =>
          Instrument!Variant(contexts[handles[h].ctx].row) \in
            Instrument!BoundRecordVariants[Instrument!BoundRecord(handles[h].row)]
    BY <1>1, <2>1, TablesAgree DEF Matching
  <2>3. answer' \notin {"mismatch", "silent", "confused"}
    BY <2>1, <2>2
  <2>4. QED
    BY <2>1, <2>3, AnswerStep
<1>4. ASSUME NEW s \in DOMAIN states, NEW readable \in BOOLEAN, Instrument!collect(s, readable)
      PROVE  InstrumentInv'
  <2> SUFFICES ASSUME NEW row, row = states[s].row PROVE InstrumentInv'
    OBVIOUS
  <2>1. /\ UNCHANGED <<handles, contexts, states, creation>>
        /\ answer' = CASE row.trampoline # row.callback -> "silent"
                       [] ~readable -> "refused"
                       [] row.trampoline # Instrument!ObserverContext(Instrument!Variant(row))
                            -> "confused"
                       [] OTHER -> "ok"
    BY <1>4 DEF Instrument!collect, Instrument!Ends
  <2>2. row \in Instrument!ObservableRows
    <3>1. states[s] \in StateType
      BY <1>1 DEF InstrumentTypeOK
    <3>2. QED
      BY <3>1 DEF StateType
  <2>3. /\ row.trampoline = row.callback
        /\ row.trampoline = Instrument!ObserverContext(Instrument!Variant(row))
    BY <2>2, TablesAgree
  <2>4. answer' \notin {"mismatch", "silent", "confused"}
    BY <2>1, <2>3
  <2>5. QED
    BY <2>1, <2>4, AnswerStep
<1>5. QED
  BY <1>2, <1>3, <1>4 DEF Instrument!Collect

(* A meter or an instrument is asked for: refused, without an implementation or over to
   the SDK. *)
LEMMA MeterStep ==
  ASSUME InstrumentInv, Instrument!Meter
  PROVE  InstrumentInv'
<1>1. Len(contexts) + 1 \in Nat
  BY DEF InstrumentInv, InstrumentTypeOK
<1>2. CASE Instrument!get_meter_noop
  BY <1>2, HandleMade
  DEF Instrument!get_meter_noop, Instrument!Idle, Instrument!NewHandle, Instrument!Ends, Kinds
<1>3. ASSUME NEW attributes \in BOOLEAN, Instrument!get_meter(attributes)
      PROVE  InstrumentInv'
  BY <1>1, <1>3, HandleMade
  DEF Instrument!get_meter, Instrument!Idle, Instrument!NewHandle, Instrument!NewContext,
      Instrument!NextContext, Instrument!Ends, Kinds
<1>4. ASSUME NEW attributes \in BOOLEAN, Instrument!get_meter_fails(attributes)
      PROVE  InstrumentInv'
  BY <1>4, AnswerStep DEF Instrument!get_meter_fails, Instrument!Ends
<1>5. QED
  BY <1>2, <1>3, <1>4 DEF Instrument!Meter

(* An instrument of a meter without an implementation. *)
LEMMA CreateNoopStep ==
  ASSUME InstrumentInv, NEW i \in DOMAIN handles, NEW row \in Instrument!Rows,
         Instrument!create_noop(i, row)
  PROVE  InstrumentInv'
<1> SUFFICES ASSUME NEW state, state = Instrument!StateOf(row)
             PROVE  InstrumentInv'
  OBVIOUS
<1>1. /\ creation = Null /\ UNCHANGED <<contexts, creation>> /\ answer' = "ok"
      /\ handles' = Append(handles, [what |-> "instrument", row |-> row, ctx |-> 0,
                                     state |-> state, live |-> TRUE])
      /\ states' = IF row \in Instrument!ObservableRows
                   THEN Append(states, [row |-> row, handle |-> TRUE, lease |-> "none",
                                        released |-> 0])
                   ELSE states
  BY DEF Instrument!create_noop, Instrument!Idle, Instrument!NewState, Instrument!Observable,
         Instrument!NewHandle, Instrument!Ends
<1>2. Len(states) + 1 \in Nat
  BY DEF InstrumentInv, InstrumentTypeOK
<1>3. state = IF row \in Instrument!ObservableRows THEN Len(states) + 1 ELSE 0
  BY DEF Instrument!StateOf, Instrument!Observable
<1>4. QED
  BY <1>1, <1>2, <1>3, HandleMade DEF Kinds

(* Every step keeps the invariant, steps of other parts included. *)
LEMMA InstrumentStepInv ==
  ASSUME InstrumentInv, [Instrument!Next]_instrumentVars
  PROVE  InstrumentInv'
<1>1. CASE UNCHANGED instrumentVars
  <2>1. InstrumentTypeOK' /\ Matching'
    BY <1>1 DEF instrumentVars, InstrumentInv, InstrumentTypeOK, Matching, Instrument!TypesAgree
  <2>2. Boxes'
    BY <1>1 DEF instrumentVars, InstrumentInv, Boxes, HandlesBox, OneHandleEach, CreationsBox,
                NoBoxLost
  <2>3. Leases'
    BY <1>1 DEF instrumentVars, InstrumentInv, Leases, HandlesState, LeasesEnd, CreationsState,
                NoStateLost
  <2>4. QED
    BY <2>1, <2>2, <2>3 DEF InstrumentInv
<1>2. CASE Instrument!Create
  <2>1. ASSUME NEW i \in DOMAIN handles, NEW row \in Instrument!Rows,
               Instrument!create_refused(i, row)
        PROVE  InstrumentInv'
    BY <2>1, AnswerStep DEF Instrument!create_refused, Instrument!Ends
  <2>2. QED
    BY <1>2, <2>1, CreateStep, CreateNoopStep DEF Instrument!Create
<1>3. CASE Instrument!Use
  <2>1. ASSUME NEW h \in DOMAIN handles, Instrument!bind_noop(h)
        PROVE  InstrumentInv'
    <3>1. handles[h] \in HandleType
      BY DEF InstrumentInv, InstrumentTypeOK
    <3>2. handles[h].row \in Instrument!Rows \cup {Null}
      BY <3>1 DEF HandleType
    <3>3. /\ creation = Null /\ UNCHANGED <<contexts, states, creation>> /\ answer' = "ok"
          /\ Instrument!BoundRecord(handles[h].row) # Null
          /\ handles' = Append(handles, [what |-> "bound", row |-> handles[h].row, ctx |-> 0,
                                         state |-> 0, live |-> TRUE])
      BY <2>1 DEF Instrument!bind_noop, Instrument!Idle, Instrument!NewHandle, Instrument!Ends
    <3>4. QED
      BY <3>2, <3>3, HandleMade DEF Kinds
  <2>2. ASSUME NEW h \in DOMAIN handles, Instrument!bind_unsupported(h)
        PROVE  InstrumentInv'
    BY <2>2, AnswerStep DEF Instrument!bind_unsupported, Instrument!Ends
  <2>3. ASSUME NEW h \in DOMAIN handles,
               Instrument!record(h, TRUE) \/ Instrument!record(h, FALSE)
        PROVE  InstrumentInv'
    BY <2>3, MeasureStep
  <2>4. ASSUME NEW h \in DOMAIN handles, Instrument!bound_record(h)
        PROVE  InstrumentInv'
    BY <2>4, MeasureStep
  <2>5. QED
    BY <1>3, <2>1, <2>2, <2>3, <2>4, BindStep, BindFailsStep, DestroyHandleStep
    DEF Instrument!Use
<1>4. QED
  BY <1>1, <1>2, <1>3, MeterStep, CreatingStep, MeasureStep, DropPipelineStep
  DEF Instrument!Next

(* The invariant holds while a behaviour is of instruments. *)
LEMMA InstrumentInvHolds == DataPathSpec => [](part = "instruments" => InstrumentInv)
<1>1. DataPathInit => (part = "instruments" => InstrumentInv)
  <2>1. Instrument!Init => InstrumentInv
    BY DEF Instrument!Init, InstrumentInv, InstrumentTypeOK, Matching, Instrument!TypesAgree,
           Boxes, HandlesBox, OneHandleEach, CreationsBox, NoBoxLost,
           Leases, HandlesState, LeasesEnd, CreationsState, NoStateLost
  <2>2. QED
    BY <2>1 DEF DataPathInit
<1>2. (part = "instruments" => InstrumentInv) /\ [DataPathNext]_<<OthersThanPipeline, vars>>
        => (part = "instruments" => InstrumentInv)'
  BY PartSteps, InstrumentStepInv
<1>3. QED
  BY <1>1, <1>2, PTL DEF DataPathSpec

(* What the invariant says of boxes and callback states between calls. *)
LEMMA InstrumentPromises ==
  InstrumentInv => Instrument!StateReleasedOnce /\ Instrument!ContextsHaveOneOwner
<1> SUFFICES ASSUME InstrumentInv
             PROVE  Instrument!StateReleasedOnce /\ Instrument!ContextsHaveOneOwner
  OBVIOUS
<1>1. /\ HandlesBox /\ OneHandleEach /\ NoBoxLost
      /\ HandlesState /\ LeasesEnd /\ NoStateLost
  BY DEF InstrumentInv, Boxes, Leases
<1>2. Instrument!StateReleasedOnce
  <2> SUFFICES ASSUME NEW s \in DOMAIN states
               PROVE  /\ states[s].released = 1
                           <=> /\ states[s].lease # "none" \/ states[s].released > 0
                               /\ states[s].lease = "none"
                      /\ states[s].released <= 1
                      /\ \A h \in DOMAIN handles :
                           handles[h].state = s /\ handles[h].ctx # 0 =>
                             states[s].lease # "none" \/ states[s].released > 0
                      /\ creation = Null /\ ~(\E h \in DOMAIN handles : handles[h].state = s)
                           => states[s].released = 1
    BY DEF Instrument!StateReleasedOnce, Instrument!Idle
  <2>1. /\ states[s].released = 0 \/ states[s].released = 1
        /\ states[s].released = 1 => states[s].lease = "none"
    BY <1>1 DEF LeasesEnd
  <2>2. s # 0
    BY DEF InstrumentInv, InstrumentTypeOK
  <2>3. \A h \in DOMAIN handles : handles[h].state = s /\ handles[h].ctx # 0 =>
          states[s].lease # "none" \/ states[s].released = 1
    BY <1>1, <2>2 DEF HandlesState
  <2>4. creation = Null /\ ~(\E h \in DOMAIN handles : handles[h].state = s)
          => states[s].released = 1
    BY <1>1 DEF NoStateLost
  <2>5. QED
    BY <2>1, <2>3, <2>4
<1>3. ASSUME creation = Null, NEW c \in DOMAIN contexts,
             NEW owners, owners = {h \in DOMAIN handles : handles[h].live /\ handles[h].ctx = c}
      PROVE  contexts[c].freed <= 1 /\ Cardinality(owners) = 1 - contexts[c].freed
  <2>1. c # 0
    BY DEF InstrumentInv, InstrumentTypeOK
  <2>2. CASE \E h \in DOMAIN handles : handles[h].live /\ handles[h].ctx = c
    <3>1. PICK h \in DOMAIN handles : handles[h].live /\ handles[h].ctx = c
      BY <2>2
    <3>2. contexts[c].freed = 0
      BY <1>1, <2>1, <3>1 DEF HandlesBox
    <3>3. \A g : g \in owners <=> g = h
      BY <1>1, <1>3, <2>1, <3>1 DEF OneHandleEach
    <3>4. owners = {h}
      BY <3>3, Zenon
    <3>5. Cardinality(owners) = 1
      BY <3>4, FS_Singleton
    <3>6. QED
      BY <3>2, <3>5
  <2>3. CASE \A h \in DOMAIN handles : ~(handles[h].live /\ handles[h].ctx = c)
    <3>1. contexts[c].freed = 1
      BY <1>1, <1>3, <2>1, <2>3 DEF HandlesBox, NoBoxLost
    <3>2. owners = {}
      BY <1>3, <2>3
    <3>3. QED
      BY <3>1, <3>2, FS_EmptySet
  <2>4. QED
    BY <2>2, <2>3
<1>4. ASSUME creation = Null, NEW c \in DOMAIN contexts
      PROVE  /\ contexts[c].freed <= 1
             /\ Cardinality({h \in DOMAIN handles : handles[h].live /\ handles[h].ctx = c})
                  = 1 - contexts[c].freed
  BY <1>3, <1>4
<1>5. Instrument!ContextsHaveOneOwner
  <2>1. \A S : Instrument!Cardinality(S) = Cardinality(S)
    BY DEF Instrument!Cardinality, Cardinality
  <2>2. QED
    BY <1>4, <2>1, Zenon DEF Instrument!ContextsHaveOneOwner, Instrument!Idle
<1>6. QED
  BY <1>2, <1>5

(* The tables of both libraries agree: no typed call is told that its number does not match,
   no callback is passed over and no observer is read as one of another number
   (metrics_vtable.rs:609, 662, metrics.rs:1133). *)
THEOREM InstrumentTypesAgreeHolds == DataPathSpec => []InstrumentTypesAgree
<1>1. (part = "instruments" => InstrumentInv) => InstrumentTypesAgree
  BY DEF InstrumentInv, Matching, InstrumentTypesAgree
<1>2. QED
  BY <1>1, InstrumentInvHolds, PTL

(* However many instruments there are and whichever step of a creation or binding fails, a
   callback state handed to the SDK is released once, and a box of the SDK belongs to one
   live handle or was freed once (metrics.rs:846-851, metrics_vtable.rs:308-311). *)
THEOREM InstrumentsOwnedOnceHolds == DataPathSpec => []InstrumentsOwnedOnce
<1>1. (part = "instruments" => InstrumentInv) => InstrumentsOwnedOnce
  BY InstrumentPromises DEF InstrumentsOwnedOnce
<1>2. QED
  BY <1>1, InstrumentInvHolds, PTL
--------------------------------------------------------------------------------
(* Batch views, for any scopes and records. *)

Vecs == {"scopes", "scopeAttributes", "records", "recordAttributes", "events"}
Item == Nat \cup ValueViews \cup AttributeViews \cup RecordViews

(* Each Vec has a buffer of its own; the other buffers stay where they are. *)
Sound(s) ==
  /\ s \in [heap : Seq(Seq(Item)), vec : [Vecs -> Nat]]
  /\ \A q \in Vecs : s.vec[q] \in DOMAIN s.heap
  /\ \A p, q \in Vecs : s.vec[p] = s.vec[q] => p = q
Stable(s, b) == b \in DOMAIN s.heap /\ \A q \in Vecs : s.vec[q] # b
Rest(s, t) == \A b : Stable(s, b) => Stable(t, b) /\ t.heap[b] = s.heap[b]
Buffer(s, q) == s.heap[s.vec[q]]

(* What an owner's attributes and events are, once allocated. *)
AttributesOf(s, b, owner, array) ==
  /\ b \in Nat /\ Stable(s, b)
  /\ \E value \in Pointers \cup {Null} :
       /\ s.heap[b] = <<[of |-> owner, value |-> value]>>
       /\ array => /\ value \in Pointers /\ Stable(s, value.to) /\ value.at = 1
                   /\ s.heap[value.to] = <<[of |-> owner]>>
EventsOf(s, b, owner) ==
  b \in Nat /\ Stable(s, b) /\ s.heap[b] = <<Export!NoView(owner)>>

ScopesKept(s, met) ==
  /\ Len(Buffer(s, "scopes")) = Len(met) /\ Len(Buffer(s, "scopeAttributes")) = Len(met)
  /\ \A j \in DOMAIN met : /\ Buffer(s, "scopes")[j] = Export!NoView(met[j])
                           /\ AttributesOf(s, Buffer(s, "scopeAttributes")[j], met[j], FALSE)
RecordsKept(s, n) ==
  /\ Len(Buffer(s, "records")) = n /\ Len(Buffer(s, "recordAttributes")) = n
  /\ kind = "spans" => Len(Buffer(s, "events")) = n
  /\ \A i \in 1..n :
       /\ Buffer(s, "records")[i] = Export!NoView(i)
       /\ AttributesOf(s, Buffer(s, "recordAttributes")[i], i, records[i].array)
       /\ kind = "spans" => EventsOf(s, Buffer(s, "events")[i], i)

(* A list gets an entry. *)
EndsIn(a, b, n, one) ==
  Len(b) = n + 1 /\ b[n + 1] = one /\ \A i \in 1..n : b[i] = a[i]
LEMMA AppendedLast ==
  ASSUME NEW R, NEW a \in Seq(R), NEW n, Len(a) = n, NEW one \in R
  PROVE  EndsIn(a, Append(a, one), n, one)
  BY DEF EndsIn

(* A buffer is allocated. *)
LEMMA Allocated ==
  ASSUME NEW s, Sound(s), NEW c \in Seq(Item), NEW t, t = Export!Allocate(s, c)
  PROVE  /\ Sound(t) /\ Rest(s, t) /\ \A q \in Vecs : Buffer(t, q) = Buffer(s, q)
         /\ Export!Newest(t) \in Nat /\ Stable(t, Export!Newest(t))
         /\ t.heap[Export!Newest(t)] = c
<1> DEFINE b == Len(s.heap) + 1
<1>1. /\ s \in [heap : Seq(Seq(Item)), vec : [Vecs -> Nat]]
      /\ \A q \in Vecs : s.vec[q] \in DOMAIN s.heap
      /\ \A p, q \in Vecs : s.vec[p] = s.vec[q] => p = q
  BY DEF Sound
<1>2. s.heap \in Seq(Seq(Item)) /\ s.vec \in [Vecs -> Nat]
  BY <1>1
<1>3. /\ Append(s.heap, c) \in Seq(Seq(Item))
      /\ \A i : i \in DOMAIN Append(s.heap, c) <=> i \in DOMAIN s.heap \/ i = b
      /\ Append(s.heap, c)[b] = c /\ b \in Nat /\ b \notin DOMAIN s.heap
      /\ \A i \in DOMAIN s.heap : Append(s.heap, c)[i] = s.heap[i]
      /\ Len(Append(s.heap, c)) = b
  BY <1>2, Appended
<1>4. t = [s EXCEPT !.heap = Append(s.heap, c)]
  BY <1>1 DEF Export!Allocate
<1>5. /\ t.heap = Append(s.heap, c) /\ t.vec = s.vec
      /\ t \in [heap : Seq(Seq(Item)), vec : [Vecs -> Nat]]
  BY <1>1, <1>3, <1>4
<1>6. Export!Newest(t) = b
  BY <1>3, <1>5 DEF Export!Newest
<1> HIDE DEF b
<1>7. Sound(t)
  BY <1>1, <1>3, <1>5 DEF Sound
<1>8. Rest(s, t)
  BY <1>3, <1>5 DEF Rest, Stable
<1>9. \A q \in Vecs : Buffer(t, q) = Buffer(s, q)
  BY <1>1, <1>3, <1>5 DEF Buffer
<1>10. Stable(t, b) /\ t.heap[b] = c
  BY <1>1, <1>3, <1>5 DEF Stable
<1>11. QED
  BY <1>3, <1>6, <1>7, <1>8, <1>9, <1>10

(* Something is pushed to a Vec, whose buffer may move. *)
LEMMA Pushed ==
  ASSUME NEW s, Sound(s), NEW q \in Vecs, NEW item \in Item, NEW moves \in BOOLEAN,
         NEW t, t = Export!Push(s, q, item, moves)
  PROVE  /\ Sound(t) /\ Rest(s, t)
         /\ Buffer(t, q) = Append(Buffer(s, q), item)
         /\ \A p \in Vecs \ {q} : Buffer(t, p) = Buffer(s, p)
<1> DEFINE b == Len(s.heap) + 1
<1>1. /\ s \in [heap : Seq(Seq(Item)), vec : [Vecs -> Nat]]
      /\ \A p \in Vecs : s.vec[p] \in DOMAIN s.heap
      /\ \A o, p \in Vecs : s.vec[o] = s.vec[p] => o = p
  BY DEF Sound
<1>2. s.heap \in Seq(Seq(Item)) /\ s.vec \in [Vecs -> Nat]
  BY <1>1
<1> SUFFICES ASSUME NEW old, old = s.vec[q],
                    NEW longer, longer = Append(s.heap[old], item)
             PROVE  /\ Sound(t) /\ Rest(s, t)
                    /\ Buffer(t, q) = Append(Buffer(s, q), item)
                    /\ \A p \in Vecs \ {q} : Buffer(t, p) = Buffer(s, p)
  OBVIOUS
<1>3. /\ old \in DOMAIN s.heap /\ longer \in Seq(Item) /\ longer = Append(Buffer(s, q), item)
      /\ \A p \in Vecs \ {q} : s.vec[p] # old
  <2>1. old \in DOMAIN s.heap /\ s.heap[old] \in Seq(Item)
    BY <1>1, <1>2
  <2>2. Append(s.heap[old], item) \in Seq(Item)
    BY <2>1
  <2>3. QED
    BY <1>1, <2>1, <2>2 DEF Buffer
<1>4. CASE moves
  <2> DEFINE freed == [s.heap EXCEPT ![old] = <<>>]
  <2>1. /\ freed \in Seq(Seq(Item)) /\ DOMAIN freed = DOMAIN s.heap /\ Len(freed) = Len(s.heap)
        /\ \A i \in DOMAIN s.heap \ {old} : freed[i] = s.heap[i]
    <3>1. <<>> \in Seq(Item)
      OBVIOUS
    <3>2. freed \in Seq(Seq(Item)) /\ DOMAIN freed = DOMAIN s.heap
          /\ \A i \in DOMAIN s.heap \ {old} : freed[i] = s.heap[i]
      BY <1>2, <1>3, <3>1, Replaced
    <3>3. QED
      BY <1>2, <3>2
  <2> DEFINE places == [s.vec EXCEPT ![q] = b]
             buffers == Append(freed, longer)
  <2>2. t = [heap |-> buffers, vec |-> places]
    BY <1>4 DEF Export!Push, Export!Freed
  <2> HIDE DEF freed
  <2>3. /\ buffers \in Seq(Seq(Item))
        /\ \A i : i \in DOMAIN buffers <=> i \in DOMAIN s.heap \/ i = b
        /\ buffers[b] = longer /\ b \in Nat /\ b \notin DOMAIN s.heap
        /\ \A i \in DOMAIN s.heap \ {old} : buffers[i] = s.heap[i]
    <3>1. /\ freed \in Seq(Seq(Item)) /\ longer \in Seq(Item) /\ b = Len(freed) + 1
      BY <1>3, <2>1
    <3>2. LET m == Len(freed) + 1
          IN  /\ buffers \in Seq(Seq(Item)) /\ buffers[m] = longer
              /\ \A i : i \in DOMAIN buffers <=> i \in DOMAIN freed \/ i = m
              /\ \A i \in DOMAIN freed : buffers[i] = freed[i]
              /\ m \in Nat \ {0} /\ m \notin DOMAIN freed
      <4>1. EndsIn(freed, buffers, Len(freed), longer)
        <5> HIDE DEF b
        <5>1. QED
          BY <3>1, AppendedLast
      <4>2. buffers \in Seq(Seq(Item)) /\ Len(freed) \in Nat
        BY <3>1
      <4> HIDE DEF buffers, b
      <4>3. Len(buffers) = Len(freed) + 1 /\ buffers[Len(freed) + 1] = longer
        BY <4>1 DEF EndsIn
      <4>4. DOMAIN freed = 1..Len(freed) /\ DOMAIN buffers = 1..Len(freed) + 1
        BY <3>1, <4>2, <4>3
      <4>5. \A i \in DOMAIN freed : buffers[i] = freed[i]
        BY <4>1, <4>4 DEF EndsIn
      <4>6. QED
        BY <4>2, <4>3, <4>4, <4>5
    <3> HIDE DEF buffers
    <3>3. QED
      BY <2>1, <3>1, <3>2
  <2> HIDE DEF b, buffers
  <2>4. /\ t.heap = buffers /\ t.vec \in [Vecs -> Nat] /\ t.vec[q] = b
        /\ \A p \in Vecs \ {q} : t.vec[p] = s.vec[p]
        /\ t \in [heap : Seq(Seq(Item)), vec : [Vecs -> Nat]]
    <3>1. /\ places \in [Vecs -> Nat] /\ places[q] = b
          /\ \A p \in Vecs \ {q} : places[p] = s.vec[p]
      <4>1. s.vec \in [Vecs -> Nat] /\ b \in Nat
        BY <1>2, <2>3
      <4>2. QED
        BY <4>1
    <3> HIDE DEF places
    <3>2. t.heap = buffers /\ t.vec = places
      BY <2>2
    <3>3. t \in [heap : Seq(Seq(Item)), vec : [Vecs -> Nat]]
      <4>1. buffers \in Seq(Seq(Item)) /\ places \in [Vecs -> Nat]
        BY <2>3, <3>1
      <4>2. QED
        BY <2>2, <4>1
    <3>4. QED
      BY <3>1, <3>2, <3>3
  <2>5. Sound(t)
    <3>1. \A p \in Vecs : t.vec[p] \in DOMAIN t.heap
      BY <1>1, <2>3, <2>4
    <3>2. \A o, p \in Vecs : t.vec[o] = t.vec[p] => o = p
      <4>1. \A p \in Vecs : s.vec[p] # b
        BY <1>1, <2>3
      <4>2. QED
        BY <1>1, <2>4, <4>1
    <3>3. QED
      BY <2>4, <3>1, <3>2 DEF Sound
  <2>6. Rest(s, t)
    BY <1>1, <2>3, <2>4 DEF Rest, Stable
  <2>7. Buffer(t, q) = longer
    BY <2>3, <2>4 DEF Buffer
  <2>8. \A p \in Vecs \ {q} : Buffer(t, p) = Buffer(s, p)
    BY <1>1, <1>3, <2>3, <2>4 DEF Buffer
  <2>9. QED
    BY <1>3, <2>5, <2>6, <2>7, <2>8
<1>5. CASE ~moves
  <2> DEFINE grown == [s.heap EXCEPT ![old] = longer]
  <2>1. /\ grown \in Seq(Seq(Item)) /\ DOMAIN grown = DOMAIN s.heap /\ grown[old] = longer
        /\ \A i \in DOMAIN s.heap \ {old} : grown[i] = s.heap[i]
    BY <1>2, <1>3, Replaced
  <2>2. t = [s EXCEPT !.heap = grown]
    BY <1>1, <1>5 DEF Export!Push
  <2> HIDE DEF grown
  <2>3. /\ t.heap = grown /\ t.vec = s.vec
        /\ t \in [heap : Seq(Seq(Item)), vec : [Vecs -> Nat]]
    BY <1>1, <2>1, <2>2
  <2>4. Sound(t)
    BY <1>1, <2>1, <2>3 DEF Sound
  <2>5. Rest(s, t)
    BY <1>1, <2>1, <2>3 DEF Rest, Stable
  <2>6. Buffer(t, q) = longer
    BY <2>1, <2>3 DEF Buffer
  <2>7. \A p \in Vecs \ {q} : Buffer(t, p) = Buffer(s, p)
    BY <1>1, <1>3, <2>1, <2>3 DEF Buffer
  <2>8. QED
    BY <1>3, <2>4, <2>5, <2>6, <2>7
<1>6. QED
  BY <1>4, <1>5

(* What was allocated is still there afterwards. *)
LEMMA PartsRest ==
  ASSUME NEW s, NEW t, Rest(s, t), NEW b, NEW owner
  PROVE  /\ \A array : AttributesOf(s, b, owner, array) => AttributesOf(t, b, owner, array)
         /\ EventsOf(s, b, owner) => EventsOf(t, b, owner)
<1>1. ASSUME NEW array, AttributesOf(s, b, owner, array)
      PROVE  AttributesOf(t, b, owner, array)
  BY <1>1 DEF AttributesOf, Rest
<1>2. EventsOf(s, b, owner) => EventsOf(t, b, owner)
  BY DEF EventsOf, Rest
<1>3. QED
  BY <1>1, <1>2

(* Attributes are converted into a buffer of their own, an array into another. *)
LEMMA ConvertedParts ==
  ASSUME NEW s, Sound(s), NEW owner \in Owners, NEW array \in BOOLEAN
  PROVE  LET t == Export!Converted(s, owner, array)
         IN  /\ Sound(t) /\ Rest(s, t) /\ \A q \in Vecs : Buffer(t, q) = Buffer(s, q)
             /\ Export!Newest(t) \in Nat /\ AttributesOf(t, Export!Newest(t), owner, array)
<1> DEFINE backing == <<[of |-> owner]>>
           backed == IF array THEN Export!Allocate(s, backing) ELSE s
           value == IF array THEN [to |-> Export!Newest(backed), at |-> 1] ELSE Null
           last == <<[of |-> owner, value |-> value]>>
           t == Export!Allocate(backed, last)
<1>1. Export!Converted(s, owner, array) = t
  BY DEF Export!Converted
<1>2. backing \in Seq(Item)
  BY DEF Item, ValueViews
<1>3. array => backed = Export!Allocate(s, backing) /\ value = [to |-> Export!Newest(backed), at |-> 1]
  OBVIOUS
<1>4. ~array => backed = s /\ value = Null
  OBVIOUS
<1> HIDE DEF backing, backed, value
<1>5. /\ Sound(backed) /\ Rest(s, backed) /\ \A q \in Vecs : Buffer(backed, q) = Buffer(s, q)
      /\ value \in Pointers \cup {Null}
      /\ array => /\ value \in Pointers /\ Stable(backed, value.to) /\ value.at = 1
                  /\ backed.heap[value.to] = backing
  <2>1. CASE array
    <3>1. backed = Export!Allocate(s, backing)
      BY <1>3, <2>1
    <3>2. /\ Sound(backed) /\ Rest(s, backed) /\ \A q \in Vecs : Buffer(backed, q) = Buffer(s, q)
          /\ Export!Newest(backed) \in Nat /\ Stable(backed, Export!Newest(backed))
          /\ backed.heap[Export!Newest(backed)] = backing
      BY <1>2, <3>1, Allocated
    <3>3. value \in Pointers /\ value.to = Export!Newest(backed) /\ value.at = 1
      BY <1>3, <2>1, <3>2 DEF Pointers
    <3>4. QED
      BY <3>2, <3>3
  <2>2. CASE ~array
    BY <1>4, <2>2 DEF Rest
  <2>3. QED
    BY <2>1, <2>2
<1>6. last \in Seq(Item)
  BY <1>5 DEF Item, AttributeViews
<1> HIDE DEF last
<1>7. /\ Sound(t) /\ Rest(backed, t) /\ \A q \in Vecs : Buffer(t, q) = Buffer(backed, q)
      /\ Export!Newest(t) \in Nat /\ Stable(t, Export!Newest(t))
      /\ t.heap[Export!Newest(t)] = last
  BY <1>5, <1>6, Allocated
<1> HIDE DEF t
<1>8. Rest(s, t) /\ \A q \in Vecs : Buffer(t, q) = Buffer(s, q)
  BY <1>5, <1>7 DEF Rest
<1>9. array => Stable(t, value.to) /\ t.heap[value.to] = backing
  BY <1>5, <1>7 DEF Rest
<1>10. AttributesOf(t, Export!Newest(t), owner, array)
  BY <1>5, <1>7, <1>9 DEF AttributesOf, last, backing
<1>11. QED
  BY <1>1, <1>7, <1>8, <1>10

(* What is kept of scopes and records stays, as long as their Vecs are left alone. *)
LEMMA ScopesStay ==
  ASSUME NEW s, NEW t, Rest(s, t), NEW met, ScopesKept(s, met),
         Buffer(t, "scopes") = Buffer(s, "scopes"), Buffer(t, "scopeAttributes") = Buffer(s, "scopeAttributes")
  PROVE  ScopesKept(t, met)
  BY PartsRest DEF ScopesKept
LEMMA RecordsStay ==
  ASSUME NEW s, NEW t, Rest(s, t), NEW n, RecordsKept(s, n),
         Buffer(t, "records") = Buffer(s, "records"),
         Buffer(t, "recordAttributes") = Buffer(s, "recordAttributes"),
         Buffer(t, "events") = Buffer(s, "events")
  PROVE  RecordsKept(t, n)
  BY PartsRest DEF RecordsKept

(* Vecs hold views and what is pointed at. *)
LEMMA InItems ==
  ASSUME NEW s, Sound(s)
  PROVE  \A q \in Vecs : Buffer(s, q) \in Seq(Item)
<1>1. /\ s.heap \in Seq(Seq(Item)) /\ \A q \in Vecs : s.vec[q] \in DOMAIN s.heap
  BY DEF Sound
<1>2. QED
  BY <1>1 DEF Buffer

(* Three lists of a length get an entry each. *)
LEMMA AppendedBoth ==
  ASSUME NEW A, NEW B, NEW C, NEW a \in Seq(A), NEW b \in Seq(B), NEW c \in Seq(C),
         Len(a) = Len(c), Len(b) = Len(c), NEW one \in A, NEW other \in B, NEW third \in C
  PROVE  /\ Len(Append(a, one)) = Len(Append(c, third))
         /\ Len(Append(b, other)) = Len(Append(c, third))
         /\ \A j \in DOMAIN Append(c, third) :
              \/ /\ Append(a, one)[j] = one /\ Append(b, other)[j] = other
                 /\ Append(c, third)[j] = third
              \/ /\ j \in DOMAIN c /\ Append(c, third)[j] = c[j]
                 /\ Append(a, one)[j] = a[j] /\ Append(b, other)[j] = b[j]
<1>1. /\ Len(Append(a, one)) = Len(c) + 1 /\ Len(Append(b, other)) = Len(c) + 1
      /\ Len(Append(c, third)) = Len(c) + 1
  OBVIOUS
<1>2. ASSUME NEW j \in DOMAIN Append(c, third), j \notin DOMAIN c
      PROVE  j = Len(c) + 1
  BY <1>2
<1>3. /\ Append(a, one)[Len(c) + 1] = one /\ Append(b, other)[Len(c) + 1] = other
      /\ Append(c, third)[Len(c) + 1] = third
  OBVIOUS
<1>4. DOMAIN a = DOMAIN c /\ DOMAIN b = DOMAIN c
  OBVIOUS
<1>5. ASSUME NEW j \in DOMAIN c
      PROVE  /\ Append(c, third)[j] = c[j]
             /\ Append(a, one)[j] = a[j] /\ Append(b, other)[j] = b[j]
  BY <1>4, Appended
<1>6. QED
  BY <1>1, <1>2, <1>3, <1>5

(* What pushing to one Vec, and to two, comes to. *)
Longer(s, t, q, item) ==
  /\ Sound(t) /\ Rest(s, t)
  /\ Buffer(t, q) = Append(Buffer(s, q), item)
  /\ \A o \in Vecs \ {q} : Buffer(t, o) = Buffer(s, o)
BothLonger(s, t, p, one, q, other) ==
  /\ Sound(t) /\ Rest(s, t)
  /\ Buffer(t, p) = Append(Buffer(s, p), one) /\ Buffer(t, q) = Append(Buffer(s, q), other)
  /\ \A o \in Vecs \ {p, q} : Buffer(t, o) = Buffer(s, o)
LEMMA PushLengthens ==
  ASSUME NEW s, Sound(s), NEW q \in Vecs, NEW item \in Item, NEW moves \in BOOLEAN
  PROVE  Longer(s, Export!Push(s, q, item, moves), q, item)
<1> DEFINE t == Export!Push(s, q, item, moves)
<1>1. t = Export!Push(s, q, item, moves)
  OBVIOUS
<1> HIDE DEF t
<1>2. /\ Sound(t) /\ Rest(s, t)
      /\ Buffer(t, q) = Append(Buffer(s, q), item)
      /\ \A p \in Vecs \ {q} : Buffer(t, p) = Buffer(s, p)
  BY <1>1, Pushed
<1>3. QED
  BY <1>1, <1>2 DEF Longer
LEMMA PushesLengthen ==
  ASSUME NEW s, Sound(s), NEW p \in Vecs, NEW q \in Vecs, p # q,
         NEW one \in Item, NEW other \in Item, NEW moves \in BOOLEAN
  PROVE  BothLonger(s, Export!Push(Export!Push(s, p, one, moves), q, other, moves), p, one, q, other)
<1> DEFINE viewed == Export!Push(s, p, one, moves)
           t == Export!Push(viewed, q, other, moves)
<1>1. Longer(s, viewed, p, one)
  BY PushLengthens
<1>2. Sound(viewed)
  BY <1>1 DEF Longer
<1> HIDE DEF viewed
<1>3. Longer(viewed, t, q, other)
  BY <1>2, PushLengthens
<1> HIDE DEF t
<1>4. Rest(s, t)
  BY <1>1, <1>3 DEF Longer, Rest
<1>5. BothLonger(s, t, p, one, q, other)
  BY <1>1, <1>3, <1>4 DEF Longer, BothLonger
<1>6. QED
  BY <1>5 DEF t, viewed

(* The lists of scopes, of their views and of their attributes get an entry each. *)
LEMMA ScopesLonger ==
  ASSUME NEW s, Sound(s), NEW t, Rest(s, t), NEW met \in Seq(Scopes), ScopesKept(s, met),
         NEW scope \in Scopes, NEW attributes \in Nat, AttributesOf(t, attributes, scope, FALSE),
         NEW view1 \in Item, view1 = Export!NoView(scope),
         Buffer(t, "scopes") = Append(Buffer(s, "scopes"), view1),
         Buffer(t, "scopeAttributes") = Append(Buffer(s, "scopeAttributes"), attributes)
  PROVE  ScopesKept(t, Append(met, scope))
<1> DEFINE views == Buffer(s, "scopes")
           backing == Buffer(s, "scopeAttributes")
           more == Append(met, scope)
           moreViews == Append(views, view1)
           moreBacking == Append(backing, attributes)
<1>1. views \in Seq(Item) /\ backing \in Seq(Item) /\ attributes \in Item
  BY InItems DEF Vecs, Item
<1>2. /\ Len(views) = Len(met) /\ Len(backing) = Len(met)
      /\ \A j \in DOMAIN met : /\ views[j] = Export!NoView(met[j])
                               /\ AttributesOf(s, backing[j], met[j], FALSE)
  BY DEF ScopesKept
<1> HIDE DEF views, backing
<1>3. /\ Len(moreViews) = Len(more) /\ Len(moreBacking) = Len(more)
      /\ \A j \in DOMAIN more :
           \/ moreViews[j] = view1 /\ moreBacking[j] = attributes /\ more[j] = scope
           \/ /\ j \in DOMAIN met /\ more[j] = met[j]
              /\ moreViews[j] = views[j] /\ moreBacking[j] = backing[j]
  BY <1>1, <1>2, AppendedBoth
<1>4. Buffer(t, "scopes") = moreViews /\ Buffer(t, "scopeAttributes") = moreBacking
  BY DEF views, backing
<1> HIDE DEF more, moreViews, moreBacking
<1>5. ASSUME NEW j \in DOMAIN more
      PROVE  /\ moreViews[j] = Export!NoView(more[j])
             /\ AttributesOf(t, moreBacking[j], more[j], FALSE)
  <2>1. CASE moreViews[j] = view1 /\ moreBacking[j] = attributes /\ more[j] = scope
    BY <2>1
  <2>2. CASE /\ j \in DOMAIN met /\ more[j] = met[j]
             /\ moreViews[j] = views[j] /\ moreBacking[j] = backing[j]
    <3>1. AttributesOf(t, backing[j], met[j], FALSE)
      BY <1>2, <2>2, PartsRest
    <3>2. QED
      BY <1>2, <2>2, <3>1
  <2>3. QED
    BY <1>3, <2>1, <2>2
<1>6. ScopesKept(t, more)
  BY <1>3, <1>4, <1>5 DEF ScopesKept
<1>7. QED
  BY <1>6 DEF more

(* A scope that was not met before is kept. *)
LEMMA ScopePushedKept ==
  ASSUME NEW s, Sound(s), NEW r \in Export!Records, NEW moves \in BOOLEAN,
         NEW met \in Seq(Scopes), ScopesKept(s, met), NEW n, RecordsKept(s, n)
  PROVE  LET t == Export!ScopePushed(s, r, moves)
         IN  Sound(t) /\ ScopesKept(t, Append(met, r.scope)) /\ RecordsKept(t, n)
<1> DEFINE scope == r.scope
           converted == Export!Converted(s, scope, FALSE)
           attributes == Export!Newest(converted)
           one == Export!NoView(scope)
           t == Export!Push(Export!Push(converted, "scopes", one, moves), "scopeAttributes",
                            attributes, moves)
<1>1. Export!ScopePushed(s, r, moves) = t
  BY DEF Export!ScopePushed
<1>2. scope \in Scopes /\ scope \in Owners
  BY DEF Export!Records, Owners
<1> HIDE DEF scope
<1>3. /\ Sound(converted) /\ Rest(s, converted) /\ \A q \in Vecs : Buffer(converted, q) = Buffer(s, q)
      /\ attributes \in Nat /\ AttributesOf(converted, attributes, scope, FALSE)
  BY <1>2, ConvertedParts
<1> HIDE DEF converted, attributes
<1>4. one \in Item /\ attributes \in Item
  BY <1>2, <1>3 DEF Export!NoView, Item, RecordViews
<1>5. one = Export!NoView(scope)
  OBVIOUS
<1> HIDE DEF one
<1>6. "scopes" \in Vecs /\ "scopeAttributes" \in Vecs /\ "scopes" # "scopeAttributes"
  BY DEF Vecs
<1>7. /\ Sound(t) /\ Rest(converted, t)
      /\ Buffer(t, "scopes") = Append(Buffer(converted, "scopes"), one)
      /\ Buffer(t, "scopeAttributes") = Append(Buffer(converted, "scopeAttributes"), attributes)
      /\ \A o \in Vecs \ {"scopes", "scopeAttributes"} : Buffer(t, o) = Buffer(converted, o)
  <2>1. Sound(converted)
    BY <1>3
  <2>2. BothLonger(converted, t, "scopes", one, "scopeAttributes", attributes)
    BY <1>4, <1>6, <2>1, PushesLengthen
  <2>3. QED
    BY <2>2 DEF BothLonger
<1> HIDE DEF t
<1>8. Rest(s, t)
  BY <1>3, <1>7 DEF Rest
<1>9. AttributesOf(t, attributes, scope, FALSE)
  BY <1>3, <1>7, PartsRest
<1>10. ScopesKept(t, Append(met, scope))
  <2>1. /\ Buffer(t, "scopes") = Append(Buffer(s, "scopes"), one)
        /\ Buffer(t, "scopeAttributes") = Append(Buffer(s, "scopeAttributes"), attributes)
    BY <1>3, <1>6, <1>7
  <2>2. QED
    BY <1>2, <1>3, <1>4, <1>5, <1>8, <1>9, <2>1, ScopesLonger
<1>11. RecordsKept(t, n)
  <2>1. /\ Buffer(t, "records") = Buffer(s, "records")
        /\ Buffer(t, "recordAttributes") = Buffer(s, "recordAttributes")
        /\ Buffer(t, "events") = Buffer(s, "events")
    BY <1>3, <1>7 DEF Vecs
  <2>2. QED
    BY <1>8, <2>1, RecordsStay
<1>12. QED
  BY <1>1, <1>7, <1>10, <1>11 DEF scope

(* A span's events are a buffer of their own; a log record has none. *)
LEMMA EventsPushedKept ==
  ASSUME NEW s, Sound(s), NEW i \in Nat, NEW moves \in BOOLEAN
  PROVE  LET t == Export!EventsPushed(s, i, moves)
         IN  /\ Sound(t) /\ Rest(s, t) /\ \A q \in Vecs \ {"events"} : Buffer(t, q) = Buffer(s, q)
             /\ kind = "spans" =>
                  \E b \in Nat : /\ EventsOf(t, b, i)
                                 /\ Buffer(t, "events") = Append(Buffer(s, "events"), b)
<1>1. CASE kind = "logs"
  <2>1. Export!EventsPushed(s, i, moves) = s
    BY <1>1 DEF Export!EventsPushed
  <2>2. Rest(s, s)
    BY DEF Rest
  <2>3. QED
    BY <1>1, <2>1, <2>2
<1>2. CASE kind # "logs"
  <2> DEFINE one == <<Export!NoView(i)>>
             events == Export!Allocate(s, one)
             b == Export!Newest(events)
             t == Export!Push(events, "events", b, moves)
  <2>1. Export!EventsPushed(s, i, moves) = t
    BY <1>2 DEF Export!EventsPushed
  <2>2. one \in Seq(Item)
    BY DEF Export!NoView, Item, RecordViews, Owners
  <2> HIDE DEF one
  <2>3. /\ Sound(events) /\ Rest(s, events) /\ \A q \in Vecs : Buffer(events, q) = Buffer(s, q)
        /\ b \in Nat /\ Stable(events, b) /\ events.heap[b] = one
    BY <2>2, Allocated
  <2> HIDE DEF events, b
  <2>4. "events" \in Vecs /\ b \in Item
    BY <2>3 DEF Vecs, Item
  <2>5. /\ Sound(t) /\ Rest(events, t)
        /\ Buffer(t, "events") = Append(Buffer(events, "events"), b)
        /\ \A p \in Vecs \ {"events"} : Buffer(t, p) = Buffer(events, p)
    <3>1. Sound(events)
      BY <2>3
    <3>2. Longer(events, t, "events", b)
      BY <2>4, <3>1, PushLengthens
    <3>3. QED
      BY <3>2 DEF Longer
  <2> HIDE DEF t
  <2>6. Rest(s, t)
    BY <2>3, <2>5 DEF Rest
  <2>7. EventsOf(t, b, i)
    BY <2>3, <2>5 DEF Rest, EventsOf, one
  <2>8. /\ Buffer(t, "events") = Append(Buffer(s, "events"), b)
        /\ \A q \in Vecs \ {"events"} : Buffer(t, q) = Buffer(s, q)
    BY <2>3, <2>4, <2>5
  <2>9. QED
    BY <2>1, <2>3, <2>5, <2>6, <2>7, <2>8
<1>3. QED
  BY <1>1, <1>2

(* The lists of records, of their attributes and of their events get an entry each. *)
LEMMA RecordsLonger ==
  ASSUME NEW s, Sound(s), NEW t, Rest(s, t), NEW n \in Nat, RecordsKept(s, n),
         NEW i, i = n + 1, NEW view1 \in Item, view1 = Export!NoView(i),
         NEW attributes \in Nat, AttributesOf(t, attributes, i, records[i].array),
         Buffer(t, "records") = Append(Buffer(s, "records"), view1),
         Buffer(t, "recordAttributes") = Append(Buffer(s, "recordAttributes"), attributes),
         kind = "spans" => \E b \in Nat : /\ EventsOf(t, b, i)
                                          /\ Buffer(t, "events") = Append(Buffer(s, "events"), b)
  PROVE  RecordsKept(t, i)
<1> DEFINE views == Buffer(s, "records")
           backing == Buffer(s, "recordAttributes")
           happened == Buffer(s, "events")
<1>1. views \in Seq(Item) /\ backing \in Seq(Item) /\ happened \in Seq(Item)
  BY InItems DEF Vecs
<1>2. /\ Len(views) = n /\ Len(backing) = n
      /\ \A j \in 1..n : /\ views[j] = Export!NoView(j)
                         /\ AttributesOf(s, backing[j], j, records[j].array)
  BY DEF RecordsKept
<1>3. kind = "spans" => Len(happened) = n /\ \A j \in 1..n : EventsOf(s, happened[j], j)
  BY DEF RecordsKept
<1>4. Nat \subseteq Item
  BY DEF Item
<1> HIDE DEF views, backing, happened
<1>5. /\ Len(Append(views, view1)) = n + 1 /\ Append(views, view1)[n + 1] = view1
      /\ \A j \in 1..n : Append(views, view1)[j] = views[j]
  <2>1. Len(views) = n
    BY <1>2
  <2>2. EndsIn(views, Append(views, view1), n, view1)
    BY <1>1, <2>1, AppendedLast
  <2>3. QED
    BY <2>2 DEF EndsIn
<1>6. /\ Len(Append(backing, attributes)) = n + 1 /\ Append(backing, attributes)[n + 1] = attributes
      /\ \A j \in 1..n : Append(backing, attributes)[j] = backing[j]
  <2>1. Len(backing) = n /\ attributes \in Item
    BY <1>2, <1>4
  <2>2. EndsIn(backing, Append(backing, attributes), n, attributes)
    BY <1>1, <2>1, AppendedLast
  <2>3. QED
    BY <2>2 DEF EndsIn
<1>7. \A j \in 1..i : j = i \/ j \in 1..n
  OBVIOUS
<1>8. /\ Len(Buffer(t, "records")) = i /\ Buffer(t, "records")[i] = Export!NoView(i)
      /\ \A j \in 1..n : Buffer(t, "records")[j] = Export!NoView(j)
  BY <1>2, <1>5 DEF views
<1>9. /\ Len(Buffer(t, "recordAttributes")) = i
      /\ \A j \in 1..i : AttributesOf(t, Buffer(t, "recordAttributes")[j], j, records[j].array)
  <2>1. \A j \in 1..n : AttributesOf(t, backing[j], j, records[j].array)
    BY <1>2, PartsRest
  <2>2. Buffer(t, "recordAttributes") = Append(backing, attributes)
    BY DEF backing
  <2>3. QED
    BY <1>6, <1>7, <2>1, <2>2
<1>10. kind = "spans" => /\ Len(Buffer(t, "events")) = i
                         /\ \A j \in 1..i : EventsOf(t, Buffer(t, "events")[j], j)
  <2> SUFFICES ASSUME kind = "spans"
               PROVE  /\ Len(Buffer(t, "events")) = i
                      /\ \A j \in 1..i : EventsOf(t, Buffer(t, "events")[j], j)
    OBVIOUS
  <2>1. PICK b \in Nat : EventsOf(t, b, i) /\ Buffer(t, "events") = Append(happened, b)
    BY DEF happened
  <2>2. Len(happened) = n /\ \A j \in 1..n : EventsOf(t, happened[j], j)
    BY <1>3, PartsRest
  <2>3. /\ Len(Append(happened, b)) = n + 1 /\ Append(happened, b)[n + 1] = b
        /\ \A j \in 1..n : Append(happened, b)[j] = happened[j]
    <3>1. b \in Item /\ happened \in Seq(Item) /\ Len(happened) = n
      BY <1>1, <1>4, <2>2
    <3>2. EndsIn(happened, Append(happened, b), n, b)
      BY <3>1, AppendedLast
    <3>3. QED
      BY <3>2 DEF EndsIn
  <2>4. QED
    BY <1>7, <2>1, <2>2, <2>3
<1>11. QED
  BY <1>7, <1>8, <1>9, <1>10 DEF RecordsKept

(* A record is kept with everything that is its own. *)
LEMMA RecordPushedKept ==
  ASSUME NEW s, Sound(s), NEW n \in Nat, NEW i, i = n + 1, NEW r \in Export!Records,
         r = records[i], NEW moves \in BOOLEAN,
         NEW met, ScopesKept(s, met), RecordsKept(s, n)
  PROVE  LET t == Export!RecordPushed(s, i, r, moves)
         IN  Sound(t) /\ ScopesKept(t, met) /\ RecordsKept(t, i)
<1> DEFINE converted == Export!Converted(s, i, r.array)
           attributes == Export!Newest(converted)
           one == Export!NoView(i)
           viewed == Export!Push(Export!Push(converted, "records", one, moves), "recordAttributes",
                                 attributes, moves)
           t == Export!EventsPushed(viewed, i, moves)
<1>1. Export!RecordPushed(s, i, r, moves) = t
  BY DEF Export!RecordPushed
<1>2. i \in Nat /\ i \in Owners /\ r.array \in BOOLEAN
  BY DEF Export!Records, Owners
<1>3. /\ Sound(converted) /\ Rest(s, converted) /\ \A q \in Vecs : Buffer(converted, q) = Buffer(s, q)
      /\ attributes \in Nat /\ AttributesOf(converted, attributes, i, r.array)
  BY <1>2, ConvertedParts
<1> HIDE DEF converted, attributes
<1>4. one \in Item /\ attributes \in Item
  BY <1>2, <1>3 DEF Export!NoView, Item, RecordViews
<1>5. one = Export!NoView(i)
  OBVIOUS
<1> HIDE DEF one
<1>6. "records" \in Vecs /\ "recordAttributes" \in Vecs /\ "records" # "recordAttributes"
  BY DEF Vecs
<1>7. /\ Sound(viewed) /\ Rest(converted, viewed)
      /\ Buffer(viewed, "records") = Append(Buffer(converted, "records"), one)
      /\ Buffer(viewed, "recordAttributes") = Append(Buffer(converted, "recordAttributes"), attributes)
      /\ \A o \in Vecs \ {"records", "recordAttributes"} : Buffer(viewed, o) = Buffer(converted, o)
  <2>1. Sound(converted)
    BY <1>3
  <2>2. BothLonger(converted, viewed, "records", one, "recordAttributes", attributes)
    BY <1>4, <1>6, <2>1, PushesLengthen
  <2>3. QED
    BY <2>2 DEF BothLonger
<1> HIDE DEF viewed
<1>8. /\ Sound(t) /\ Rest(viewed, t) /\ \A q \in Vecs \ {"events"} : Buffer(t, q) = Buffer(viewed, q)
      /\ kind = "spans" =>
           \E b \in Nat : /\ EventsOf(t, b, i)
                          /\ Buffer(t, "events") = Append(Buffer(viewed, "events"), b)
  <2>1. Sound(viewed)
    BY <1>7
  <2>2. QED
    BY <1>2, <2>1, EventsPushedKept
<1> HIDE DEF t
<1>9. Rest(s, t) /\ Rest(converted, t)
  BY <1>3, <1>7, <1>8 DEF Rest
<1>10. AttributesOf(t, attributes, i, r.array)
  BY <1>3, <1>9, PartsRest
<1>11. ScopesKept(t, met)
  <2>1. Buffer(t, "scopes") = Buffer(s, "scopes") /\ Buffer(t, "scopeAttributes") = Buffer(s, "scopeAttributes")
    BY <1>3, <1>7, <1>8 DEF Vecs
  <2>2. QED
    BY <1>9, <2>1, ScopesStay
<1>12. RecordsKept(t, i)
  <2>1. /\ Buffer(t, "records") = Append(Buffer(s, "records"), one)
        /\ Buffer(t, "recordAttributes") = Append(Buffer(s, "recordAttributes"), attributes)
    BY <1>3, <1>6, <1>7, <1>8 DEF Vecs
  <2>2. Buffer(viewed, "events") = Buffer(s, "events")
    BY <1>3, <1>7 DEF Vecs
  <2>3. kind = "spans" => \E b \in Nat : /\ EventsOf(t, b, i)
                                         /\ Buffer(t, "events") = Append(Buffer(s, "events"), b)
    BY <1>8, <2>2
  <2>4. AttributesOf(t, attributes, i, records[i].array)
    BY <1>10
  <2>5. QED
    BY <1>3, <1>4, <1>5, <1>9, <2>1, <2>3, <2>4, RecordsLonger
<1>13. QED
  BY <1>1, <1>8, <1>11, <1>12

(* What has been converted is kept in the Vecs, and each record's scope is one of those
   met. *)
Storage == [heap |-> heap, vec |-> vec]
IndicesKept ==
  /\ Len(indices) = done
  /\ \A i \in 1..done : indices[i] \in DOMAIN keys /\ keys[indices[i]] = records[i].scope
Kept ==
  Sound(Storage) /\ ScopesKept(Storage, keys) /\ RecordsKept(Storage, done) /\ IndicesKept

(* What was converted could be, and was within the limit. *)
Whole == Len(records) <= MaxRecords /\ \A i \in DOMAIN records : records[i].convertible
SoFarWhole ==
  /\ done > 0 => IF kind = "logs" THEN done <= MaxRecords ELSE Len(records) <= MaxRecords
  /\ \A i \in 1..done : records[i].convertible

(* What a callback reads of a record r, the i-th of those in buffer b. *)
Behind(h, p) == IF p.at \in DOMAIN h[p.to] THEN h[p.to][p.at] ELSE Null
RecordReads(h, b, i, r, spans) ==
  LET record == Behind(h, [to |-> b, at |-> i])
      attribute == Behind(h, [to |-> record.attributes, at |-> 1])
      scope == Behind(h, record.scope)
  IN  /\ Export!IsOf(record, i)
      /\ Export!IsOf(attribute, i)
      /\ r.array => Export!IsOf(Behind(h, attribute.value), i)
      /\ Export!IsOf(scope, r.scope)
      /\ Export!IsOf(Behind(h, [to |-> scope.attributes, at |-> 1]), r.scope)
      /\ spans => Export!IsOf(Behind(h, [to |-> record.events, at |-> 1]), i)
ReadsAll ==
  /\ Len(heap[vec["records"]]) = Len(records)
  /\ \A i \in DOMAIN records : RecordReads(heap, vec["records"], i, records[i], kind = "spans")

(* The inductive invariant. *)
ExportInv ==
  /\ kind \in Export!Kinds /\ records \in Seq(Export!Records) /\ done \in 0..Len(records)
  /\ keys \in Seq(Scopes) /\ indices \in Seq(Nat)
  /\ phase \in {"converting", "settled", "shown", "failed", "dropped"}
  /\ SoFarWhole
  /\ phase = "converting" => Kept
  /\ phase \in {"settled", "shown"} => ReadsAll
  /\ phase \in {"settled", "shown", "dropped"} => done = Len(records)
  /\ phase = "failed" => ~Whole /\ \A b \in DOMAIN heap : heap[b] = Export!Freed

(* The invariant says what is promised of batch views. *)
LEMMA ExportInvMeans ==
  ASSUME ExportInv
  PROVE  Export!ViewsReadTheirRecords /\ Export!WholeBatchOrNothing
<1>1. Export!ViewsReadTheirRecords
  BY DEF ExportInv, ReadsAll, RecordReads, Behind, Export!Read, Export!First, Export!Contents,
         Export!ViewsReadTheirRecords
<1>2. phase \in {"settled", "shown", "dropped"} => Whole
  <2> SUFFICES ASSUME phase \in {"settled", "shown", "dropped"} PROVE Whole
    OBVIOUS
  <2>1. done = Len(records) /\ records \in Seq(Export!Records) /\ SoFarWhole
    BY DEF ExportInv
  <2>2. DOMAIN records = 1..done /\ done \in Nat
    BY <2>1
  <2>3. Len(records) <= MaxRecords
    BY <2>1, <2>2, ExportAssumption DEF ExportAssumption, SoFarWhole
  <2>4. QED
    BY <2>1, <2>2, <2>3 DEF Whole, SoFarWhole
<1>3. phase = "failed" => ~Whole /\ \A b \in DOMAIN heap : heap[b] = Export!Freed
  BY DEF ExportInv
<1>4. Export!WholeBatchOrNothing
  BY <1>2, <1>3 DEF Whole, Export!WholeBatchOrNothing
<1>5. QED
  BY <1>1, <1>4

LEMMA ExportInit == Export!Init => ExportInv
<1> SUFFICES ASSUME Export!Init PROVE ExportInv
  OBVIOUS
<1>1. records \in Seq(Export!Records) /\ Len(records) \in Nat
  <2>1. PICK n \in 0..MaxBatch : records \in [1..n -> Export!Records]
    BY DEF Export!Init
  <2>2. n \in Nat
    BY <2>1, ExportAssumption DEF ExportAssumption
  <2>3. QED
    BY <2>1, <2>2
<1>2. /\ kind \in Export!Kinds /\ done = 0 /\ keys = <<>> /\ indices = <<>> /\ phase = "converting"
      /\ heap = [i \in 1..5 |-> <<>>]
      /\ vec = [scopes |-> 1, scopeAttributes |-> 2, records |-> 3, recordAttributes |-> 4,
                events |-> 5]
  BY DEF Export!Init
<1>3. /\ vec \in [Vecs -> 1..5] /\ vec \in [Vecs -> Nat] /\ \A p, q \in Vecs : vec[p] = vec[q] => p = q
  BY <1>2 DEF Vecs
<1>4. heap \in Seq(Seq(Item)) /\ DOMAIN heap = 1..5 /\ \A b \in 1..5 : heap[b] = <<>>
  <2>1. heap \in [1..5 -> Seq(Item)]
    BY <1>2
  <2>2. QED
    BY <1>2, <2>1
<1>5. Sound(Storage)
  BY <1>3, <1>4 DEF Sound, Storage
<1>6. \A q \in Vecs : Buffer(Storage, q) = <<>>
  BY <1>3, <1>4 DEF Buffer, Storage
<1>7. ScopesKept(Storage, keys) /\ RecordsKept(Storage, done)
  BY <1>2, <1>6 DEF ScopesKept, RecordsKept, Vecs
<1>8. IndicesKept /\ SoFarWhole
  BY <1>2 DEF IndicesKept, SoFarWhole
<1>9. QED
  BY <1>1, <1>2, <1>5, <1>7, <1>8 DEF ExportInv, Kept

(* A scope that is looked up is one met, a new one is the last. *)
LEMMA IndexKept ==
  ASSUME NEW met \in Seq(Scopes), NEW scope \in Scopes, NEW n \in Nat,
         NEW found \in Seq(Nat), Len(found) = n, NEW one, one = n + 1,
         \A i \in 1..n : found[i] \in DOMAIN met /\ met[found[i]] = records[i].scope,
         scope = records[one].scope,
         NEW more \in Seq(Scopes), NEW last \in Nat,
         \A j \in DOMAIN met : j \in DOMAIN more /\ more[j] = met[j],
         last \in DOMAIN more, more[last] = scope
  PROVE  /\ Append(found, last) \in Seq(Nat) /\ Len(Append(found, last)) = one
         /\ \A i \in 1..one : /\ Append(found, last)[i] \in DOMAIN more
                              /\ more[Append(found, last)[i]] = records[i].scope
<1>1. /\ Len(Append(found, last)) = n + 1 /\ Append(found, last)[n + 1] = last
      /\ \A i \in 1..n : Append(found, last)[i] = found[i]
  <2>1. EndsIn(found, Append(found, last), n, last)
    BY AppendedLast
  <2>2. QED
    BY <2>1 DEF EndsIn
<1>2. \A i \in 1..one : i = one \/ i \in 1..n
  OBVIOUS
<1> DEFINE longer == Append(found, last)
<1>3. longer \in Seq(Nat)
  OBVIOUS
<1>4. Len(longer) = one /\ longer[one] = last /\ \A i \in 1..n : longer[i] = found[i]
  BY <1>1
<1> HIDE DEF longer
<1>5. ASSUME NEW i \in 1..one
      PROVE  longer[i] \in DOMAIN more /\ more[longer[i]] = records[i].scope
  <2>1. CASE i = one
    BY <1>4, <2>1
  <2>2. CASE i \in 1..n
    BY <1>4, <2>2
  <2>3. QED
    BY <1>2, <2>1, <2>2
<1>6. QED
  BY <1>3, <1>4, <1>5 DEF longer

(* A record is converted, with its scope if that is new. *)
LEMMA ConvertStep ==
  ASSUME ExportInv, Export!Convert
  PROVE  ExportInv'
<1> DEFINE i == done + 1
           r == records[i]
           known == Export!Known(r)
           last == IF known = {} THEN Len(keys) + 1 ELSE CHOOSE j \in known : TRUE
           more == IF known = {} THEN Append(keys, r.scope) ELSE keys
<1>1. PICK scopesMove \in BOOLEAN, recordsMove \in BOOLEAN :
        LET scoped == IF known = {} THEN Export!ScopePushed(Storage, r, scopesMove) ELSE Storage
            pushed == Export!RecordPushed(scoped, i, r, recordsMove)
        IN  heap' = pushed.heap /\ vec' = pushed.vec
  BY DEF Export!Convert, Storage
<1> DEFINE scoped == IF known = {} THEN Export!ScopePushed(Storage, r, scopesMove) ELSE Storage
           pushed == Export!RecordPushed(scoped, i, r, recordsMove)
<1>2. /\ heap' = pushed.heap /\ vec' = pushed.vec
  BY <1>1
<1>3. /\ phase = "converting" /\ done < Len(records) /\ ~Export!Fails
      /\ keys' = more /\ indices' = Append(indices, last) /\ done' = i
      /\ UNCHANGED <<kind, records, phase>>
  BY DEF Export!Convert
<1>4. /\ kind \in Export!Kinds /\ records \in Seq(Export!Records) /\ done \in 0..Len(records)
      /\ keys \in Seq(Scopes) /\ indices \in Seq(Nat) /\ SoFarWhole
      /\ Sound(Storage) /\ ScopesKept(Storage, keys) /\ RecordsKept(Storage, done) /\ IndicesKept
  BY <1>3 DEF ExportInv, Kept
<1>5. done \in Nat /\ i \in 1..Len(records) /\ Len(records) \in Nat
  BY <1>3, <1>4
<1>6. r \in Export!Records
  BY <1>4, <1>5
<1>7. r.scope \in Scopes
  BY <1>6 DEF Export!Records
<1>8. /\ SoFarWhole'
  <2>1. records[i].convertible
    BY <1>3 DEF Export!Fails
  <2>2. IF kind = "logs" THEN i <= MaxRecords ELSE Len(records) <= MaxRecords
    BY <1>3, <1>5, ExportAssumption DEF Export!Fails, Export!PastLimit, ExportAssumption
  <2>3. \A j \in 1..i : j = i \/ j \in 1..done
    BY <1>5
  <2> HIDE DEF i
  <2>4. QED
    BY <1>3, <1>4, <2>1, <2>2, <2>3 DEF SoFarWhole
<1>9. i = done + 1
  OBVIOUS
<1>10. /\ more \in Seq(Scopes) /\ last \in Nat /\ last \in DOMAIN more /\ more[last] = r.scope
       /\ \A j \in DOMAIN keys : j \in DOMAIN more /\ more[j] = keys[j]
  <2>1. CASE known = {}
    BY <1>4, <1>7, <2>1, Appended
  <2>2. CASE known # {}
    <3>1. (CHOOSE j \in known : TRUE) \in known
      BY <2>2
    <3>2. last \in DOMAIN keys /\ keys[last] = r.scope
      BY <2>2, <3>1 DEF Export!Known
    <3>3. last \in Nat
      BY <1>4, <3>2
    <3>4. QED
      BY <1>4, <2>2, <3>2, <3>3
  <2>3. QED
    BY <2>1, <2>2
<1>11. Sound(scoped) /\ ScopesKept(scoped, more) /\ RecordsKept(scoped, done)
  <2>1. CASE known = {}
    <3>1. scoped = Export!ScopePushed(Storage, r, scopesMove) /\ more = Append(keys, r.scope)
      BY <2>1
    <3> HIDE DEF scoped, more, r
    <3>2. QED
      BY <1>4, <1>6, <3>1, ScopePushedKept
  <2>2. CASE known # {}
    BY <1>4, <2>2
  <2>3. QED
    BY <2>1, <2>2
<1> HIDE DEF scoped, more, last, known
<1>12. Sound(pushed) /\ ScopesKept(pushed, more) /\ RecordsKept(pushed, i)
  <2>1. r = records[i]
    OBVIOUS
  <2> HIDE DEF r, i
  <2>2. QED
    BY <1>5, <1>6, <1>9, <1>11, <2>1, RecordPushedKept
<1> HIDE DEF pushed
<1>13. Storage' = pushed
  <2>1. pushed \in [heap : Seq(Seq(Item)), vec : [Vecs -> Nat]]
    BY <1>12 DEF Sound
  <2>2. QED
    BY <1>2, <2>1 DEF Storage
<1>14. ASSUME NEW s, s = pushed, NEW n, n = i
       PROVE  RecordsKept(s, n)'
  BY <1>3, <1>12, <1>14 DEF RecordsKept
<1>15. Append(indices, last) \in Seq(Nat) /\ IndicesKept'
  <2>1. /\ Append(indices, last) \in Seq(Nat) /\ Len(Append(indices, last)) = i
        /\ \A j \in 1..i : /\ Append(indices, last)[j] \in DOMAIN more
                           /\ more[Append(indices, last)[j]] = records[j].scope
    <3>1. /\ Len(indices) = done
          /\ \A j \in 1..done : indices[j] \in DOMAIN keys /\ keys[indices[j]] = records[j].scope
      BY <1>4 DEF IndicesKept
    <3>2. r.scope = records[i].scope
      OBVIOUS
    <3> HIDE DEF i, r
    <3>3. QED
      BY <1>4, <1>5, <1>7, <1>9, <1>10, <3>1, <3>2, IndexKept
  <2> HIDE DEF i
  <2>2. QED
    BY <1>3, <2>1 DEF IndicesKept
<1>16. Kept'
  BY <1>3, <1>12, <1>13, <1>14, <1>15 DEF Kept, Sound, ScopesKept
<1>17. QED
  BY <1>3, <1>4, <1>5, <1>8, <1>10, <1>15, <1>16 DEF ExportInv

(* A record that cannot be converted, or one too many, fails the batch. *)
LEMMA ConvertFailsStep ==
  ASSUME ExportInv, Export!ConvertFails
  PROVE  ExportInv'
<1>1. /\ phase = "converting" /\ done < Len(records) /\ Export!Fails
      /\ heap' = [b \in DOMAIN heap |-> Export!Freed] /\ phase' = "failed"
      /\ UNCHANGED <<kind, records, done, vec, keys, indices>>
  BY DEF Export!ConvertFails
<1>2. /\ kind \in Export!Kinds /\ records \in Seq(Export!Records) /\ done \in 0..Len(records)
      /\ keys \in Seq(Scopes) /\ indices \in Seq(Nat) /\ SoFarWhole
  BY DEF ExportInv
<1>3. ~Whole
  <2>1. done + 1 \in DOMAIN records /\ Len(records) \in Nat /\ done + 1 <= Len(records)
    BY <1>1, <1>2
  <2>2. CASE Export!PastLimit
    BY <1>2, <2>1, <2>2, ExportAssumption DEF Export!PastLimit, Whole, ExportAssumption
  <2>3. CASE ~records[done + 1].convertible
    BY <2>1, <2>3 DEF Whole
  <2>4. QED
    BY <1>1, <2>2, <2>3 DEF Export!Fails
<1>4. \A b \in DOMAIN heap' : heap'[b] = Export!Freed
  BY <1>1
<1>5. SoFarWhole' /\ ~Whole'
  BY <1>1, <1>2, <1>3 DEF SoFarWhole, Whole
<1>6. Export!Freed' = Export!Freed
  BY DEF Export!Freed
<1>7. QED
  BY <1>1, <1>2, <1>4, <1>5, <1>6 DEF ExportInv

(* The callback is shown what is settled, and the storage dropped after it. *)
LEMMA ShowStep ==
  ASSUME ExportInv, Export!Show
  PROVE  ExportInv'
<1>1. /\ phase = "settled" /\ phase' = "shown"
      /\ UNCHANGED <<kind, records, done, heap, vec, keys, indices>>
  BY DEF Export!Show
<1>2. ReadsAll'
  BY <1>1 DEF ExportInv, ReadsAll
<1>3. QED
  BY <1>1, <1>2 DEF ExportInv, SoFarWhole
LEMMA DropStep ==
  ASSUME ExportInv, Export!Drop
  PROVE  ExportInv'
  BY DEF Export!Drop, ExportInv, SoFarWhole
LEMMA ExportStays ==
  ASSUME ExportInv, UNCHANGED exportVars
  PROVE  ExportInv'
<1>1. UNCHANGED <<kind, records, done, heap, vec, keys, indices, phase>>
  BY DEF exportVars
<1>2. Storage' = Storage
  BY <1>1 DEF Storage
<1>3. ASSUME NEW s, s = Storage, NEW n, n = done
      PROVE  RecordsKept(s, n) => RecordsKept(s, n)'
  BY <1>1 DEF RecordsKept
<1>4. Kept => Kept'
  BY <1>1, <1>2, <1>3 DEF Kept, IndicesKept
<1>5. ReadsAll => ReadsAll'
  BY <1>1 DEF ReadsAll
<1>6. QED
  BY <1>1, <1>4, <1>5 DEF ExportInv, SoFarWhole, Whole

(* A view is given its pointers. *)
LEMMA Pointed ==
  ASSUME NEW owner, NEW attributes, NEW scope, NEW events
  PROVE  [Export!NoView(owner) EXCEPT !.attributes = attributes, !.scope = scope, !.events = events]
         = [of |-> owner, attributes |-> attributes, scope |-> scope, events |-> events]
<1> DEFINE found == [Export!NoView(owner) EXCEPT !.attributes = attributes, !.scope = scope,
                                               !.events = events]
<1>1. Export!NoView(owner) \in [of : {owner}, attributes : {Null}, scope : {Null}, events : {Null}]
  BY DEF Export!NoView
<1>2. found \in [of : {owner}, attributes : {attributes, Null}, scope : {scope, Null},
                events : {events, Null}]
  BY <1>1
<1>3. found.of = owner
  BY <1>1
<1>4. found.attributes = attributes /\ found.scope = scope /\ found.events = events
  BY <1>1
<1> HIDE DEF found
<1>5. found = [of |-> owner, attributes |-> attributes, scope |-> scope, events |-> events]
  BY <1>2, <1>3, <1>4
<1>6. QED
  BY <1>5 DEF found
LEMMA ScopePointed ==
  ASSUME NEW owner, NEW attributes
  PROVE  [Export!NoView(owner) EXCEPT !.attributes = attributes]
         = [of |-> owner, attributes |-> attributes, scope |-> Null, events |-> Null]
  BY DEF Export!NoView

(* A view that is alone in its buffer is found there. *)
LEMMA FoundFirst ==
  ASSUME NEW h, NEW b, NEW one, h[b] = <<one>>
  PROVE  Behind(h, [to |-> b, at |-> 1]) = one
  BY DEF Behind

(* Pointers are taken when every Vec has its final length. *)
LEMMA SettleStep ==
  ASSUME ExportInv, Export!Settle
  PROVE  ExportInv'
<1> DEFINE ours == vec["scopes"]
           theirs == vec["records"]
           backings == vec["scopeAttributes"]
           scoped == Export!SettledScopes
           settled == Export!SettledRecords
           Attributes(i) == heap[vec["recordAttributes"]][i]
           Events(i) == IF kind = "spans" THEN heap[vec["events"]][i] ELSE Null
<1>1. /\ phase = "converting" /\ done = Len(records) /\ phase' = "settled"
      /\ heap' = [heap EXCEPT ![ours] = scoped, ![theirs] = settled]
      /\ UNCHANGED <<kind, records, done, vec, keys, indices>>
  BY DEF Export!Settle
<1>2. /\ kind \in Export!Kinds /\ records \in Seq(Export!Records) /\ done \in 0..Len(records)
      /\ keys \in Seq(Scopes) /\ indices \in Seq(Nat) /\ SoFarWhole
      /\ Sound(Storage) /\ ScopesKept(Storage, keys) /\ RecordsKept(Storage, done) /\ IndicesKept
  BY <1>1 DEF ExportInv, Kept
<1>3. /\ heap \in Seq(Seq(Item)) /\ vec \in [Vecs -> Nat]
      /\ \A q \in Vecs : vec[q] \in DOMAIN heap
      /\ \A p, q \in Vecs : vec[p] = vec[q] => p = q
  BY <1>2 DEF Sound, Storage
<1>4. /\ ours \in DOMAIN heap /\ theirs \in DOMAIN heap /\ ours # theirs /\ ours \in Nat
      /\ \A b : Stable(Storage, b) => b \in DOMAIN heap /\ b # ours /\ b # theirs
  BY <1>3 DEF Vecs, Stable, Storage
<1> HIDE DEF scoped, settled, ours, theirs
<1>5. /\ heap'[ours] = scoped /\ heap'[theirs] = settled
      /\ \A b : Stable(Storage, b) => heap'[b] = heap[b]
  BY <1>1, <1>3, <1>4
<1>6. /\ Len(heap[theirs]) = done /\ done \in Nat /\ DOMAIN records = 1..done
      /\ \A i \in 1..done :
           /\ heap[theirs][i] = Export!NoView(i)
           /\ AttributesOf(Storage, Attributes(i), i, records[i].array)
           /\ kind = "spans" => EventsOf(Storage, Events(i), i)
  BY <1>1, <1>2 DEF RecordsKept, Buffer, Storage, theirs
<1>7. /\ Len(heap[ours]) = Len(keys)
      /\ \A j \in DOMAIN keys : /\ heap[ours][j] = Export!NoView(keys[j])
                               /\ AttributesOf(Storage, heap[backings][j], keys[j], FALSE)
  BY <1>2 DEF ScopesKept, Buffer, Storage, ours
<1>8. DOMAIN heap[theirs] = 1..done /\ DOMAIN heap[ours] = DOMAIN keys
  <2>1. heap[theirs] \in Seq(Item) /\ heap[ours] \in Seq(Item)
    BY <1>3, <1>4
  <2>2. QED
    BY <1>2, <1>6, <1>7, <2>1
<1>9. /\ DOMAIN settled = 1..done
      /\ \A i \in 1..done :
           settled[i] = [of |-> i, attributes |-> Attributes(i),
                         scope |-> [to |-> ours, at |-> indices[i]], events |-> Events(i)]
  <2>1. settled = [i \in DOMAIN heap[theirs] |->
                     [heap[theirs][i] EXCEPT !.attributes = Attributes(i),
                                             !.scope = [to |-> ours, at |-> indices[i]],
                                             !.events = Events(i)]]
    BY DEF settled, theirs, ours, Export!SettledRecords, Export!Contents, Export!Inner
  <2> HIDE DEF Attributes, Events
  <2>2. DOMAIN settled = 1..done
    BY <1>8, <2>1
  <2>3. ASSUME NEW i \in 1..done
        PROVE  settled[i] = [of |-> i, attributes |-> Attributes(i),
                             scope |-> [to |-> ours, at |-> indices[i]], events |-> Events(i)]
    <3>1. settled[i] = [heap[theirs][i] EXCEPT !.attributes = Attributes(i),
                                              !.scope = [to |-> ours, at |-> indices[i]],
                                              !.events = Events(i)]
      BY <1>8, <2>1, <2>3
    <3>2. heap[theirs][i] = Export!NoView(i)
      BY <1>6, <2>3
    <3> DEFINE scope == [to |-> ours, at |-> indices[i]]
    <3> HIDE DEF scope
    <3>3. [Export!NoView(i) EXCEPT !.attributes = Attributes(i), !.scope = scope, !.events = Events(i)]
          = [of |-> i, attributes |-> Attributes(i), scope |-> scope, events |-> Events(i)]
      BY Pointed
    <3>4. QED
      BY <3>1, <3>2, <3>3 DEF scope
  <2>4. QED
    BY <2>2, <2>3
<1>10. /\ DOMAIN scoped = DOMAIN keys
       /\ \A j \in DOMAIN keys :
            scoped[j] = [of |-> keys[j], attributes |-> heap[backings][j], scope |-> Null, events |-> Null]
  <2>1. scoped = [j \in DOMAIN heap[ours] |->
                    [heap[ours][j] EXCEPT !.attributes = heap[backings][j]]]
    BY DEF scoped, ours, Export!SettledScopes, Export!Contents, Export!Inner
  <2> HIDE DEF backings
  <2>2. DOMAIN scoped = DOMAIN keys
    BY <1>8, <2>1
  <2>3. ASSUME NEW j \in DOMAIN keys
        PROVE  scoped[j] = [of |-> keys[j], attributes |-> heap[backings][j], scope |-> Null,
                            events |-> Null]
    <3>1. scoped[j] = [heap[ours][j] EXCEPT !.attributes = heap[backings][j]]
      BY <1>8, <2>1, <2>3
    <3>2. heap[ours][j] = Export!NoView(keys[j])
      BY <1>7, <2>3
    <3>3. QED
      BY <3>1, <3>2, ScopePointed
  <2>4. QED
    BY <2>2, <2>3
<1> HIDE DEF Attributes, Events, backings
<1>11. Len(heap'[theirs]) = Len(records)
  <2>1. settled = [i \in 1..done |-> settled[i]]
    BY <1>9 DEF settled, Export!SettledRecords
  <2>2. QED
    BY <1>1, <1>5, <1>6, <2>1
<1> DEFINE after == heap'
<1>12. ASSUME NEW i \in DOMAIN records
       PROVE  RecordReads(after, theirs, i, records[i], kind = "spans")
  <2>1. i \in 1..done /\ i \in Nat /\ i \in Owners
    BY <1>6, <1>12 DEF Owners
  <2> DEFINE j == indices[i]
             scope == records[i].scope
             record == [of |-> i, attributes |-> Attributes(i),
                        scope |-> [to |-> ours, at |-> j], events |-> Events(i)]
             held == [of |-> scope, attributes |-> heap[backings][j], scope |-> Null, events |-> Null]
  <2>2. j \in DOMAIN keys /\ keys[j] = scope /\ j \in Nat /\ scope \in Owners
    <3>1. j \in DOMAIN keys /\ keys[j] = scope
      BY <1>2, <2>1 DEF IndicesKept
    <3>2. j \in Nat /\ keys[j] \in Scopes
      BY <1>2, <3>1
    <3>3. QED
      BY <3>1, <3>2 DEF Owners
  <2> HIDE DEF j, scope
  <2>3. /\ AttributesOf(Storage, Attributes(i), i, records[i].array)
        /\ kind = "spans" => EventsOf(Storage, Events(i), i)
        /\ AttributesOf(Storage, heap[backings][j], scope, FALSE)
    BY <1>6, <1>7, <2>1, <2>2
  <2>4. Events(i) \in Nat \cup {Null}
    BY <2>3 DEF Events, EventsOf
  <2>5. record # Null /\ held # Null
    <3>1. Attributes(i) \in Nat /\ heap[backings][j] \in Nat
      BY <2>3 DEF AttributesOf
    <3>2. [to |-> ours, at |-> j] \in Pointers
      BY <1>4, <2>2 DEF Pointers
    <3>3. record \in RecordViews /\ held \in RecordViews
      BY <2>1, <2>2, <2>4, <3>1, <3>2 DEF RecordViews
    <3>4. QED
      BY <3>3, ExportAssumption DEF ExportAssumption
  <2>6. Behind(after, [to |-> theirs, at |-> i]) = record /\ Export!IsOf(record, i)
    <3>1. after[theirs][i] = record /\ i \in DOMAIN after[theirs] /\ record.of = i
      <4>1. settled[i] = record /\ i \in DOMAIN settled
        BY <1>9, <2>1 DEF j
      <4>2. QED
        BY <1>5, <4>1
    <3> HIDE DEF record, after
    <3>2. QED
      BY <2>5, <3>1 DEF Behind, Export!IsOf
  <2>7. Behind(after, record.scope) = held /\ Export!IsOf(held, scope)
    <3>1. held = scoped[j] /\ j \in DOMAIN scoped
      BY <1>10, <2>2
    <3>2. QED
      BY <1>5, <2>5, <3>1 DEF Behind, Export!IsOf
  <2>8. PICK value \in Pointers \cup {Null} :
          /\ heap[Attributes(i)] = <<[of |-> i, value |-> value]>>
          /\ records[i].array => /\ value \in Pointers /\ Stable(Storage, value.to) /\ value.at = 1
                                 /\ heap[value.to] = <<[of |-> i]>>
    BY <2>3 DEF AttributesOf, Storage
  <2> DEFINE attribute == [of |-> i, value |-> value]
  <2>9. Behind(after, [to |-> record.attributes, at |-> 1]) = attribute /\ Export!IsOf(attribute, i)
    <3>1. after[Attributes(i)] = <<attribute>>
      BY <1>5, <2>3, <2>8 DEF AttributesOf
    <3>2. attribute # Null
      <4>1. attribute \in AttributeViews
        BY <2>1, <2>8 DEF AttributeViews
      <4>2. QED
        BY <4>1, ExportAssumption DEF ExportAssumption
    <3>3. record.attributes = Attributes(i)
      OBVIOUS
    <3> HIDE DEF record, after
    <3>4. QED
      BY <3>1, <3>2, <3>3, FoundFirst DEF Export!IsOf
  <2>10. records[i].array => Export!IsOf(Behind(after, attribute.value), i)
    <3> SUFFICES ASSUME records[i].array PROVE Export!IsOf(Behind(after, value), i)
      OBVIOUS
    <3>1. after[value.to] = <<[of |-> i]>> /\ value.at = 1
      BY <1>5, <2>8
    <3>2. [of |-> i] # Null
      <4>1. [of |-> i] \in ValueViews
        BY <2>1 DEF ValueViews
      <4>2. QED
        BY <4>1, ExportAssumption DEF ExportAssumption
    <3> HIDE DEF after
    <3>3. QED
      BY <3>1, <3>2 DEF Behind, Export!IsOf
  <2>11. Export!IsOf(Behind(after, [to |-> held.attributes, at |-> 1]), scope)
    <3>1. PICK whose \in Pointers \cup {Null} :
            heap[heap[backings][j]] = <<[of |-> scope, value |-> whose]>>
      BY <2>3 DEF AttributesOf, Storage
    <3>2. after[heap[backings][j]] = <<[of |-> scope, value |-> whose]>>
      BY <1>5, <2>3, <3>1 DEF AttributesOf
    <3>3. [of |-> scope, value |-> whose] # Null
      <4>1. [of |-> scope, value |-> whose] \in AttributeViews
        BY <2>2, <3>1 DEF AttributeViews
      <4>2. QED
        BY <4>1, ExportAssumption DEF ExportAssumption
    <3>4. held.attributes = heap[backings][j]
      OBVIOUS
    <3> HIDE DEF held, after
    <3>5. QED
      BY <3>2, <3>3, <3>4, FoundFirst DEF Export!IsOf
  <2>12. kind = "spans" => Export!IsOf(Behind(after, [to |-> record.events, at |-> 1]), i)
    <3> SUFFICES ASSUME kind = "spans"
                 PROVE  Export!IsOf(Behind(after, [to |-> record.events, at |-> 1]), i)
      OBVIOUS
    <3>1. after[Events(i)] = <<Export!NoView(i)>>
      BY <1>5, <2>3 DEF EventsOf, Storage
    <3>2. Export!NoView(i) # Null /\ Export!NoView(i).of = i
      <4>1. Export!NoView(i) \in RecordViews
        BY <2>1 DEF Export!NoView, RecordViews
      <4>2. QED
        BY <4>1, ExportAssumption DEF ExportAssumption, Export!NoView
    <3>3. record.events = Events(i)
      OBVIOUS
    <3> HIDE DEF record, after
    <3>4. QED
      BY <3>1, <3>2, <3>3, FoundFirst DEF Export!IsOf
  <2> HIDE DEF record, held, attribute, after
  <2>13. QED
    BY <2>6, <2>7, <2>9, <2>10, <2>11, <2>12 DEF RecordReads, scope
<1>13. ReadsAll'
  <2>1. theirs' = theirs /\ after = heap'
    BY <1>1 DEF theirs
  <2>2. QED
    BY <1>1, <1>11, <1>12, <2>1 DEF ReadsAll, theirs
<1>14. QED
  BY <1>1, <1>2, <1>13 DEF ExportInv, SoFarWhole

LEMMA ExportStepInv ==
  ASSUME ExportInv, Export!Next \/ UNCHANGED exportVars
  PROVE  ExportInv'
<1>1. CASE Export!Next
  BY <1>1, ConvertStep, ConvertFailsStep, SettleStep, ShowStep, DropStep DEF Export!Next
<1>2. CASE UNCHANGED exportVars
  BY <1>2, ExportStays
<1>3. QED
  BY <1>1, <1>2

(* However many records and scopes a batch has and whichever buffers moved while it was
   converted, the callback is shown the whole batch, each record with its own attributes,
   arrays, events and scope, or nothing of it (log_export_view.rs:855-982,
   span_export_view.rs:483-604). *)
THEOREM BatchViewsFaithfulHolds == DataPathSpec => []BatchViewsFaithful
<1> DEFINE I == part = "export_views" => ExportInv
<1>1. DataPathInit => I
  BY ExportInit DEF DataPathInit
<1>2. I /\ [DataPathNext]_<<OthersThanPipeline, vars>> => I'
  BY PartSteps, ExportStepInv
<1>3. I => BatchViewsFaithful
  BY ExportInvMeans DEF BatchViewsFaithful
<1> HIDE DEF I
<1>4. QED
  BY <1>1, <1>2, <1>3, PTL DEF DataPathSpec
================================================================================
