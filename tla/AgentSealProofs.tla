--------------------------- MODULE AgentSealProofs ---------------------------
(***************************************************************************)
(* What sealed_stage guards, for any evidence, battery and repeat.         *)
(*                                                                         *)
(* The argument: a run whose stage has returned past the second            *)
(* fingerprint has its evidence as collected, and only a thread that is    *)
(* still alive can change it then.  The concurrent one is joined before    *)
(* the stage returns; what is left is the deferred one, of a stage that    *)
(* reaches the live evidence.  All other runs build one and the same       *)
(* artifact, the baseline's.                                               *)
(*                                                                         *)
(* The certificate: every result of the report is weighed against the      *)
(* artifacts produced so far, every run that told apart or failed is in    *)
(* some result, and results and battery advance together, so the report    *)
(* that is certified leaves nothing out.                                   *)
(***************************************************************************)
EXTENDS AgentSeal, SequenceTheorems, FiniteSetTheorems, TLAPS

InRun == {"stage", "sleeping", "returning", "count", "copy", "fingerprint"}

Guarded == setup.pipeline.stage # "bare"

\* The one way past the guard.
Escapes == setup.pipeline.stage = "closing" /\ Variant = "deferred"

CollectedList == [k \in DOMAIN Evidence |-> k]

CollectedBlockers ==
    Cardinality({k \in DOMAIN CollectedList : Evidence[CollectedList[k]].blocking})

\* The artifact of evidence nobody touched, without the stage's output.
CollectedDigest ==
    [results |-> [k \in DOMAIN CollectedList |-> Evidence[CollectedList[k]]],
     blockers |-> CollectedBlockers,
     output |-> "unused"]

\* A thread outlives its stage only if it is the deferred one, and exists only
\* for a stage that reaches the evidence.
Threads ==
    at \in InRun /\ hand # "none" =>
        /\ setup.pipeline.stage # "sealed"
        /\ at = "sleeping" \/ Variant = "deferred"

\* Past the guard, nothing has moved.
Unmoved ==
    Guarded /\ ~Escapes =>
        /\ at \in {"count", "copy", "fingerprint"} => ~Moved
        /\ at \in {"copy", "fingerprint"} => counted = CollectedBlockers
        /\ at = "fingerprint" => copied = CollectedList

Baselined ==
    turn > 0 /\ Guarded /\ ~setup.pipeline.output => baseline = CollectedDigest

\* The control stage touches nothing, and comes first.
Control ==
    turn = 0 => /\ produced = {}
                /\ at \in InRun => ~Moved /\ hand = "none"

IInv ==
    /\ setup.pipeline \in Pipelines
    /\ turn \in Nat
    /\ at = "stage" => hand = "none"
    /\ Threads /\ Control /\ Unmoved /\ Baselined /\ OnlyDeferredPassesTheGuard

-----------------------------------------------------------------------------

\* An artifact built past the guard from evidence that did not move is the
\* baseline's (stage.py:34-45, fingerprint.py).
LEMMA UnmovedArtifact ==
    ASSUME IInv, at = "fingerprint", Guarded, ~Escapes, ~setup.pipeline.output
    PROVE  Digest = CollectedDigest
<1>1. /\ list = CollectedList /\ entries = Evidence
      /\ counted = CollectedBlockers /\ copied = CollectedList
  BY DEF IInv, Unmoved, Moved, CollectedList
<1>2. QED
  BY <1>1 DEF Digest, CollectedDigest

\* The control stage is not the one that gets past the guard.
LEMMA BaselineStays == turn = 0 => ~Escapes
BY DEF Escapes, Variant

\* A step outside a run, or one that ends it, asks nothing of the evidence.
LEMMA RunEnds ==
    ASSUME IInv, UNCHANGED setup, turn' \in Nat, at' \notin InRun,
           turn' = 0 => produced' = {},
           Baselined', OnlyDeferredPassesTheGuard'
    PROVE  IInv'
<1>1. Threads' /\ Control' /\ Unmoved' /\ at' # "stage"
  BY DEF InRun, Threads, Control, Unmoved
<1>2. QED
  BY <1>1 DEF IInv

\* A step inside a run leaves the check around it alone.
LEMMA CheckStays ==
    ASSUME IInv, UNCHANGED check
    PROVE  /\ setup.pipeline' \in Pipelines /\ turn' \in Nat
           /\ Baselined' /\ OnlyDeferredPassesTheGuard'
           /\ setup' = setup /\ turn' = turn /\ produced' = produced
           /\ Variant' = Variant /\ Guarded' = Guarded /\ Escapes' = Escapes
BY DEF IInv, check, Baselined, OnlyDeferredPassesTheGuard, Variant, Battery,
       Guarded, Escapes

LEMMA InitInv == Init => IInv
BY DEF Init, IInv, Threads, Control, Unmoved, Baselined,
       OnlyDeferredPassesTheGuard, InRun

\* Up to the second fingerprint the evidence is the stage's to alter.
LEMMA BeforeGuardInv == IInv /\ (Collect \/ Stage \/ Join) => IInv'
<1> SUFFICES ASSUME IInv, Collect \/ Stage \/ Join PROVE IInv'
  OBVIOUS
<1>1. UNCHANGED check /\ at' \in {"stage", "sleeping", "returning"}
  BY DEF Collect, Stage, Join
<1>2. Unmoved'
  BY <1>1 DEF Unmoved
<1>3. Threads' /\ (at' = "stage" => hand' = "none")
  <2>1. CASE Collect \/ Join
    BY <2>1, <1>1 DEF Collect, Join, Threads
  <2>2. CASE Stage
    <3>1. hand' # "none" => /\ setup.pipeline.stage # "sealed"
                            /\ Variant = "deferred" \/ Variant = "concurrent"
      BY <2>2 DEF Stage, Reaches
    <3>2. Variant = "concurrent" => at' = "sleeping"
      BY <2>2 DEF Stage
    <3>3. at' # "stage"
      BY <2>2 DEF Stage
    <3>4. QED
      BY <1>1, <3>1, <3>2, <3>3, CheckStays DEF Threads
  <2>3. QED
    BY <2>1, <2>2
<1>4. Control'
  <2>1. CASE Collect
    BY <2>1, <1>1, CheckStays DEF Collect, IInv, Control, Moved
  <2>2. CASE Stage
    <3> SUFFICES ASSUME turn = 0 PROVE ~Moved' /\ hand' = "none"
      BY <1>1, CheckStays DEF IInv, Control
    <3>1. Variant = "baseline" /\ ~Moved
      BY <2>2 DEF Variant, IInv, Control, InRun, Stage
    <3>2. list' = list /\ entries' = entries /\ hand' = "none"
      BY <2>2, <3>1 DEF Stage, Touching
    <3>3. QED
      BY <3>1, <3>2 DEF Moved
  <2>3. CASE Join
    BY <2>3, CheckStays DEF Join, check, IInv, Control, InRun, Moved
  <2>4. QED
    BY <2>1, <2>2, <2>3
<1>5. QED
  BY <1>1, <1>2, <1>3, <1>4, CheckStays DEF IInv

\* A thread alive past the guard belongs to the stage that escapes it.
LEMMA ThreadInv == IInv /\ (ThreadClears \/ DeadlinePasses) => IInv'
<1> SUFFICES ASSUME IInv, ThreadClears \/ DeadlinePasses PROVE IInv'
  OBVIOUS
<1>1. /\ UNCHANGED check /\ at' = at /\ hand # "none"
      /\ counted' = counted /\ copied' = copied
      /\ hand' = hand \/ hand' = "none"
  BY DEF ThreadClears, DeadlinePasses
<1>2. Threads' /\ (at' = "stage" => hand' = "none")
  BY <1>1, CheckStays DEF IInv, Threads
<1>3. Unmoved'
  <2>1. at \in {"count", "copy", "fingerprint"} => ~Guarded \/ Escapes
    BY <1>1 DEF IInv, Threads, InRun, Pipelines, Guarded, Escapes
  <2>2. QED
    BY <1>1, <2>1, CheckStays DEF Unmoved
<1>4. Control'
  BY <1>1, CheckStays DEF IInv, Control
<1>5. QED
  BY <1>1, <1>2, <1>3, <1>4, CheckStays DEF IInv

\* Past the guard the pipeline only reads.
LEMMA PastGuardInv == IInv /\ (Return \/ Count \/ Copy) => IInv'
<1> SUFFICES ASSUME IInv, Return \/ Count \/ Copy PROVE IInv'
  OBVIOUS
<1>1. /\ UNCHANGED check /\ hand' = hand /\ list' = list /\ entries' = entries
      /\ at \in {"returning", "count", "copy"}
      /\ at' \in {"count", "copy", "fingerprint"}
  BY DEF Return, Count, Copy
<1>2. Threads' /\ at' # "stage"
  BY <1>1, CheckStays DEF IInv, Threads, InRun
<1>3. Moved' = Moved
  BY <1>1 DEF Moved
<1>4. Unmoved'
  <2> SUFFICES ASSUME Guarded, ~Escapes
               PROVE  /\ ~Moved
                      /\ at' \in {"copy", "fingerprint"} => counted' = CollectedBlockers
                      /\ at' = "fingerprint" => copied' = CollectedList
    BY <1>1, <1>3, CheckStays DEF Unmoved
  <2>1. CASE Return
    BY <2>1 DEF Return, Guarded
  <2>2. CASE Count
    <3>1. ~Moved /\ at' = "copy"
      BY <2>2 DEF Count, IInv, Unmoved
    <3>2. list = CollectedList /\ entries = Evidence
      BY <3>1 DEF Moved, CollectedList
    <3>3. counted' = CollectedBlockers
      BY <2>2, <3>2 DEF Count, CollectedBlockers
    <3>4. QED
      BY <3>1, <3>3
  <2>3. CASE Copy
    <3>1. ~Moved /\ counted' = CollectedBlockers /\ copied' = list
      BY <2>3 DEF Copy, IInv, Unmoved
    <3>2. QED
      BY <3>1 DEF Moved, CollectedList
  <2>4. QED
    BY <2>1, <2>2, <2>3
<1>5. Control'
  BY <1>1, <1>3, CheckStays DEF IInv, Control, InRun
<1>6. QED
  BY <1>1, <1>2, <1>4, <1>5, CheckStays DEF IInv

\* Without a new artifact the guard's record stands.
LEMMA GuardStays ==
    ASSUME IInv, setup' = setup, produced' = produced,
           baseline' = baseline \/ turn = 0
    PROVE  OnlyDeferredPassesTheGuard'
<1>1. OnlyDeferredPassesTheGuard /\ Battery' = Battery
  BY DEF IInv, Battery
<1>2. SUFFICES ASSUME NEW p \in produced, setup.pipeline.stage # "bare",
                      ~setup.pipeline.output, p.digest # baseline'
               PROVE  setup.pipeline.stage = "closing" /\ Battery[p.turn] = "deferred"
  BY <1>1 DEF OnlyDeferredPassesTheGuard
<1>3. turn # 0
  BY DEF IInv, Control
<1>4. QED
  BY <1>1, <1>2, <1>3 DEF OnlyDeferredPassesTheGuard

\* What a repeat or a verdict on a variant leaves alone.
LEMMA VerdictKeeps ==
    ASSUME IInv, NEW d, NEW i, NEW e, NEW b, Record(d, i, e, b) \/ Repeat(d, e),
           turn > 0
    PROVE  /\ setup' = setup /\ baseline' = baseline /\ turn' \in Nat /\ turn' # 0
           /\ at' \notin InRun
BY DEF Record, Repeat, IInv, InRun

\* The baseline is the artifact of evidence nobody touched.
LEMMA BaselineInv == IInv /\ BaselineDone => IInv'
<1> SUFFICES ASSUME IInv, BaselineDone PROVE IInv'
  OBVIOUS
<1>1. /\ setup' = setup /\ produced' = produced /\ turn' = 1 /\ turn = 0
      /\ at' \notin InRun /\ at = "fingerprint" /\ baseline' = Digest
  BY DEF BaselineDone, InRun
<1>2. Baselined'
  BY <1>1, UnmovedArtifact, BaselineStays DEF Baselined, Guarded
<1>3. OnlyDeferredPassesTheGuard'
  BY <1>1, GuardStays
<1>4. QED
  BY <1>1, <1>2, <1>3, RunEnds

LEMMA UnchangedInv == IInv /\ UNCHANGED vars => IInv'
BY CheckStays DEF vars, check, IInv, Threads, Control, Unmoved, Moved

\* What a verdict keeps is enough for the baseline's part of the invariant.
LEMMA BaselinedStays ==
    ASSUME IInv, setup' = setup, baseline' = baseline, turn > 0
    PROVE  Baselined'
BY DEF IInv, Baselined, Guarded

\* A hostile run ends with an artifact, the baseline's unless it escaped.
LEMMA CompareInv == IInv /\ Compare => IInv'
<1> SUFFICES ASSUME IInv, Compare PROVE IInv'
  OBVIOUS
<1>1. /\ at = "fingerprint" /\ turn > 0
      /\ produced' = produced \union {[turn |-> turn, digest |-> Digest]}
  BY DEF Compare
<1>2. /\ setup' = setup /\ baseline' = baseline /\ turn' \in Nat
      /\ turn' # 0 /\ at' \notin InRun
  <2>1. \E i, e : Record(Digest, i, e, FALSE) \/ Repeat(Digest, e)
    BY DEF Compare
  <2>2. QED
    BY <1>1, <2>1, VerdictKeeps
<1>3. Baselined'
  BY <1>1, <1>2, BaselinedStays
<1>4. OnlyDeferredPassesTheGuard'
  <2> DEFINE new == [turn |-> turn, digest |-> Digest]
  <2>1. new.turn = turn /\ new.digest = Digest
    OBVIOUS
  <2> HIDE DEF new
  <2> SUFFICES ASSUME NEW p \in produced \union {new}, Guarded,
                      ~setup.pipeline.output, p.digest # baseline
               PROVE  setup.pipeline.stage = "closing" /\ Battery[p.turn] = "deferred"
    BY <1>1, <1>2 DEF OnlyDeferredPassesTheGuard, Battery, Guarded, new
  <2>2. CASE p \in produced
    BY <2>2 DEF IInv, OnlyDeferredPassesTheGuard, Guarded
  <2>3. CASE p = new
    <3>1. Digest # CollectedDigest
      BY <1>1, <2>1, <2>3 DEF IInv, Baselined
    <3>2. Escapes
      BY <1>1, <3>1, UnmovedArtifact
    <3>3. QED
      BY <1>1, <2>1, <2>3, <3>2 DEF IInv, Escapes, Variant
  <2>4. QED
    BY <2>2, <2>3
<1>5. QED
  BY <1>2, <1>3, <1>4, RunEnds

\* A run ends without an artifact, or the whole check ends.
LEMMA NoArtifactInv ==
    IInv /\ (SealBreaks \/ PipelineRaises \/ Certify \/ Ended) => IInv'
<1> SUFFICES ASSUME IInv, SealBreaks \/ PipelineRaises \/ Certify \/ Ended
             PROVE  IInv'
  OBVIOUS
<1>1. turn = 0 \/ turn > 0
  BY DEF IInv
<1>2. SealBreaks => turn > 0
  <2> SUFFICES ASSUME SealBreaks, turn = 0 PROVE FALSE
    BY <1>1
  <2>1. at \in InRun /\ Moved
    BY DEF SealBreaks, InRun
  <2>2. QED
    BY <2>1 DEF IInv, Control
<1>3. CASE (SealBreaks \/ PipelineRaises) /\ turn > 0
  <2>1. produced' = produced
    BY <1>3 DEF SealBreaks, PipelineRaises
  <2>2. Record(None, FALSE, TRUE, TRUE) \/ Repeat(None, TRUE)
    <3>1. turn # 0
      BY <1>3
    <3>2. SealBreaks => Record(None, FALSE, TRUE, TRUE)
      BY Zenon DEF SealBreaks
    <3>3. PipelineRaises => Repeat(None, TRUE)
      BY <3>1, Zenon DEF PipelineRaises
    <3>4. QED
      BY <1>3, <3>2, <3>3
  <2>3. /\ setup' = setup /\ baseline' = baseline /\ turn' \in Nat
        /\ turn' # 0 /\ at' \notin InRun
    <3>1. CASE Record(None, FALSE, TRUE, TRUE)
      BY <1>3, <3>1, VerdictKeeps
    <3>2. CASE Repeat(None, TRUE)
      BY <1>3, <3>2, VerdictKeeps
    <3>3. QED
      BY <2>2, <3>1, <3>2
  <2>4. QED
    BY <1>3, <2>1, <2>3, BaselinedStays, GuardStays, RunEnds
<1>4. CASE PipelineRaises /\ turn = 0
  <2>1. /\ setup' = setup /\ turn' = turn /\ baseline' = baseline
        /\ produced' = produced /\ at' = "raised"
    BY <1>4 DEF PipelineRaises
  <2>2. at' \notin InRun /\ turn' \in Nat /\ Baselined'
    BY <1>4, <2>1 DEF InRun, IInv, Baselined, Guarded
  <2>3. QED
    BY <2>1, <2>2, GuardStays, RunEnds DEF IInv, Control
<1>5. CASE Certify
  <2>1. UNCHANGED check /\ at' = "certified"
    BY <1>5 DEF Certify
  <2>2. at' \notin InRun
    BY <2>1 DEF InRun
  <2>3. QED
    BY <2>1, <2>2, CheckStays, RunEnds DEF IInv, Control
<1>6. CASE Ended
  BY <1>6, UnchangedInv DEF Ended
<1>7. QED
  BY <1>1, <1>2, <1>3, <1>4, <1>5, <1>6

\* A fingerprint that fails: the pipeline goes on without it, or the run ends.
LEMMA FingerprintInv == IInv /\ FingerprintRaces => IInv'
<1> SUFFICES ASSUME IInv, FingerprintRaces PROVE IInv'
  OBVIOUS
<1>1. /\ hand = "deferred" /\ hand' = hand /\ produced' = produced
      /\ at \in {"returning", "fingerprint"}
  BY DEF FingerprintRaces
<1>2. turn > 0
  BY <1>1 DEF IInv, Control, InRun
<1>3. CASE at = "returning"
  <2>1. /\ setup' = setup /\ turn' = turn /\ baseline' = baseline
        /\ at' = "count" /\ setup.pipeline.stage = "closing"
    BY <1>3 DEF FingerprintRaces
  <2>2. Escapes' /\ Variant' = Variant
    BY <1>1, <2>1, <1>3 DEF IInv, Threads, InRun, Escapes, Variant, Battery
  <2>3. Threads' /\ Unmoved' /\ Control'
    BY <1>1, <1>2, <1>3, <2>1, <2>2 DEF IInv, Threads, Unmoved, Control, InRun
  <2>4. QED
    BY <1>1, <1>2, <2>1, <2>3, BaselinedStays, GuardStays DEF IInv
<1>4. CASE at = "fingerprint"
  <2>1. \E d, e : Repeat(d, e)
    BY <1>4 DEF FingerprintRaces
  <2>2. /\ setup' = setup /\ baseline' = baseline /\ turn' \in Nat
        /\ turn' # 0 /\ at' \notin InRun
    BY <1>2, <2>1, VerdictKeeps
  <2>3. QED
    BY <1>1, <1>2, <2>2, BaselinedStays, GuardStays, RunEnds
<1>5. QED
  BY <1>1, <1>3, <1>4

LEMMA NextInv == IInv /\ [Next]_vars => IInv'
BY BeforeGuardInv, ThreadInv, PastGuardInv, BaselineInv, CompareInv,
   NoArtifactInv, FingerprintInv, UnchangedInv DEF Next

-----------------------------------------------------------------------------

\* Behind sealed_stage no variant but the deferred one, of a stage that reaches
\* the live evidence, moves an artifact: for any evidence, battery and number of
\* repeats, and however its thread is scheduled (stage.py:34-45).
THEOREM GuardTheorem == Spec => []OnlyDeferredPassesTheGuard
<1>1. IInv => OnlyDeferredPassesTheGuard
  BY DEF IInv
<1>2. QED
  BY <1>1, InitInv, NextInv, PTL DEF Spec

-----------------------------------------------------------------------------
(* The certificate.                                                        *)

\* What the verdict on a variant rests on: an influence on an artifact that
\* differs, a block on a run without one, a seal on one that does not differ.
Weighed(r, artifacts, control) ==
    /\ r.influenced \in BOOLEAN /\ r.error \in BOOLEAN /\ r.blocked \in BOOLEAN
    /\ r.influenced => \E p \in artifacts : p.digest # control
    /\ r.blocked => r.error /\ r.digest = None /\ ~r.influenced
    /\ ~r.influenced /\ ~r.error => r.digest = control

\* How far the check is, told from its results.
InStep ==
    /\ setup.battery \in Batteries
    /\ \E S : results \in Seq(S)
    /\ IF turn = 0 THEN results = <<>> /\ at \notin {"reported", "certified"}
       ELSE /\ Len(results) = turn - 1
            /\ IF at \in {"reported", "certified"} THEN turn = Len(Battery) + 1
               ELSE turn <= Len(Battery)

NothingForgotten ==
    \A p \in produced : p.digest # baseline =>
        \E k \in 1..Len(results) : results[k].influenced

ReportInv ==
    /\ InStep
    /\ probe.error \in BOOLEAN
    /\ \A k \in 1..Len(results) : Weighed(results[k], produced, baseline)
    /\ NothingForgotten
    /\ certificate # None => at = "certified" /\ certificate = BuildCertificate

LEMMA InitReport == Init => ReportInv
<1> SUFFICES ASSUME Init PROVE ReportInv
  OBVIOUS
<1>1. results \in Seq({}) /\ Len(results) = 0 /\ 1..0 = {}
  BY DEF Init
<1>2. InStep
  BY <1>1 DEF Init, InStep
<1>3. probe.error \in BOOLEAN /\ certificate = None /\ produced = {}
  BY DEF Init, NoProbe
<1>4. QED
  BY <1>1, <1>2, <1>3 DEF ReportInv, NothingForgotten

\* A step that leaves the check where it is, and its stage short of a report.
LEMMA ReportStays ==
    ASSUME ReportInv, UNCHANGED <<check, certificate>>,
           at \in {"reported", "certified"} <=> at' \in {"reported", "certified"},
           at = "certified" => at' = at
    PROVE  ReportInv'
<1>1. UNCHANGED <<setup, turn, probe, baseline, results, produced>>
  BY DEF check
<1>2. InStep' /\ NothingForgotten'
  BY <1>1 DEF ReportInv, InStep, NothingForgotten, Battery
<1>3. produced' = produced /\ baseline' = baseline /\ results' = results
  BY <1>1 DEF check
<1>4. BuildCertificate' = BuildCertificate
  BY <1>1 DEF BuildCertificate
<1>5. QED
  BY <1>1, <1>2, <1>3, <1>4 DEF ReportInv

LEMMA BatteryTyped ==
    ASSUME ReportInv
    PROVE  Battery \in Seq(Behaviours) /\ Len(Battery) \in Nat
BY AgentSealAssumption DEF ReportInv, InStep, Battery

\* The check goes on after a run: nothing is forgotten if what the run built is
\* the baseline's, or the verdict is an influence.
LEMMA RecordReport ==
    ASSUME IInv, ReportInv, turn > 0, at \notin {"reported", "certified"},
           NEW d, NEW i, NEW e, NEW b, Record(d, i, e, b),
           certificate' = certificate, produced \subseteq produced',
           \A p \in produced' \ produced : p.digest # baseline => i,
           Weighed([digest |-> d, influenced |-> i, error |-> e, blocked |-> b],
            produced', baseline')
    PROVE  ReportInv'
<1> DEFINE r == [digest |-> d, influenced |-> i, error |-> e, blocked |-> b]
<1>1. /\ results' = Append(results, r) /\ turn' = turn + 1 /\ probe' = NoProbe
      /\ at' = IF turn = Len(Battery) THEN "reported" ELSE "collect"
      /\ setup' = setup /\ baseline' = baseline
  BY DEF Record
<1>2. r.influenced = i /\ Weighed(r, produced', baseline')
  OBVIOUS
<1> HIDE DEF r
<1>3. PICK S : results \in Seq(S)
  BY DEF ReportInv, InStep
<1>4. results \in Seq(S \union {r}) /\ r \in S \union {r} /\ Len(results) \in Nat
  BY <1>3
<1>5. /\ results' \in Seq(S \union {r})
      /\ Len(results') = Len(results) + 1
      /\ \A k \in 1..Len(results) : results'[k] = results[k]
      /\ results'[Len(results) + 1] = r
  BY <1>1, <1>4, AppendProperties
<1>6. turn \in Nat /\ Len(results) = turn - 1 /\ turn <= Len(Battery) /\ turn # 0
  BY DEF IInv, ReportInv, InStep
<1>7. InStep'
  <2>1. Battery' = Battery /\ turn' = turn + 1 /\ turn' # 0
    BY <1>1, <1>6 DEF Battery
  <2>2. Len(results') = turn' - 1
    BY <1>1, <1>5, <1>6
  <2>3. at' = "reported" => turn' = Len(Battery) + 1
    BY <1>1
  <2>4. at' # "reported" => turn' <= Len(Battery)
    BY <1>1, <1>6, BatteryTyped
  <2>5. at' \in {"reported", "collect"}
    BY <1>1
  <2>6. setup'.battery \in Batteries
    BY <1>1 DEF ReportInv, InStep
  <2>7. QED
    BY <1>5, <2>1, <2>2, <2>3, <2>4, <2>5, <2>6 DEF InStep
<1>8. \A k \in 1..Len(results') : k \in 1..Len(results) \/ k = Len(results) + 1
  BY <1>4, <1>5
<1>9. \A k \in 1..Len(results) : Weighed(results[k], produced', baseline')
  BY <1>1 DEF ReportInv, Weighed
<1>10. \A k \in 1..Len(results') : Weighed(results'[k], produced', baseline')
  BY <1>2, <1>5, <1>8, <1>9
<1>11. 1..Len(results) \subseteq 1..Len(results') /\ Len(results) + 1 \in 1..Len(results')
  BY <1>4, <1>5
<1>12. NothingForgotten'
  BY <1>1, <1>2, <1>5, <1>11 DEF ReportInv, NothingForgotten
<1>13. certificate = None /\ probe'.error \in BOOLEAN
  BY <1>1 DEF ReportInv, NoProbe
<1>14. QED
  BY <1>7, <1>10, <1>12, <1>13 DEF ReportInv

\* The same for a run that settles nothing.
LEMMA RepeatReport ==
    ASSUME IInv, ReportInv, turn > 0, at \notin {"reported", "certified"},
           NEW d, NEW e \in BOOLEAN, Repeat(d, e),
           certificate' = certificate, produced \subseteq produced',
           \A p \in produced' \ produced : p.digest = baseline,
           ~e => d = baseline
    PROVE  ReportInv'
<1>1. baseline' = baseline
  BY DEF Repeat, Record
<1>2. CASE Record(d, FALSE, e, FALSE)
  <2>1. Weighed([digest |-> d, influenced |-> FALSE, error |-> e, blocked |-> FALSE],
            produced', baseline')
    BY <1>1 DEF Weighed
  <2>2. QED
    BY <1>2, <2>1, RecordReport
<1>3. CASE ~Record(d, FALSE, e, FALSE)
  <2>1. /\ at' = "collect" /\ probe' = [digest |-> d, error |-> e]
        /\ UNCHANGED <<setup, turn, baseline, results>>
    BY <1>3 DEF Repeat
  <2>2. InStep'
    BY <2>1 DEF ReportInv, InStep, Battery
  <2>3. \A k \in 1..Len(results') : Weighed(results'[k], produced', baseline')
    BY <2>1 DEF ReportInv, Weighed
  <2>4. NothingForgotten'
    BY <2>1 DEF ReportInv, NothingForgotten
  <2>5. certificate = None /\ probe'.error \in BOOLEAN
    BY <2>1 DEF ReportInv
  <2>6. QED
    BY <2>2, <2>3, <2>4, <2>5 DEF ReportInv
<1>4. QED
  BY <1>2, <1>3

LEMMA RunReport ==
    ReportInv /\ (Collect \/ Stage \/ ThreadClears \/ DeadlinePasses \/ Join
                    \/ Return \/ Count \/ Copy \/ Ended \/ UNCHANGED vars) => ReportInv'
<1> SUFFICES ASSUME ReportInv, Collect \/ Stage \/ ThreadClears \/ DeadlinePasses \/ Join
                    \/ Return \/ Count \/ Copy \/ Ended \/ UNCHANGED vars
             PROVE  ReportInv'
  OBVIOUS
<1>1. UNCHANGED <<check, certificate>>
  BY DEF Collect, Stage, ThreadClears, DeadlinePasses, Join, Return, Count, Copy, Ended,
         vars, check
<1>2. /\ at \in {"reported", "certified"} <=> at' \in {"reported", "certified"}
      /\ at = "certified" => at' = at
  BY DEF Collect, Stage, ThreadClears, DeadlinePasses, Join, Return, Count, Copy, Ended, vars
<1>3. QED
  BY <1>1, <1>2, ReportStays

LEMMA BaselineReport == IInv /\ ReportInv /\ BaselineDone => ReportInv'
<1> SUFFICES ASSUME IInv, ReportInv, BaselineDone PROVE ReportInv'
  OBVIOUS
<1>1. /\ turn = 0 /\ turn' = 1 /\ results' = results /\ produced' = produced
      /\ probe' = probe /\ certificate' = certificate /\ setup' = setup
      /\ at' = IF Battery = <<>> THEN "reported" ELSE "collect"
      /\ at = "fingerprint"
  BY DEF BaselineDone
<1>2. produced = {} /\ results = <<>> /\ Len(results) = 0 /\ 1..0 = {}
  BY <1>1 DEF IInv, Control, ReportInv, InStep
<1>3. Battery' = Battery /\ Battery \in Seq(Behaviours)
  BY <1>1, BatteryTyped DEF Battery
<1>4. Battery # <<>> => Len(Battery) >= 1
  BY <1>3
<1>5. Battery = <<>> => Len(Battery) = 0
  OBVIOUS
<1>6. InStep'
  BY <1>1, <1>2, <1>3, <1>4, <1>5 DEF ReportInv, InStep
<1>7. QED
  BY <1>1, <1>2, <1>6 DEF ReportInv, NothingForgotten

LEMMA CompareReport == IInv /\ ReportInv /\ Compare => ReportInv'
<1> SUFFICES ASSUME IInv, ReportInv, Compare PROVE ReportInv'
  OBVIOUS
<1> DEFINE new == [turn |-> turn, digest |-> Digest]
<1>1. /\ at = "fingerprint" /\ turn > 0 /\ certificate' = certificate
      /\ produced' = produced \union {new}
  BY DEF Compare
<1>2. new.digest = Digest /\ probe.error \in BOOLEAN
  BY DEF ReportInv
<1> HIDE DEF new
<1>3. CASE Digest # baseline
  <2>1. Record(Digest, TRUE, probe.error, FALSE)
    BY <1>3 DEF Compare
  <2>2. baseline' = baseline
    BY <2>1 DEF Record
  <2>3. Weighed([digest |-> Digest, influenced |-> TRUE, error |-> probe.error,
                 blocked |-> FALSE],
            produced', baseline')
    BY <1>1, <1>2, <1>3, <2>2 DEF Weighed
  <2>4. QED
    BY <1>1, <2>1, <2>3, RecordReport
<1>4. CASE Digest = baseline
  <2>1. Repeat(Digest, probe.error)
    BY <1>4 DEF Compare
  <2>2. \A p \in produced' \ produced : p.digest = baseline
    BY <1>1, <1>2, <1>4
  <2>3. QED
    BY <1>1, <1>2, <1>4, <2>1, <2>2, RepeatReport
<1>5. QED
  BY <1>3, <1>4

\* The control stage neither breaks the seal nor races with a fingerprint.
LEMMA BreaksReport == IInv /\ ReportInv /\ SealBreaks => ReportInv'
<1> SUFFICES ASSUME IInv, ReportInv, SealBreaks PROVE ReportInv'
  OBVIOUS
<1>1. /\ at = "returning" /\ Moved /\ Record(None, FALSE, TRUE, TRUE)
      /\ certificate' = certificate /\ produced' = produced
  BY DEF SealBreaks
<1>2. turn \in Nat /\ turn # 0
  BY <1>1 DEF IInv, Control, InRun
<1>3. Weighed([digest |-> None, influenced |-> FALSE, error |-> TRUE, blocked |-> TRUE],
            produced', baseline')
  BY DEF Weighed
<1>4. turn > 0 /\ at \notin {"reported", "certified"} /\ produced \subseteq produced'
  BY <1>1, <1>2
<1>5. \A p \in produced' \ produced : p.digest # baseline => FALSE
  BY <1>1
<1>6. QED
  BY <1>1, <1>3, <1>4, <1>5, RecordReport, Zenon

LEMMA FailureReport == IInv /\ ReportInv /\ (PipelineRaises \/ FingerprintRaces) => ReportInv'
<1> SUFFICES ASSUME IInv, ReportInv, PipelineRaises \/ FingerprintRaces PROVE ReportInv'
  OBVIOUS
<1>1. /\ certificate' = certificate /\ produced' = produced
      /\ at \in {"collect", "returning", "fingerprint"}
  BY DEF PipelineRaises, FingerprintRaces
<1>2. turn \in Nat
  BY DEF IInv
<1>3. CASE Repeat(None, TRUE)
  <2>1. turn # 0
    BY <1>3, <1>1 DEF PipelineRaises, FingerprintRaces, IInv, Control, InRun, Repeat, Record
  <2>2. turn > 0 /\ at \notin {"reported", "certified"} /\ produced \subseteq produced'
    BY <1>1, <1>2, <2>1
  <2>3. /\ \A p \in produced' \ produced : p.digest = baseline
        /\ TRUE \in BOOLEAN /\ ~TRUE => None = baseline
    BY <1>1
  <2>4. QED
    BY <1>1, <1>3, <2>2, <2>3, RepeatReport, Zenon
<1>4. CASE /\ at' \in {"raised", "count"}
           /\ UNCHANGED <<setup, turn, probe, baseline, results>>
  <2>1. InStep' /\ NothingForgotten'
    BY <1>1, <1>4 DEF ReportInv, InStep, NothingForgotten, Battery
  <2>2. produced' = produced /\ baseline' = baseline /\ results' = results
    BY <1>1, <1>4
  <2>3. QED
    BY <1>1, <1>4, <2>1, <2>2 DEF ReportInv
<1>5. CASE PipelineRaises
  BY <1>3, <1>4, <1>5 DEF PipelineRaises
<1>6. CASE FingerprintRaces
  <2>1. \/ at' = "count" /\ UNCHANGED <<setup, turn, runs, probe, baseline, results>>
        \/ Repeat(None, TRUE)
    BY <1>6, Zenon DEF FingerprintRaces
  <2>2. QED
    BY <1>3, <1>4, <2>1
<1>7. QED
  BY <1>5, <1>6

LEMMA CertifyReport == ReportInv /\ Certify => ReportInv'
<1> SUFFICES ASSUME ReportInv, Certify PROVE ReportInv'
  OBVIOUS
<1>1. /\ at = "reported" /\ at' = "certified" /\ certificate' = BuildCertificate
      /\ UNCHANGED <<setup, turn, probe, baseline, results, produced>>
  BY DEF Certify, check
<1>2. InStep' /\ NothingForgotten' /\ BuildCertificate' = BuildCertificate
  BY <1>1 DEF ReportInv, InStep, NothingForgotten, Battery, BuildCertificate
<1>3. produced' = produced /\ baseline' = baseline /\ results' = results
  BY <1>1 DEF check
<1>4. QED
  BY <1>1, <1>2, <1>3 DEF ReportInv

LEMMA NextReport == IInv /\ ReportInv /\ [Next]_vars => ReportInv'
BY RunReport, BaselineReport, CompareReport, BreaksReport, FailureReport, CertifyReport
   DEF Next

\* A report is certified as what its results say, and they say of every variant
\* whether it moved an artifact.
LEMMA CertificateHolds == ReportInv => VerifiedMeansUnmoved
<1> SUFFICES ASSUME ReportInv, certificate # None
             PROVE  /\ Verifies(certificate) <=> Sealed
                    /\ Verifies(certificate) <=>
                          /\ Battery # <<>>
                          /\ \A p \in produced : p.digest = baseline
                          /\ \A k \in DOMAIN results : results[k].error => results[k].blocked
  BY DEF VerifiedMeansUnmoved
<1>1. at = "certified" /\ certificate = BuildCertificate
  BY DEF ReportInv
<1>2. PICK S : results \in Seq(S)
  BY DEF ReportInv, InStep
<1>3. Battery \in Seq(Behaviours)
  BY BatteryTyped
<1>4. Len(results) = Len(Battery)
  BY <1>1, <1>2, <1>3 DEF ReportInv, InStep
<1>5. DOMAIN results = 1..Len(results) /\ (results = <<>> <=> Battery = <<>>)
  BY <1>2, <1>3, <1>4
<1>6. \A k \in DOMAIN results : Weighed(results[k], produced, baseline)
  BY <1>5 DEF ReportInv
<1>7. /\ DOMAIN certificate.interventions = DOMAIN results
      /\ \A k \in DOMAIN results :
            /\ certificate.interventions[k].outcome = Status(results[k])
            /\ certificate.interventions[k].digest = results[k].digest
      /\ certificate.baseline = baseline
  BY <1>1 DEF BuildCertificate
<1>8. certificate.interventions # <<>> <=> results # <<>>
  BY <1>1, <1>2, <1>5, <1>7
<1>9. ASSUME NEW k \in DOMAIN results
      PROVE  /\ Status(results[k]) = "SEALED" => results[k].digest = baseline
             /\ Status(results[k]) = "BLOCKED" => results[k].digest = None
             /\ Status(results[k]) \in {"SEALED", "BLOCKED"} <=>
                   ~results[k].influenced /\ (results[k].error => results[k].blocked)
  BY <1>6 DEF Weighed, Status
<1>10. Verifies(certificate) <=> Sealed
  BY <1>7, <1>8, <1>9 DEF Verifies, Sealed
<1>11. (\A k \in DOMAIN results : ~results[k].influenced)
          <=> (\A p \in produced : p.digest = baseline)
  BY <1>5, <1>6 DEF ReportInv, NothingForgotten, Weighed
<1>12. Sealed <=> /\ results # <<>>
                  /\ \A k \in DOMAIN results : ~results[k].influenced
                  /\ \A k \in DOMAIN results : results[k].error => results[k].blocked
  BY <1>9 DEF Sealed
<1>13. QED
  BY <1>5, <1>10, <1>11, <1>12

\* A certificate verifies exactly when no variant moved an artifact in any of its
\* runs and none was left undecided by a failure: for any evidence, battery,
\* repeat and schedule (check.py:107-141, certificate.py:64-107).
THEOREM CertificateTheorem == Spec => []VerifiedMeansUnmoved
<1>1. Init => IInv /\ ReportInv
  BY InitInv, InitReport
<1>2. IInv /\ ReportInv /\ [Next]_vars => (IInv /\ ReportInv)'
  BY NextInv, NextReport
<1>3. IInv /\ ReportInv => VerifiedMeansUnmoved
  BY CertificateHolds
<1>4. QED
  BY <1>1, <1>2, <1>3, PTL DEF Spec

-----------------------------------------------------------------------------
(* What the variables hold.                                                *)

EvidenceTyped ==
    /\ entries \in Seq(Entries)
    /\ list \in Seq(DOMAIN entries)
    /\ copied \in Seq(DOMAIN entries)
    /\ counted \in Nat
    /\ returned \in Outputs
    /\ hand \in {"none", "deferred", "concurrent"}

CheckTyped ==
    /\ setup \in [pipeline : Pipelines, battery : Batteries, repeat : 0..MaxRepeat]
    /\ at \in {"collect", "stage", "sleeping", "returning", "count", "copy",
               "fingerprint", "reported", "certified", "raised"}
    /\ runs \in 0..(Attempts - 1)
    /\ probe \in [digest : Digests \union {None}, error : BOOLEAN]
    /\ baseline \in Digests \union {None}
    /\ results \in Seq(Results)
    /\ produced \subseteq [turn : 1..Len(Battery), digest : Digests]
    /\ failures \in 0..MaxFailures

\* Every advice is one of a few words.
LEMMA AdviceTyped == ASSUME NEW behaviour PROVE Advice(behaviour) \in Outputs
BY DEF Advice, Outputs, Advices

LEMMA FunctionIsSeq ==
    ASSUME NEW S, NEW n \in Nat, NEW f \in [1..n -> S]
    PROVE  f \in Seq(S) /\ Len(f) = n
BY SeqDef

\* Entries come and change; none is taken away from those that refer to them.
LEMMA ReferencesStay ==
    ASSUME EvidenceTyped, entries' \in Seq(Entries), DOMAIN entries \subseteq DOMAIN entries'
    PROVE  list \in Seq(DOMAIN entries') /\ copied \in Seq(DOMAIN entries')
BY SeqMonotonic DEF EvidenceTyped

LEMMA EvidenceChanged ==
    ASSUME EvidenceTyped, NEW f \in [DOMAIN entries -> Entries], entries' = f
    PROVE  entries' \in Seq(Entries) /\ DOMAIN entries' = DOMAIN entries
<1>1. Len(entries) \in Nat /\ DOMAIN entries = 1..Len(entries)
  BY LenProperties DEF EvidenceTyped
<1>2. QED
  BY <1>1, FunctionIsSeq

\* Whatever a variant does to the containers it reaches, the list still refers
\* to entries there are.
LEMMA TouchTyped ==
    ASSUME EvidenceTyped, NEW behaviour, Touch(behaviour)
    PROVE  /\ entries' \in Seq(Entries) /\ DOMAIN entries \subseteq DOMAIN entries'
           /\ list' \in Seq(DOMAIN entries')
<1>1. /\ Len(entries) \in Nat /\ DOMAIN entries = 1..Len(entries)
      /\ Len(list) \in Nat /\ DOMAIN list = 1..Len(list)
      /\ \A k \in 1..Len(list) : list[k] \in DOMAIN entries
      /\ \A k \in DOMAIN entries : entries[k] \in Entries
  BY LenProperties, ElementOfSeq DEF EvidenceTyped
<1>2. CASE Erase
  BY <1>2, EmptySeq DEF Erase, EvidenceTyped
<1>3. CASE Downgrade
  <2>1. [k \in DOMAIN entries |-> [blocking |-> FALSE, body |-> "benign"]]
            \in [DOMAIN entries -> Entries]
    BY DEF Entries
  <2>2. entries' = [k \in DOMAIN entries |-> [blocking |-> FALSE, body |-> "benign"]] /\ list' = list
    BY <1>3 DEF Downgrade, OnEntries
  <2>3. QED
    BY <2>1, <2>2, EvidenceChanged DEF EvidenceTyped
<1>4. CASE DropOne
  <2>1. entries' = entries /\ (list' = list \/ list' = SubSeq(list, 1, Len(list) - 1))
    BY <1>4 DEF DropOne
  <2>2. SubSeq(list, 1, Len(list) - 1) \in Seq(DOMAIN entries)
    BY <1>1, SubSeqProperties
  <2>3. QED
    BY <2>1, <2>2 DEF EvidenceTyped
<1>5. CASE Flood
  <2> DEFINE f == [k \in DOMAIN entries |-> [entries[k] EXCEPT !.body = "forged"]]
  <2>1. f \in [DOMAIN entries -> Entries] /\ Forged \in Entries
    BY <1>1 DEF Entries, Forged
  <2>2. f \in Seq(Entries) /\ Len(f) = Len(entries)
    BY <1>1, <2>1, FunctionIsSeq
  <2>3. entries' = Append(f, Forged) /\ list' = Append(list, Len(entries) + 1)
    BY <1>5 DEF Flood
  <2> HIDE DEF f
  <2>4. entries' \in Seq(Entries) /\ Len(entries') = Len(entries) + 1
    BY <2>1, <2>2, <2>3, AppendProperties
  <2>5. DOMAIN entries' = 1..(Len(entries) + 1)
    BY <2>4, LenProperties
  <2>6. Len(entries) + 1 \in DOMAIN entries' /\ DOMAIN entries \subseteq DOMAIN entries'
    BY <1>1, <2>5
  <2>7. list \in Seq(DOMAIN entries')
    BY <2>4, <2>6, ReferencesStay
  <2>8. QED
    BY <2>3, <2>4, <2>6, <2>7, AppendProperties
<1>6. CASE Duplicate
  <2>1. entries' = entries /\ (list' = list \/ (list # <<>> /\ list' = Append(list, list[1])))
    BY <1>6 DEF Duplicate
  <2>2. list # <<>> => list[1] \in DOMAIN entries
    BY <1>1, EmptySeq DEF EvidenceTyped
  <2>3. list' \in Seq(DOMAIN entries)
    <3>1. CASE list' = list
      BY <3>1 DEF EvidenceTyped
    <3>2. CASE list # <<>> /\ list' = Append(list, list[1])
      BY <2>2, <3>2, AppendProperties DEF EvidenceTyped
    <3>3. QED
      BY <2>1, <3>1, <3>2
  <2>4. QED
    BY <2>1, <2>3 DEF EvidenceTyped
<1>7. CASE Reorder
  <2>1. [k \in DOMAIN list |-> list[Len(list) + 1 - k]] \in [1..Len(list) -> DOMAIN entries]
    BY <1>1
  <2>2. QED
    BY <1>1, <1>7, <2>1, FunctionIsSeq DEF Reorder, EvidenceTyped
<1>8. QED
  BY <1>2, <1>3, <1>4, <1>5, <1>6, <1>7 DEF Touch

\* A second thread clears an entry or the list, and takes none away.
LEMMA ClearTyped ==
    ASSUME EvidenceTyped, NEW k \in DOMAIN entries, entries' = [entries EXCEPT ![k] = Cleared]
    PROVE  entries' \in Seq(Entries) /\ DOMAIN entries' = DOMAIN entries
<1>1. \A j \in DOMAIN entries : entries[j] \in Entries
  BY LenProperties, ElementOfSeq DEF EvidenceTyped
<1>2. Cleared \in Entries
  BY DEF Cleared, Entries
<1>3. entries' \in [DOMAIN entries -> Entries]
  BY <1>1, <1>2 DEF EvidenceTyped
<1>4. QED
  BY <1>3, EvidenceChanged

LEMMA CollectTyped == EvidenceTyped /\ Collect => EvidenceTyped'
<1> SUFFICES ASSUME Collect PROVE EvidenceTyped'
  OBVIOUS
<1>1. Evidence \in Seq(Entries)
  <2>1. [blocking : BOOLEAN, body : {"collected"}] \subseteq Entries
    BY DEF Entries
  <2>2. QED
    BY <2>1, AgentSealAssumption, SeqMonotonic
<1>2. Len(Evidence) \in Nat /\ DOMAIN Evidence = 1..Len(Evidence)
  BY <1>1, LenProperties
<1>3. [k \in DOMAIN Evidence |-> k] \in Seq(DOMAIN Evidence)
  BY <1>2, FunctionIsSeq
<1>4. QED
  BY <1>1, <1>3, EmptySeq DEF Collect, EvidenceTyped, Outputs

LEMMA StageTyped == EvidenceTyped /\ Stage => EvidenceTyped'
<1> SUFFICES ASSUME EvidenceTyped, Stage PROVE EvidenceTyped'
  OBVIOUS
<1>1. Touch(Variant) \/ UNCHANGED <<list, entries>>
  BY DEF Stage
<1>2. /\ entries' \in Seq(Entries) /\ DOMAIN entries \subseteq DOMAIN entries'
      /\ list' \in Seq(DOMAIN entries')
  BY <1>1, TouchTyped DEF EvidenceTyped
<1>3. copied' \in Seq(DOMAIN entries')
  BY <1>2, ReferencesStay DEF Stage
<1>4. Advice(Variant) \in Outputs
  BY AdviceTyped
<1>5. QED
  BY <1>2, <1>3, <1>4 DEF Stage, EvidenceTyped

LEMMA ThreadTyped ==
    EvidenceTyped /\ (ThreadClears \/ DeadlinePasses \/ Join) => EvidenceTyped'
<1> SUFFICES ASSUME EvidenceTyped, ThreadClears \/ DeadlinePasses \/ Join PROVE EvidenceTyped'
  OBVIOUS
<1>1. /\ UNCHANGED <<copied, counted, returned>>
      /\ hand' = hand \/ hand' = "none"
  BY DEF ThreadClears, DeadlinePasses, Join
<1>2. CASE UNCHANGED <<list, entries>>
  BY <1>1, <1>2 DEF EvidenceTyped
<1>3. CASE Erase
  BY <1>1, <1>3, EmptySeq DEF Erase, EvidenceTyped
<1>4. CASE \E k \in DOMAIN entries :
              entries' = [entries EXCEPT ![k] = Cleared] /\ UNCHANGED list
  BY <1>1, <1>4, ClearTyped DEF EvidenceTyped
<1>5. QED
  BY <1>2, <1>3, <1>4 DEF ThreadClears, DeadlinePasses, Join

LEMMA ReadTyped == EvidenceTyped /\ (Return \/ Count \/ Copy) => EvidenceTyped'
<1> SUFFICES ASSUME EvidenceTyped, Return \/ Count \/ Copy PROVE EvidenceTyped'
  OBVIOUS
<1>1. UNCHANGED <<list, entries, hand, returned>>
  BY DEF Return, Count, Copy
<1>2. counted' \in Nat
  <2>1. Cardinality({k \in DOMAIN list : entries[list[k]].blocking}) \in Nat
    <3>1. Len(list) \in Nat /\ DOMAIN list = 1..Len(list)
      BY LenProperties DEF EvidenceTyped
    <3>2. IsFiniteSet(DOMAIN list)
      BY <3>1, FS_Interval
    <3>3. QED
      BY <3>2, FS_Subset, FS_CardinalityType
  <2>2. QED
    BY <2>1 DEF Return, Count, Copy, EvidenceTyped
<1>3. copied' \in Seq(DOMAIN entries)
  BY DEF Return, Count, Copy, EvidenceTyped
<1>4. QED
  BY <1>1, <1>2, <1>3 DEF EvidenceTyped

\* The steps of the check leave the evidence of the run alone, but for a
\* fingerprint that races.
LEMMA AroundTyped ==
    EvidenceTyped /\ (BaselineDone \/ Compare \/ SealBreaks \/ PipelineRaises
                        \/ FingerprintRaces \/ Certify \/ UNCHANGED vars) => EvidenceTyped'
<1> SUFFICES ASSUME EvidenceTyped, BaselineDone \/ Compare \/ SealBreaks \/ PipelineRaises
                        \/ FingerprintRaces \/ Certify \/ UNCHANGED vars
             PROVE  EvidenceTyped'
  OBVIOUS
<1>1. CASE UNCHANGED live
  BY <1>1 DEF live, EvidenceTyped
<1>2. CASE FingerprintRaces
  <2>1. PICK k \in DOMAIN entries : entries' = [entries EXCEPT ![k] = Cleared]
    BY <1>2 DEF FingerprintRaces
  <2>2. UNCHANGED <<list, hand, counted, copied>>
    BY <1>2 DEF FingerprintRaces
  <2>3. returned' = returned \/ returned' = "exception"
    BY <1>2 DEF FingerprintRaces
  <2>4. QED
    BY <2>1, <2>2, <2>3, ClearTyped DEF EvidenceTyped, Outputs, Advices
<1>3. QED
  BY <1>1, <1>2 DEF BaselineDone, Compare, SealBreaks, PipelineRaises, Certify, vars, live

\* An artifact's fingerprint is one of its entries, its count and its output.
LEMMA DigestTyped == EvidenceTyped => Digest \in Digests
<1> SUFFICES ASSUME EvidenceTyped PROVE Digest \in Digests
  OBVIOUS
<1>1. /\ Len(copied) \in Nat /\ DOMAIN copied = 1..Len(copied)
      /\ \A k \in 1..Len(copied) : copied[k] \in DOMAIN entries
      /\ \A k \in DOMAIN entries : entries[k] \in Entries
  BY LenProperties, ElementOfSeq DEF EvidenceTyped
<1>2. [k \in DOMAIN copied |-> entries[copied[k]]] \in [1..Len(copied) -> Entries]
  BY <1>1
<1>3. [k \in DOMAIN copied |-> entries[copied[k]]] \in Seq(Entries)
  BY <1>1, <1>2, FunctionIsSeq
<1>4. (IF setup.pipeline.output THEN returned ELSE "unused") \in Outputs
  BY DEF EvidenceTyped, Outputs
<1>5. QED
  BY <1>3, <1>4 DEF EvidenceTyped, Digest, Digests

LEMMA AttemptsTyped == CheckTyped => Attempts \in Nat /\ Attempts >= 1
BY AgentSealAssumption DEF CheckTyped, Attempts

\* A run inside the check changes nothing but where it is.
LEMMA CheckTypedStays ==
    CheckTyped /\ (Collect \/ Stage \/ ThreadClears \/ DeadlinePasses \/ Join \/ Return
                     \/ Count \/ Copy \/ Certify \/ UNCHANGED vars) => CheckTyped'
<1> SUFFICES ASSUME CheckTyped,
                    Collect \/ Stage \/ ThreadClears \/ DeadlinePasses \/ Join \/ Return
                     \/ Count \/ Copy \/ Certify \/ UNCHANGED vars
             PROVE  CheckTyped'
  OBVIOUS
<1>1. UNCHANGED <<setup, runs, probe, baseline, results, produced, failures>>
  BY DEF Collect, Stage, ThreadClears, DeadlinePasses, Join, Return, Count, Copy, Certify,
         vars, check
<1>2. at' \in {"collect", "stage", "sleeping", "returning", "count", "copy",
               "fingerprint", "reported", "certified", "raised"}
  BY DEF Collect, Stage, ThreadClears, DeadlinePasses, Join, Return, Count, Copy, Certify,
         vars, CheckTyped
<1>3. Attempts' = Attempts /\ Battery' = Battery
  BY <1>1 DEF Attempts, Battery
<1>4. QED
  BY <1>1, <1>2, <1>3 DEF CheckTyped

\* A verdict is recorded, or the run repeated while runs are left.
LEMMA VerdictTyped ==
    ASSUME CheckTyped, NEW d \in Digests \union {None}, NEW i \in BOOLEAN, NEW e \in BOOLEAN,
           NEW b \in BOOLEAN, Record(d, i, e, b) \/ Repeat(d, e),
           produced' \subseteq [turn : 1..Len(Battery), digest : Digests],
           failures' \in 0..MaxFailures
    PROVE  CheckTyped'
<1>1. setup' = setup /\ baseline' = baseline
  BY DEF Record, Repeat
<1>2. Attempts' = Attempts /\ Battery' = Battery
  BY <1>1 DEF Attempts, Battery
<1>3. at' \in {"collect", "reported"}
  BY DEF Record, Repeat
<1>4. runs' \in 0..(Attempts - 1)
  <2> DEFINE most == Attempts
  <2>1. most \in Nat /\ most >= 1 /\ runs \in 0..(most - 1)
    BY AttemptsTyped DEF CheckTyped
  <2>2. runs' = 0 \/ (runs + 1 < most /\ runs' = runs + 1)
    BY DEF Record, Repeat
  <2> HIDE DEF most
  <2>3. runs' \in 0..(most - 1)
    BY <2>1, <2>2
  <2> QED BY <2>3 DEF most
<1>5. probe' \in [digest : Digests \union {None}, error : BOOLEAN]
  <2>1. NoProbe \in [digest : Digests \union {None}, error : BOOLEAN]
    BY DEF NoProbe
  <2>2. [digest |-> d, error |-> e] \in [digest : Digests \union {None}, error : BOOLEAN]
    OBVIOUS
  <2>3. probe' = NoProbe \/ probe' = [digest |-> d, error |-> e]
    BY DEF Record, Repeat
  <2>4. QED
    BY <2>1, <2>2, <2>3
<1>6. results' \in Seq(Results)
  <2>1. ASSUME NEW x \in BOOLEAN, NEW y \in BOOLEAN
        PROVE  Append(results, [digest |-> d, influenced |-> x, error |-> e, blocked |-> y])
                  \in Seq(Results)
    <3>1. [digest |-> d, influenced |-> x, error |-> e, blocked |-> y] \in Results
      BY DEF Results
    <3>2. QED
      BY <3>1, AppendProperties DEF CheckTyped
  <2>2. QED
    BY <2>1 DEF Record, Repeat, CheckTyped
<1>7. QED
  BY <1>1, <1>2, <1>3, <1>4, <1>5, <1>6 DEF CheckTyped

LEMMA BaselineTyped == EvidenceTyped /\ CheckTyped /\ BaselineDone => CheckTyped'
<1> SUFFICES ASSUME EvidenceTyped, CheckTyped, BaselineDone PROVE CheckTyped'
  OBVIOUS
<1>1. /\ UNCHANGED <<setup, runs, probe, results, produced, failures>>
      /\ at' \in {"reported", "collect"} /\ baseline' = Digest
  BY DEF BaselineDone
<1>2. Attempts' = Attempts /\ Battery' = Battery
  BY <1>1 DEF Attempts, Battery
<1>3. QED
  BY <1>1, <1>2, DigestTyped DEF CheckTyped

LEMMA EndTyped ==
    IInv /\ ReportInv /\ EvidenceTyped /\ CheckTyped
        /\ (Compare \/ SealBreaks \/ PipelineRaises \/ FingerprintRaces) => CheckTyped'
<1> SUFFICES ASSUME IInv, ReportInv, EvidenceTyped, CheckTyped,
                    Compare \/ SealBreaks \/ PipelineRaises \/ FingerprintRaces
             PROVE  CheckTyped'
  OBVIOUS
<1>1. probe.error \in BOOLEAN
  BY DEF CheckTyped
<1>2. CASE Compare
  <2>1. turn \in 1..Len(Battery)
    BY <1>2, BatteryTyped DEF Compare, IInv, ReportInv, InStep
  <2>2. produced' \subseteq [turn : 1..Len(Battery), digest : Digests]
    BY <1>2, <2>1, DigestTyped DEF Compare, CheckTyped
  <2>3. failures' = failures
    BY <1>2 DEF Compare
  <2>4. \E i \in BOOLEAN : Record(Digest, i, probe.error, FALSE) \/ Repeat(Digest, probe.error)
    BY <1>2 DEF Compare
  <2>5. QED
    BY <1>1, <2>2, <2>3, <2>4, DigestTyped, VerdictTyped DEF CheckTyped
<1>3. CASE SealBreaks
  <2>1. Record(None, FALSE, TRUE, TRUE) /\ UNCHANGED <<produced, failures>>
    BY <1>3 DEF SealBreaks
  <2>2. QED
    BY <2>1, VerdictTyped DEF CheckTyped
<1>4. CASE Repeat(None, TRUE) /\ produced' = produced /\ failures' \in 0..MaxFailures
  BY <1>4, VerdictTyped DEF CheckTyped
<1>5. CASE /\ at' \in {"raised", "count"} /\ failures' \in 0..MaxFailures
           /\ UNCHANGED <<setup, runs, probe, baseline, results, produced>>
  <2>1. Attempts' = Attempts /\ Battery' = Battery
    BY <1>5 DEF Attempts, Battery
  <2>2. QED
    BY <1>5, <2>1 DEF CheckTyped
<1>6. CASE PipelineRaises
  <2>1. failures' \in 0..MaxFailures /\ produced' = produced
    BY <1>6, AgentSealAssumption DEF PipelineRaises, CheckTyped
  <2>2. \/ Repeat(None, TRUE)
        \/ at' = "raised" /\ UNCHANGED <<setup, turn, runs, probe, baseline, results>>
    BY <1>6, Zenon DEF PipelineRaises
  <2>3. QED
    BY <1>4, <1>5, <2>1, <2>2
<1>7. CASE FingerprintRaces
  <2>1. failures' \in 0..MaxFailures /\ produced' = produced
    BY <1>7 DEF FingerprintRaces, CheckTyped
  <2>2. \/ Repeat(None, TRUE)
        \/ at' = "count" /\ UNCHANGED <<setup, turn, runs, probe, baseline, results>>
    BY <1>7, Zenon DEF FingerprintRaces
  <2>3. QED
    BY <1>4, <1>5, <2>1, <2>2
<1>8. QED
  BY <1>2, <1>3, <1>6, <1>7

LEMMA InitTyped == Init => EvidenceTyped /\ CheckTyped
<1> SUFFICES ASSUME Init PROVE EvidenceTyped /\ CheckTyped
  OBVIOUS
<1>1. EvidenceTyped
  BY EmptySeq DEF Init, EvidenceTyped, Outputs
<1>2. Attempts \in Nat /\ Attempts >= 1
  BY AgentSealAssumption DEF Init, Attempts
<1>3. CheckTyped
  BY <1>2, EmptySeq, AgentSealAssumption DEF Init, CheckTyped, NoProbe
<1>4. QED
  BY <1>1, <1>3

LEMMA NextTyped ==
    IInv /\ ReportInv /\ EvidenceTyped /\ CheckTyped /\ [Next]_vars
        => EvidenceTyped' /\ CheckTyped'
<1> SUFFICES ASSUME IInv, ReportInv, EvidenceTyped, CheckTyped, [Next]_vars
             PROVE  EvidenceTyped' /\ CheckTyped'
  OBVIOUS
<1>1. Ended => UNCHANGED vars
  BY DEF Ended
<1>2. EvidenceTyped'
  BY <1>1, CollectTyped, StageTyped, ThreadTyped, ReadTyped, AroundTyped DEF Next
<1>3. CheckTyped'
  BY <1>1, CheckTypedStays, BaselineTyped, EndTyped DEF Next
<1>4. QED
  BY <1>2, <1>3

\* No variant is run more often than the check was told to and none is missing
\* from the results; what the stage does to the containers it reaches leaves the
\* pipeline a list of entries there are (check.py:90-141).
THEOREM CheckTypeCorrect == Spec => []TypeOK
<1>1. Init => IInv /\ ReportInv /\ EvidenceTyped /\ CheckTyped
  BY InitInv, InitReport, InitTyped
<1>2. IInv /\ ReportInv /\ EvidenceTyped /\ CheckTyped /\ [Next]_vars
        => (IInv /\ ReportInv /\ EvidenceTyped /\ CheckTyped)'
  BY NextInv, NextReport, NextTyped
<1>3. ASSUME IInv, ReportInv, EvidenceTyped, CheckTyped PROVE TypeOK
  <2>1. turn \in 0..(Len(Battery) + 1)
    BY <1>3, BatteryTyped DEF IInv, ReportInv, InStep
  <2>2. turn > 0 => Len(results) = turn - 1
    BY <1>3 DEF ReportInv, InStep
  <2>3. QED
    BY <1>3, <2>1, <2>2 DEF EvidenceTyped, CheckTyped, TypeOK
<1>4. QED
  BY <1>1, <1>2, <1>3, PTL DEF Spec

----------------------------------------------------------------------------
(* Progress: a check is no endless one, whatever the variants do.          *)

\* The steps of a run that are left, and those of the report.
PlaceLeft ==
    CASE at = "collect" -> 8
      [] at = "stage" -> 7
      [] at = "sleeping" -> 6
      [] at = "returning" -> 5
      [] at = "count" -> 4
      [] at = "copy" -> 3
      [] at = "fingerprint" -> 2
      [] at = "reported" -> 1
      [] OTHER -> 0

\* The next variant, the next run of the same variant, or further in the same run.
Further ==
    \/ turn' = turn + 1
    \/ turn' = turn /\ runs' = runs + 1
    \/ turn' = turn /\ runs' = runs /\ PlaceLeft' < PlaceLeft

LEMMA PlaceAt ==
    /\ at = "collect" => PlaceLeft = 8
    /\ at = "stage" => PlaceLeft = 7
    /\ at = "sleeping" => PlaceLeft = 6
    /\ at = "returning" => PlaceLeft = 5
    /\ at = "count" => PlaceLeft = 4
    /\ at = "copy" => PlaceLeft = 3
    /\ at = "fingerprint" => PlaceLeft = 2
    /\ at = "reported" => PlaceLeft = 1
    /\ at \in {"certified", "raised"} => PlaceLeft = 0
BY DEF PlaceLeft

LEMMA PlaceNext ==
    /\ at' = "stage" => PlaceLeft' = 7
    /\ at' = "sleeping" => PlaceLeft' = 6
    /\ at' = "returning" => PlaceLeft' = 5
    /\ at' = "count" => PlaceLeft' = 4
    /\ at' = "copy" => PlaceLeft' = 3
    /\ at' = "fingerprint" => PlaceLeft' = 2
    /\ at' \in {"certified", "raised"} => PlaceLeft' = 0
BY DEF PlaceLeft

\* Every step of a run, whoever raises in it.
LEMMA RunGoesOn ==
    ASSUME Collect \/ Stage \/ Join \/ Return \/ Count \/ Copy \/ Certify
    PROVE  Further
<1>1. turn' = turn /\ runs' = runs
  BY DEF Collect, Stage, Join, Return, Count, Copy, Certify, check
<1>2. CASE Collect
  BY <1>1, <1>2, PlaceAt, PlaceNext DEF Collect, Further
<1>3. CASE Stage
  <2>1. at = "stage" /\ at' \in {"sleeping", "returning"}
    BY <1>3 DEF Stage
  <2>2. QED
    BY <1>1, <2>1, PlaceAt, PlaceNext DEF Further
<1>4. CASE Join
  BY <1>1, <1>4, PlaceAt, PlaceNext DEF Join, Further
<1>5. CASE Return
  BY <1>1, <1>5, PlaceAt, PlaceNext DEF Return, Further
<1>6. CASE Count
  BY <1>1, <1>6, PlaceAt, PlaceNext DEF Count, Further
<1>7. CASE Copy
  BY <1>1, <1>7, PlaceAt, PlaceNext DEF Copy, Further
<1>8. CASE Certify
  BY <1>1, <1>8, PlaceAt, PlaceNext DEF Certify, Further
<1>9. QED
  BY <1>2, <1>3, <1>4, <1>5, <1>6, <1>7, <1>8

\* The end of a run is the beginning of the next, or of the report.
LEMMA VerdictGoesOn ==
    ASSUME NEW d, NEW i, NEW e, NEW b, Record(d, i, e, b) \/ Repeat(d, e)
    PROVE  Further
BY DEF Record, Repeat, Further

LEMMA EndGoesOn ==
    ASSUME BaselineDone \/ Compare \/ SealBreaks \/ PipelineRaises \/ FingerprintRaces
    PROVE  Further
<1>1. CASE BaselineDone
  BY <1>1 DEF BaselineDone, Further
<1>2. CASE Compare
  <2>1. Record(Digest, TRUE, probe.error, FALSE) \/ Repeat(Digest, probe.error)
    BY <1>2 DEF Compare
  <2>2. QED
    BY <2>1, VerdictGoesOn
<1>3. CASE SealBreaks
  BY <1>3, VerdictGoesOn DEF SealBreaks
<1>4. CASE PipelineRaises
  <2>1. \/ Repeat(None, TRUE)
        \/ at = "collect" /\ at' = "raised" /\ turn' = turn /\ runs' = runs
    BY <1>4, Zenon DEF PipelineRaises
  <2>2. CASE Repeat(None, TRUE)
    BY <2>2, VerdictGoesOn
  <2>3. CASE at = "collect" /\ at' = "raised" /\ turn' = turn /\ runs' = runs
    BY <2>3, PlaceAt, PlaceNext DEF Further
  <2>4. QED
    BY <2>1, <2>2, <2>3
<1>5. CASE FingerprintRaces
  <2>1. \/ Repeat(None, TRUE)
        \/ at = "returning" /\ at' = "count" /\ turn' = turn /\ runs' = runs
    BY <1>5, Zenon DEF FingerprintRaces
  <2>2. CASE Repeat(None, TRUE)
    BY <2>2, VerdictGoesOn
  <2>3. CASE at = "returning" /\ at' = "count" /\ turn' = turn /\ runs' = runs
    BY <2>3, PlaceAt, PlaceNext DEF Further
  <2>4. QED
    BY <2>1, <2>2, <2>3
<1>6. QED
  BY <1>1, <1>2, <1>3, <1>4, <1>5

\* Every step but one of a stage's own thread takes the check further: on in the
\* run, to the next of the repeated runs, of which there are no more than asked
\* for, or to the next of the battery.  No variant keeps a check from its report by
\* raising, by altering its evidence or by a thread that goes on
\* (check.py:90-141).
THEOREM CheckGoesForward ==
    Spec => /\ [](turn \in 0..(Len(Battery) + 1) /\ runs \in 0..(Attempts - 1))
            /\ [][ThreadClears \/ DeadlinePasses \/ Further]_vars
<1>1. TypeOK => turn \in 0..(Len(Battery) + 1) /\ runs \in 0..(Attempts - 1)
  BY DEF TypeOK
<1>2. [Next]_vars => [ThreadClears \/ DeadlinePasses \/ Further]_vars
  BY RunGoesOn, EndGoesOn DEF Next, Ended
<1>3. QED
  BY <1>1, <1>2, CheckTypeCorrect, PTL DEF Spec

=============================================================================
