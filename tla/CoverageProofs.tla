--------------------------- MODULE CoverageProofs ---------------------------
(***************************************************************************)
(* What holds of every benchmark.                                          *)
(*                                                                         *)
(* Gates.  A stricter revision lets through no more than a laxer one,      *)
(* whatever the candidate; the oracle judges only behind a snapshot the    *)
(* gate signed; what is listed can be minimized.  The argument is that a   *)
(* finished measurement is a function of the benchmark and the revision,   *)
(* which the signatures and the order of the steps keep.                   *)
(*                                                                         *)
(* Statistics.  The p-value the service reports is the two-sided sign test *)
(* whatever the counts: its binomial coefficients count the splits of a    *)
(* set (Pascal's rule, by induction), and the lopsided splits are those of *)
(* the two tails.  Holm's step down rejects what closed testing rejects.   *)
(*                                                                         *)
(* The search.  For every source, predicate, budget and clock its result   *)
(* escapes and is the original with lines left out, it is called minimal   *)
(* only if no further line can be, and it costs at most quadratically      *)
(* many evaluations.                                                       *)
(***************************************************************************)
EXTENDS CoverageArena, Minimizer, SequenceTheorems, FunctionTheorems, FiniteSetTheorems,
        WellFoundedInduction, TLAPS

\* The probes of a revision include those of the laxer ones.
LEMMA ProbesGrow ==
    ASSUME NEW ch, NEW q \in Revisions, NEW r \in Revisions, q <= r
    PROVE  Probes(ch, q) \subseteq Probes(ch, r)
<1>1. TenantProbes(q) \subseteq TenantProbes(r)
  <2>1. TenantProbes(1) \subseteq TenantProbes(2) /\ TenantProbes(2) \subseteq TenantProbes(3)
    BY DEF TenantProbes
  <2>2. q = r \/ (q = 1 /\ r = 2) \/ (q = 2 /\ r = 3) \/ (q = 1 /\ r = 3)
    BY DEF Revisions
  <2> QED BY <2>1, <2>2
<1>2. PathProbes(q) \subseteq PathProbes(r)
  <2>1. PathProbes(1) \subseteq PathProbes(2) /\ PathProbes(2) \subseteq PathProbes(3)
    BY DEF PathProbes, Vectors, ContainedPaths, EscapingPaths
  <2>2. q = r \/ (q = 1 /\ r = 2) \/ (q = 2 /\ r = 3) \/ (q = 1 /\ r = 3)
    BY DEF Revisions
  <2> QED BY <2>1, <2>2
<1> QED BY <1>1, <1>2 DEF Probes

\* The shape a revision asks for includes that of the laxer ones.
LEMMA ShapesTighten ==
    ASSUME NEW ch, NEW f, NEW q \in Revisions, NEW r \in Revisions, q <= r, Shape(ch, r, f)
    PROVE  Shape(ch, q, f)
<1>1. q = r \/ (q = 1 /\ r = 2) \/ (q = 2 /\ r = 3) \/ (q = 1 /\ r = 3)
  BY DEF Revisions
<1>2. /\ TenantShape(1, f)
      /\ TenantShape(2, f) <=> "signature" \in f
      /\ TenantShape(3, f) <=> {"signature", "identity"} \subseteq f
  BY DEF TenantShape
<1>3. /\ PathShape(1, f)
      /\ PathShape(2, f) <=>
            "signature" \in f /\ f \intersect {"commonpath", "relpath", "blocked"} # {}
      /\ PathShape(3, f) <=> {"signature", "commonpath", "unquote"} \subseteq f
  BY DEF PathShape
<1>4. TenantShape(r, f) => TenantShape(q, f)
  BY <1>1, <1>2
<1>5. PathShape(r, f) => PathShape(q, f)
  <2>1. PathShape(3, f) => PathShape(2, f)
    BY <1>3
  <2> QED BY <1>1, <1>3, <2>1
<1> QED BY <1>4, <1>5 DEF Shape

\* A gate lets a candidate through under every revision laxer than one that does.
LEMMA GatesAreNested ==
    ASSUME NEW ch, NEW c, NEW q \in Revisions, NEW r \in Revisions, q <= r,
           GateDecision(ch, r, c) = "GO"
    PROVE  GateDecision(ch, q, c) = "GO"
<1>1. c.wrong \intersect Probes(ch, r) = {} /\ Shape(ch, r, c.features)
  BY DEF GateDecision
<1>2. c.wrong \intersect Probes(ch, q) = {}
  BY <1>1, ProbesGrow
<1>3. Shape(ch, q, c.features)
  BY <1>1, ShapesTighten
<1> QED BY <1>2, <1>3 DEF GateDecision

\* The strictest path gate probes all the oracle does, so what it lets through is
\* safe.
THEOREM PathGateThreeLetsNothingEscape ==
    ASSUME NEW c, GateDecision("path-traversal", 3, c) = "GO"
    PROVE  Verdict("path-traversal", c.wrong) = "SAFE"
<1>1. c.wrong \intersect Probes("path-traversal", 3) = {}
  BY DEF GateDecision
<1>2. Probes("path-traversal", 3) = Vectors("path-traversal")
  BY DEF Probes, PathProbes
<1> QED BY <1>1, <1>2 DEF Verdict

\* Which class is an escape, and which an overblock.
LEMMA ClassesSplit ==
    ASSUME NEW valid \in BOOLEAN, NEW g \in {"GO", "NO_GO"}, NEW v \in {"SAFE", "UNSAFE"}
    PROVE  /\ Classify(valid, g, v) = "ESCAPE" <=> valid /\ g = "GO" /\ v = "UNSAFE"
           /\ Classify(valid, g, v) = "OVERBLOCK" <=> valid /\ g = "NO_GO" /\ v = "SAFE"
           /\ Classify(valid, g, v) \in Classes
<1>1. CASE ~valid
  BY <1>1 DEF Classify, Classes
<1>2. CASE valid /\ g = "GO" /\ v = "SAFE"
  BY <1>2 DEF Classify, Classes
<1>3. CASE valid /\ g = "GO" /\ v = "UNSAFE"
  BY <1>3 DEF Classify, Classes
<1>4. CASE valid /\ g = "NO_GO" /\ v = "SAFE"
  BY <1>4 DEF Classify, Classes
<1>5. CASE valid /\ g = "NO_GO" /\ v = "UNSAFE"
  BY <1>5 DEF Classify, Classes
<1> QED BY <1>1, <1>2, <1>3, <1>4, <1>5

LEMMA ClassOfSplits ==
    ASSUME NEW r, NEW i,
           benchmark \in [challenge : Challenges, candidates : Seq(Candidates)], i \in Ids
    PROVE  /\ ClassOf(r, i) \in Classes
           /\ ClassOf(r, i) = "ESCAPE" <=>
                /\ Candidate(i).loads
                /\ GateDecision(challenge, r, Candidate(i)) = "GO"
                /\ Verdict(challenge, Candidate(i).wrong) = "UNSAFE"
           /\ ClassOf(r, i) = "OVERBLOCK" <=>
                /\ Candidate(i).loads
                /\ GateDecision(challenge, r, Candidate(i)) = "NO_GO"
                /\ Verdict(challenge, Candidate(i).wrong) = "SAFE"
<1>1. Candidate(i) \in Candidates
  BY DEF Ids, Candidate
<1>2. Candidate(i).loads \in BOOLEAN
  BY <1>1 DEF Candidates
<1>3. GateDecision(challenge, r, Candidate(i)) \in {"GO", "NO_GO"}
  BY DEF GateDecision
<1>4. Verdict(challenge, Candidate(i).wrong) \in {"SAFE", "UNSAFE"}
  BY DEF Verdict
<1> QED BY <1>2, <1>3, <1>4, ClassesSplit DEF ClassOf

-----------------------------------------------------------------------------
(* Statistics *)

\* Every nonempty set of natural numbers has a least element.
LEMMA LeastNumber ==
    ASSUME NEW T \in SUBSET Nat, T # {}
    PROVE  \E x \in T : \A y \in T : x <= y
<1> DEFINE R == OpToRel(<, Nat)
<1>1. IsWellFoundedOn(R, Nat)
  BY NatLessThanWellFounded
<1>2. \A x, y \in Nat : <<y, x>> \in R <=> y < x
  BY DEF OpToRel
<1> HIDE DEF R
<1>3. PICK x \in T : \A y \in T : ~(<<y, x>> \in R)
  BY <1>1, WFMin
<1>4. ASSUME NEW y \in T PROVE x <= y
  <2>1. x \in Nat /\ y \in Nat
    OBVIOUS
  <2>2. ~(y < x)
    BY <1>2, <1>3, <2>1
  <2> QED BY <2>1, <2>2
<1> QED BY <1>4

\* Induction, over a set in the place of a predicate.
LEMMA Inductive ==
    ASSUME NEW S, 0 \in S, \A N \in Nat : N \in S => N + 1 \in S
    PROVE  Nat \subseteq S
<1> SUFFICES ASSUME Nat \ S # {} PROVE FALSE
  OBVIOUS
<1>1. PICK x \in Nat \ S : \A y \in Nat \ S : x <= y
  BY LeastNumber
<1>2. x # 0 /\ x - 1 \in Nat /\ x - 1 \in S
  BY <1>1
<1> QED BY <1>1, <1>2

Iterates(f, X, base, step) ==
    /\ f \in [Nat -> X] /\ f[0] = base
    /\ \A N \in Nat : f[N + 1] = step[N][f[N]]

\* A value and a step from one value to the next define a function on Nat.
LEMMA Recursion ==
    ASSUME NEW X, NEW base \in X, NEW step \in [Nat -> [X -> X]]
    PROVE  \E f : Iterates(f, X, base, step)
<1> DEFINE Part(m, g) == /\ g \in [0..m -> X] /\ g[0] = base
                         /\ \A j \in 0..m : j + 1 \in 0..m => g[j + 1] = step[j][g[j]]
           Defined == {m \in Nat : \E g : Part(m, g)}
<1>1. Nat \subseteq Defined
  <2>1. 0 \in Defined
    <3>1. Part(0, [j \in 0..0 |-> base])
      OBVIOUS
    <3> QED BY <3>1
  <2>2. ASSUME NEW m \in Nat, m \in Defined PROVE m + 1 \in Defined
    <3>1. PICK g : Part(m, g)
      BY <2>2
    <3> DEFINE h == [j \in 0..(m + 1) |-> IF j = m + 1 THEN step[m][g[m]] ELSE g[j]]
    <3>2. step[m][g[m]] \in X
      BY <3>1
    <3>3. h \in [0..(m + 1) -> X] /\ h[0] = base
      BY <3>1, <3>2
    <3>4. ASSUME NEW j \in 0..(m + 1), j + 1 \in 0..(m + 1)
          PROVE  h[j + 1] = step[j][h[j]]
      <4>1. j # m + 1 /\ h[j] = g[j]
        BY <3>4
      <4>2. CASE j = m
        BY <4>1, <4>2
      <4>3. CASE j # m
        <5>1. j \in 0..m /\ j + 1 \in 0..m /\ j + 1 # m + 1
          BY <3>4, <4>3
        <5>2. h[j + 1] = g[j + 1]
          BY <3>4, <5>1
        <5> QED BY <3>1, <4>1, <5>1, <5>2
      <4> QED BY <4>2, <4>3
    <3>5. Part(m + 1, h)
      BY <3>3, <3>4
    <3> HIDE DEF h, Part
    <3> QED BY <3>5
  <2> HIDE DEF Defined
  <2> QED BY <2>1, <2>2, Inductive
<1>2. ASSUME NEW m \in Nat, NEW k \in Nat, NEW g, NEW h, Part(m, g), Part(k, h)
      PROVE  \A j \in Nat : j <= m /\ j <= k => g[j] = h[j]
  <2> DEFINE Same == {j \in Nat : j <= m /\ j <= k => g[j] = h[j]}
  <2>1. 0 \in Same
    BY <1>2
  <2>2. ASSUME NEW j \in Nat, j \in Same PROVE j + 1 \in Same
    <3> SUFFICES ASSUME j + 1 <= m, j + 1 <= k PROVE g[j + 1] = h[j + 1]
      OBVIOUS
    <3>1. j \in 0..m /\ j \in 0..k /\ j + 1 \in 0..m /\ j + 1 \in 0..k /\ g[j] = h[j]
      BY <2>2
    <3> QED BY <1>2, <3>1
  <2> HIDE DEF Same
  <2>3. Nat \subseteq Same
    BY <2>1, <2>2, Inductive
  <2> QED BY <2>3 DEF Same
<1> DEFINE G(m) == CHOOSE g : Part(m, g)
           f == [N \in Nat |-> G(N)[N]]
<1>3. \A m \in Nat : Part(m, G(m))
  <2>1. \A m \in Nat : \E g : Part(m, g)
    BY <1>1
  <2> HIDE DEF Part
  <2> QED BY <2>1
<1> HIDE DEF G
<1>4. f \in [Nat -> X]
  BY <1>3
<1>5. f[0] = base
  BY <1>3
<1>6. ASSUME NEW N \in Nat PROVE f[N + 1] = step[N][f[N]]
  <2>1. G(N + 1)[N + 1] = step[N][G(N + 1)[N]]
    BY <1>3
  <2>2. G(N + 1)[N] = G(N)[N]
    <3> HIDE DEF Part
    <3> QED BY <1>2, <1>3
  <2> QED BY <2>1, <2>2
<1> HIDE DEF f
<1>7. Iterates(f, X, base, step)
  BY <1>4, <1>5, <1>6 DEF Iterates
<1> QED BY <1>7

LEMMA ProductPositive ==
    ASSUME NEW m \in Nat, NEW N \in Nat, m > 0, N > 0
    PROVE  m * N \in Nat /\ m * N > 0
OBVIOUS

LEMMA Factorial ==
    /\ factorial \in [Nat -> Nat]
    /\ factorial[0] = 1
    /\ \A N \in Nat : factorial[N] > 0 /\ factorial[N + 1] = (N + 1) * factorial[N]
<1> DEFINE P == Nat \ {0}
           step == [N \in Nat |-> [x \in P |-> (N + 1) * x]]
<1>1. step \in [Nat -> [P -> P]] /\ 1 \in P
  <2>1. ASSUME NEW N \in Nat, NEW x \in P PROVE (N + 1) * x \in P
    BY ProductPositive
  <2> HIDE DEF P
  <2>2. ASSUME NEW N \in Nat PROVE [x \in P |-> (N + 1) * x] \in [P -> P]
    BY <2>1
  <2>3. 1 \in P
    BY DEF P
  <2> QED BY <2>2, <2>3
<1>2. PICK f \in [Nat -> P] :
         f[0] = 1 /\ \A N \in Nat : f[N + 1] = step[N][f[N]]
  <2> HIDE DEF step, P
  <2>1. PICK g : Iterates(g, P, 1, step)
    BY <1>1, Recursion
  <2>2. g \in [Nat -> P]
    BY <2>1 DEF Iterates
  <2>3. g[0] = 1 /\ \A N \in Nat : g[N + 1] = step[N][g[N]]
    BY <2>1 DEF Iterates
  <2> QED BY <2>2, <2>3
<1>3. \A N \in Nat : f[N + 1] = (N + 1) * f[N]
  BY <1>2
<1> DEFINE body(g) == [N \in Nat |-> IF N = 0 THEN 1 ELSE N * g[N - 1]]
<1>4. f = body(f)
  <2>1. ASSUME NEW N \in Nat PROVE f[N] = IF N = 0 THEN 1 ELSE N * f[N - 1]
    <3>1. CASE N = 0
      BY <1>2, <3>1
    <3>2. CASE N # 0
      <4>1. N - 1 \in Nat /\ (N - 1) + 1 = N
        BY <3>2
      <4> QED BY <1>3, <3>2, <4>1
    <3> QED BY <3>1, <3>2
  <2>2. f = [N \in Nat |-> f[N]]
    OBVIOUS
  <2> QED BY <2>1, <2>2
<1>5. factorial = body(factorial)
  <2>1. factorial = CHOOSE g : g = body(g)
    BY DEF factorial
  <2> HIDE DEF body
  <2> QED BY <1>4, <2>1
<1>6. /\ factorial[0] = 1
      /\ \A N \in Nat : factorial[N + 1] = (N + 1) * factorial[N]
  <2>1. \A N \in Nat : factorial[N] = IF N = 0 THEN 1 ELSE N * factorial[N - 1]
    BY <1>5
  <2>2. ASSUME NEW N \in Nat PROVE factorial[N + 1] = (N + 1) * factorial[N]
    <3>1. N + 1 \in Nat /\ N + 1 # 0 /\ (N + 1) - 1 = N
      OBVIOUS
    <3> QED BY <2>1, <3>1
  <2> QED BY <2>1, <2>2
<1> DEFINE Same == {N \in Nat : factorial[N] = f[N]}
<1>7. Nat \subseteq Same
  <2>1. 0 \in Same
    BY <1>2, <1>6
  <2>2. \A N \in Nat : N \in Same => N + 1 \in Same
    BY <1>3, <1>6
  <2> HIDE DEF Same
  <2> QED BY <2>1, <2>2, Inductive
<1>8. \A N \in Nat : factorial[N] \in Nat /\ factorial[N] > 0
  BY <1>7
<1>9. factorial \in [Nat -> Nat]
  <2>1. factorial = [N \in Nat |-> factorial[N]]
    BY <1>5
  <2> QED BY <1>8, <2>1
<1> QED BY <1>6, <1>8, <1>9

\* The splits of N discordant pairs in which k go one way.
Splits(N, k) == {s \in SUBSET (1..N) : Cardinality(s) = k}

AtMost(N, k) == {s \in SUBSET (1..N) : Cardinality(s) <= k}

AtLeast(N, k) == {s \in SUBSET (1..N) : Cardinality(s) >= k}

LEMMA DisjointCounts ==
    ASSUME NEW S, NEW T, IsFiniteSet(S), IsFiniteSet(T), S \intersect T = {}
    PROVE  /\ IsFiniteSet(S \union T)
           /\ Cardinality(S \union T) = Cardinality(S) + Cardinality(T)
           /\ Cardinality(S) \in Nat /\ Cardinality(T) \in Nat
<1>1. Cardinality(S \intersect T) = 0
  BY FS_EmptySet
<1>2. Cardinality(S) \in Nat /\ Cardinality(T) \in Nat
  BY FS_CardinalityType
<1>3. /\ IsFiniteSet(S \union T)
      /\ Cardinality(S \union T)
            = Cardinality(S) + Cardinality(T) - Cardinality(S \intersect T)
  BY FS_Union
<1> QED BY <1>1, <1>2, <1>3

LEMMA Bijected ==
    ASSUME NEW S, NEW T, NEW f \in [S -> T], IsFiniteSet(S),
           \A a, b \in S : f[a] = f[b] => a = b,
           \A t \in T : \E s \in S : f[s] = t
    PROVE  IsFiniteSet(T) /\ Cardinality(T) = Cardinality(S)
<1>1. f \in Bijection(S, T)
  BY Fun_IsBij
<1>2. ExistsBijection(S, T)
  BY <1>1 DEF ExistsBijection
<1> QED BY <1>2, FS_Bijection

LEMMA FiniteSplits ==
    ASSUME NEW N \in Nat
    PROVE  /\ \A s \in SUBSET (1..N) : /\ IsFiniteSet(s) /\ Cardinality(s) \in Nat
                                       /\ Cardinality(s) <= N
                                       /\ Cardinality(s) = N => s = 1..N
                                       /\ Cardinality(s) = 0 <=> s = {}
           /\ IsFiniteSet(SUBSET (1..N)) /\ Cardinality(SUBSET (1..N)) = 2 ^ N
           /\ \A T \in SUBSET SUBSET (1..N) : IsFiniteSet(T) /\ Cardinality(T) \in Nat
           /\ Cardinality(1..N) = N
<1>1. IsFiniteSet(1..N) /\ Cardinality(1..N) = N
  BY FS_Interval
<1>2. \A s \in SUBSET (1..N) : /\ IsFiniteSet(s) /\ Cardinality(s) \in Nat
                               /\ Cardinality(s) <= N
                               /\ Cardinality(s) = N => s = 1..N
                               /\ Cardinality(s) = 0 <=> s = {}
  <2> TAKE s \in SUBSET (1..N)
  <2>1. IsFiniteSet(s) /\ Cardinality(s) <= N /\ (Cardinality(s) = N => s = 1..N)
    BY <1>1, FS_Subset
  <2>2. Cardinality(s) \in Nat
    BY <2>1, FS_CardinalityType
  <2>3. Cardinality(s) = 0 <=> s = {}
    BY <2>1, FS_EmptySet
  <2> QED BY <2>1, <2>2, <2>3
<1>3. IsFiniteSet(SUBSET (1..N)) /\ Cardinality(SUBSET (1..N)) = 2 ^ N
  BY <1>1, FS_SUBSET
<1>4. \A T \in SUBSET SUBSET (1..N) : IsFiniteSet(T) /\ Cardinality(T) \in Nat
  <2> TAKE T \in SUBSET SUBSET (1..N)
  <2>1. IsFiniteSet(T)
    BY <1>3, FS_Subset
  <2> QED BY <2>1, FS_CardinalityType
<1> QED BY <1>1, <1>2, <1>3, <1>4

\* One more pair goes one way or the other.
LEMMA OneMorePair ==
    ASSUME NEW N \in Nat, NEW k \in 1..N
    PROVE  Cardinality(Splits(N + 1, k))
             = Cardinality(Splits(N, k)) + Cardinality(Splits(N, k - 1))
<1> DEFINE add(s) == s \union {N + 1}
           f == [s \in Splits(N, k - 1) |-> add(s)]
           Added == {add(s) : s \in Splits(N, k - 1)}
<1>1. \A s \in SUBSET (1..N) : /\ s \in SUBSET (1..(N + 1)) /\ N + 1 \notin s
                               /\ IsFiniteSet(s) /\ Cardinality(s) \in Nat
  <2>1. \A x \in 1..N : x \in 1..(N + 1) /\ x # N + 1
    OBVIOUS
  <2> QED BY <2>1, FiniteSplits
<1>2. ASSUME NEW s \in Splits(N, k - 1) PROVE add(s) \in Splits(N + 1, k)
  <2>1. s \in SUBSET (1..N) /\ Cardinality(s) = k - 1
    BY DEF Splits
  <2>2. Cardinality(add(s)) = k
    BY <1>1, <2>1, FS_AddElement
  <2>3. add(s) \in SUBSET (1..(N + 1))
    <3>1. N + 1 \in 1..(N + 1)
      OBVIOUS
    <3>2. s \subseteq 1..(N + 1)
      BY <1>1, <2>1
    <3> QED BY <3>1, <3>2
  <2> QED BY <2>2, <2>3 DEF Splits
<1>3. ASSUME NEW s \in Splits(N + 1, k), N + 1 \notin s PROVE s \in Splits(N, k)
  <2>1. \A x \in 1..(N + 1) : x # N + 1 => x \in 1..N
    OBVIOUS
  <2>2. s \in SUBSET (1..N)
    BY <1>3, <2>1 DEF Splits
  <2> QED BY <2>2 DEF Splits
<1>4. ASSUME NEW s \in Splits(N + 1, k), N + 1 \in s PROVE s \in Added
  <2> DEFINE t == s \ {N + 1}
  <2>1. \A x \in 1..(N + 1) : x # N + 1 => x \in 1..N
    OBVIOUS
  <2>2. s \in SUBSET (1..(N + 1)) /\ Cardinality(s) = k
    BY DEF Splits
  <2>3. t \in SUBSET (1..N)
    BY <2>1, <2>2
  <2>4. N + 1 \in Nat
    OBVIOUS
  <2>5. IsFiniteSet(s)
    BY <2>2, <2>4, FiniteSplits
  <2>6. Cardinality(t) = k - 1
    BY <1>4, <2>2, <2>5, FS_RemoveElement
  <2>7. t \in Splits(N, k - 1)
    BY <2>3, <2>6 DEF Splits
  <2>8. s = add(t)
    BY <1>4
  <2> HIDE DEF t
  <2> QED BY <2>7, <2>8
<1>5. Splits(N, k) \subseteq Splits(N + 1, k)
  BY <1>1 DEF Splits
<1>6. Splits(N + 1, k) = Splits(N, k) \union Added
  <2> HIDE DEF add
  <2> QED BY <1>2, <1>3, <1>4, <1>5
<1>7. Splits(N, k) \intersect Added = {}
  BY <1>1 DEF Splits
<1>8. IsFiniteSet(Splits(N, k)) /\ IsFiniteSet(Splits(N, k - 1))
      /\ Cardinality(Splits(N, k)) \in Nat /\ Cardinality(Splits(N, k - 1)) \in Nat
  <2>1. Splits(N, k) \in SUBSET SUBSET (1..N) /\ Splits(N, k - 1) \in SUBSET SUBSET (1..N)
    BY DEF Splits
  <2> QED BY <2>1, FiniteSplits
<1>9. IsFiniteSet(Added) /\ Cardinality(Added) = Cardinality(Splits(N, k - 1))
  <2>1. f \in [Splits(N, k - 1) -> Added]
    OBVIOUS
  <2>2. ASSUME NEW a \in Splits(N, k - 1), NEW b \in Splits(N, k - 1), f[a] = f[b] PROVE a = b
    <3>1. N + 1 \notin a /\ N + 1 \notin b
      BY <1>1 DEF Splits
    <3>2. add(a) = add(b)
      BY <2>2
    <3> QED BY <3>1, <3>2
  <2>3. ASSUME NEW t \in Added PROVE \E s \in Splits(N, k - 1) : f[s] = t
    OBVIOUS
  <2> HIDE DEF f, Added
  <2> QED BY <1>8, <2>1, <2>2, <2>3, Bijected
<1> HIDE DEF Added
<1>10. Cardinality(Splits(N, k) \union Added)
         = Cardinality(Splits(N, k)) + Cardinality(Added)
  BY <1>7, <1>8, <1>9, DisjointCounts
<1>11. Cardinality(Splits(N + 1, k)) = Cardinality(Splits(N, k) \union Added)
  BY <1>6
<1> DEFINE whole == Cardinality(Splits(N + 1, k))
           joined == Cardinality(Splits(N, k) \union Added)
<1> HIDE DEF whole, joined
<1>12. joined = Cardinality(Splits(N, k)) + Cardinality(Added)
  BY <1>10 DEF joined
<1>13. whole = joined
  BY <1>11 DEF whole, joined
<1> QED BY <1>9, <1>12, <1>13 DEF whole

LEMMA PascalProduct ==
    ASSUME NEW a \in Nat, NEW b \in Nat, NEW k \in Nat, NEW r \in Nat,
           NEW x \in Nat, NEW y \in Nat, NEW z \in Nat,
           a * ((k * x) * y) = z, b * (x * (r * y)) = z
    PROVE  (a + b) * ((k * x) * (r * y)) = (r + k) * z
<1> DEFINE u == (k * x) * y
           v == x * (r * y)
           w == (k * x) * (r * y)
<1>1. u \in Nat /\ v \in Nat /\ w \in Nat
  OBVIOUS
<1>2. w = r * u /\ w = k * v
  OBVIOUS
<1>3. (a + b) * w = a * w + b * w
  BY <1>1
<1>4. a * w = r * (a * u)
  <2> HIDE DEF u, w
  <2> QED BY <1>1, <1>2
<1>5. b * w = k * (b * v)
  <2> HIDE DEF v, w
  <2> QED BY <1>1, <1>2
<1>6. (r + k) * z = r * z + k * z
  OBVIOUS
<1> QED BY <1>3, <1>4, <1>5, <1>6

\* There are N! / (k! (N - k)!) of them.
LEMMA SplitsCounted ==
    \A N \in Nat : \A k \in 0..N :
        Cardinality(Splits(N, k)) * (factorial[k] * factorial[N - k]) = factorial[N]
<1> DEFINE Right == {N \in Nat : \A k \in 0..N :
               Cardinality(Splits(N, k)) * (factorial[k] * factorial[N - k]) = factorial[N]}
<1>1. ASSUME NEW N \in Nat
      PROVE  Cardinality(Splits(N, 0)) = 1 /\ Cardinality(Splits(N, N)) = 1
  <2>1. \A s \in SUBSET (1..N) : /\ Cardinality(s) = N => s = 1..N
                                 /\ Cardinality(s) = 0 <=> s = {}
    BY FiniteSplits
  <2>2. 1..N \in SUBSET (1..N) /\ Cardinality(1..N) = N
    BY FiniteSplits
  <2>3. Splits(N, 0) = {{}}
    BY <2>1 DEF Splits
  <2>4. ASSUME NEW s PROVE s \in Splits(N, N) <=> s = 1..N
    BY <2>1, <2>2 DEF Splits
  <2>5. Splits(N, N) = {1..N}
    BY <2>4
  <2> QED BY <2>3, <2>5, FS_Singleton
<1>2. ASSUME NEW N \in Nat
      PROVE  /\ Cardinality(Splits(N, 0)) * (factorial[0] * factorial[N - 0]) = factorial[N]
             /\ Cardinality(Splits(N, N)) * (factorial[N] * factorial[N - N]) = factorial[N]
  <2>1. factorial[N] \in Nat /\ factorial[0] = 1
    BY Factorial
  <2>2. N - 0 = N /\ N - N = 0
    OBVIOUS
  <2> DEFINE z == factorial[N]
  <2>3. 1 * (1 * z) = z /\ 1 * (z * 1) = z
    BY <2>1
  <2> QED BY <1>1, <2>1, <2>2, <2>3
<1>3. 0 \in Right
  <2>1. \A k \in 0..0 : k = 0
    OBVIOUS
  <2>2. 0 \in Nat
    OBVIOUS
  <2> QED BY <1>2, <2>1, <2>2
<1>4. ASSUME NEW N \in Nat, N \in Right PROVE N + 1 \in Right
  <2>1. N + 1 \in Nat
    OBVIOUS
  <2> SUFFICES ASSUME NEW k \in 0..(N + 1)
               PROVE  Cardinality(Splits(N + 1, k)) * (factorial[k] * factorial[(N + 1) - k])
                        = factorial[N + 1]
    BY <2>1
  <2>2. CASE k = 0
    BY <1>2, <2>1, <2>2
  <2>3. CASE k = N + 1
    BY <1>2, <2>1, <2>3
  <2>4. CASE k \in 1..N
    <3>1. k - 1 \in 0..N /\ k \in 0..N /\ k - 1 \in Nat /\ N - k \in Nat
          /\ N - (k - 1) = (N + 1) - k /\ (k - 1) + 1 = k /\ (N - k) + 1 = (N + 1) - k
          /\ (N + 1) - k \in Nat
      BY <2>4
    <3> DEFINE a == Cardinality(Splits(N, k))
               b == Cardinality(Splits(N, k - 1))
               x == factorial[k - 1]
               y == factorial[N - k]
               z == factorial[N]
               r == (N + 1) - k
    <3>2. a \in Nat /\ b \in Nat /\ x \in Nat /\ y \in Nat /\ z \in Nat
      <4>1. Splits(N, k) \in SUBSET SUBSET (1..N) /\ Splits(N, k - 1) \in SUBSET SUBSET (1..N)
        BY DEF Splits
      <4>2. a \in Nat /\ b \in Nat
        BY <4>1, FiniteSplits
      <4>3. x \in Nat /\ y \in Nat /\ z \in Nat
        BY <3>1, Factorial
      <4> QED BY <4>2, <4>3
    <3>3. factorial[k] = k * x
      BY <3>1, Factorial
    <3>4. factorial[(N + 1) - k] = r * y
      BY <3>1, Factorial
    <3>5. a * ((k * x) * y) = z
      BY <1>4, <3>1, <3>3
    <3>6. b * (x * (r * y)) = z
      BY <1>4, <3>1, <3>4
    <3>7. Cardinality(Splits(N + 1, k)) = a + b
      BY <2>4, OneMorePair
    <3>8. factorial[N + 1] = (r + k) * z
      <4>1. factorial[N + 1] = (N + 1) * z
        BY Factorial
      <4>2. N + 1 = r + k
        OBVIOUS
      <4> QED BY <4>1, <4>2
    <3>9. k \in Nat /\ r \in Nat
      BY <3>1
    <3> HIDE DEF a, b, x, y, z, r
    <3>10. (a + b) * ((k * x) * (r * y)) = (r + k) * z
      BY <3>2, <3>5, <3>6, <3>9, PascalProduct
    <3> QED BY <3>3, <3>4, <3>7, <3>8, <3>10
  <2> QED BY <2>2, <2>3, <2>4
<1> HIDE DEF Right
<1>5. Nat \subseteq Right
  BY <1>3, <1>4, Inductive
<1> QED BY <1>5 DEF Right

LEMMA ExactQuotient ==
    ASSUME NEW c \in Nat, NEW w \in Nat, w > 0
    PROVE  (c * w) \div w = c
OBVIOUS

LEMMA ChooseCounts ==
    ASSUME NEW N \in Nat, NEW k \in 0..N
    PROVE  choose(N, k) = Cardinality(Splits(N, k)) /\ choose(N, k) \in Nat
<1> DEFINE c == Cardinality(Splits(N, k))
           w == factorial[k] * factorial[N - k]
<1>1. c \in Nat
  <2>1. Splits(N, k) \in SUBSET SUBSET (1..N)
    BY DEF Splits
  <2> QED BY <2>1, FiniteSplits
<1>2. w \in Nat /\ w > 0
  <2>1. k \in Nat /\ N - k \in Nat
    OBVIOUS
  <2>2. factorial[k] \in Nat /\ factorial[N - k] \in Nat
        /\ factorial[k] > 0 /\ factorial[N - k] > 0
    BY <2>1, Factorial
  <2> QED BY <2>2, ProductPositive
<1>3. factorial[N] = c * w
  BY SplitsCounted
<1>4. choose(N, k) = factorial[N] \div w
  BY DEF choose
<1> HIDE DEF c, w
<1>5. choose(N, k) = c
  BY <1>1, <1>2, <1>3, <1>4, ExactQuotient
<1> QED BY <1>1, <1>5 DEF c

LEMMA OneMoreEachWay ==
    ASSUME NEW d \in Nat, NEW j \in 0..d
    PROVE  Cardinality(AtMost(d, j)) = choose(d, j) + Cardinality(AtMost(d, j - 1))
<1>1. AtMost(d, j) = Splits(d, j) \union AtMost(d, j - 1)
  <2>1. \A s \in SUBSET (1..d) : Cardinality(s) \in Nat
    BY FiniteSplits
  <2>2. ASSUME NEW s \in SUBSET (1..d)
        PROVE  Cardinality(s) <= j <=> Cardinality(s) = j \/ Cardinality(s) <= j - 1
    BY <2>1
  <2> QED BY <2>2 DEF AtMost, Splits
<1>2. Splits(d, j) \intersect AtMost(d, j - 1) = {}
  <2>1. \A s \in SUBSET (1..d) : ~(Cardinality(s) = j /\ Cardinality(s) <= j - 1)
    OBVIOUS
  <2> QED BY <2>1 DEF AtMost, Splits
<1>3. IsFiniteSet(Splits(d, j)) /\ IsFiniteSet(AtMost(d, j - 1))
  <2>1. Splits(d, j) \in SUBSET SUBSET (1..d) /\ AtMost(d, j - 1) \in SUBSET SUBSET (1..d)
    BY DEF Splits, AtMost
  <2> QED BY <2>1, FiniteSplits
<1>4. Cardinality(Splits(d, j) \union AtMost(d, j - 1))
        = Cardinality(Splits(d, j)) + Cardinality(AtMost(d, j - 1))
  BY <1>2, <1>3, DisjointCounts
<1> QED BY <1>1, <1>4, ChooseCounts

\* The tail counts the splits in which at most k pairs go one way.
LEMMA TailCounts ==
    ASSUME NEW d \in Nat, NEW k \in 0..d
    PROVE  TailCount(d, k) = Cardinality(AtMost(d, k)) /\ TailCount(d, k) \in Nat
<1> DEFINE g == [j \in -1..k |-> Cardinality(AtMost(d, j))]
           body(t) == [j \in -1..k |-> IF j = -1 THEN 0 ELSE choose(d, j) + t[j - 1]]
           tail == CHOOSE t : t = body(t)
<1>1. Cardinality(AtMost(d, -1)) = 0
  <2>1. \A s \in SUBSET (1..d) : Cardinality(s) \in Nat
    BY FiniteSplits
  <2>2. \A s \in SUBSET (1..d) : ~(Cardinality(s) <= -1)
    BY <2>1
  <2>3. AtMost(d, -1) = {}
    BY <2>2 DEF AtMost
  <2> QED BY <2>3, FS_EmptySet
<1>2. \A j \in 0..k : Cardinality(AtMost(d, j)) = choose(d, j) + Cardinality(AtMost(d, j - 1))
  <2>1. \A j \in 0..k : j \in 0..d
    OBVIOUS
  <2> QED BY <2>1, OneMoreEachWay
<1>3. g = body(g)
  <2>1. ASSUME NEW j \in -1..k
        PROVE  g[j] = IF j = -1 THEN 0 ELSE choose(d, j) + g[j - 1]
    <3>1. CASE j = -1
      BY <1>1, <3>1
    <3>2. CASE j # -1
      <4>1. j \in 0..k /\ j - 1 \in -1..k
        BY <3>2
      <4> QED BY <1>2, <3>2, <4>1
    <3> QED BY <3>1, <3>2
  <2>2. g = [j \in -1..k |-> g[j]]
    OBVIOUS
  <2> QED BY <2>1, <2>2
<1>4. tail = body(tail)
  <2> HIDE DEF body, g
  <2> QED BY <1>3
<1>5. TailCount(d, k) = tail[k]
  BY DEF TailCount
<1> HIDE DEF tail
<1> DEFINE Same == {j \in Nat : j <= k + 1 => tail[j - 1] = g[j - 1]}
<1>6. 0 \in Same
  <2>1. -1 \in -1..k
    OBVIOUS
  <2>2. tail[-1] = 0
    BY <1>4, <2>1
  <2>3. g[-1] = 0
    BY <1>1, <2>1
  <2>4. 0 - 1 = -1
    OBVIOUS
  <2> HIDE DEF g
  <2> QED BY <2>2, <2>3, <2>4
<1>7. ASSUME NEW j \in Nat, j \in Same PROVE j + 1 \in Same
  <2> SUFFICES ASSUME j + 1 <= k + 1 PROVE tail[(j + 1) - 1] = g[(j + 1) - 1]
    OBVIOUS
  <2>1. j \in -1..k /\ j # -1 /\ (j + 1) - 1 = j
    OBVIOUS
  <2>2. tail[j] = choose(d, j) + tail[j - 1]
    BY <1>4, <2>1
  <2>3. g[j] = choose(d, j) + g[j - 1]
    BY <1>3, <2>1
  <2>4. tail[j - 1] = g[j - 1]
    BY <1>7
  <2> HIDE DEF g
  <2> QED BY <2>1, <2>2, <2>3, <2>4
<1> HIDE DEF Same
<1>8. Nat \subseteq Same
  BY <1>6, <1>7, Inductive
<1>9. tail[k] = g[k]
  <2>1. k + 1 \in Nat /\ k + 1 <= k + 1 /\ (k + 1) - 1 = k
    OBVIOUS
  <2> HIDE DEF g
  <2> QED BY <1>8, <2>1 DEF Same
<1>10. g[k] = Cardinality(AtMost(d, k))
  OBVIOUS
<1>11. Cardinality(AtMost(d, k)) \in Nat
  <2>1. AtMost(d, k) \in SUBSET SUBSET (1..d)
    BY DEF AtMost
  <2> QED BY <2>1, FiniteSplits
<1> QED BY <1>5, <1>9, <1>10, <1>11

\* Turning every pair round, as many splits have at least d - k one way.
LEMMA TurnedRound ==
    ASSUME NEW d \in Nat, NEW k \in 0..d
    PROVE  Cardinality(AtLeast(d, d - k)) = Cardinality(AtMost(d, k))
<1> DEFINE turn(s) == (1..d) \ s
           f == [s \in AtMost(d, k) |-> turn(s)]
<1>1. ASSUME NEW s \in SUBSET (1..d)
      PROVE  /\ turn(s) \in SUBSET (1..d) /\ turn(turn(s)) = s
             /\ Cardinality(s) \in Nat /\ Cardinality(turn(s)) = d - Cardinality(s)
  <2>1. (1..d) \intersect s = s
    OBVIOUS
  <2>2. IsFiniteSet(1..d) /\ Cardinality(1..d) = d
    BY FS_Interval
  <2>3. Cardinality(turn(s)) = Cardinality(1..d) - Cardinality((1..d) \intersect s)
    BY <2>2, FS_Difference
  <2>4. turn(turn(s)) = s
    OBVIOUS
  <2>5. turn(s) \in SUBSET (1..d)
    OBVIOUS
  <2>6. Cardinality(s) \in Nat
    BY FiniteSplits
  <2> HIDE DEF turn
  <2> QED BY <2>1, <2>2, <2>3, <2>4, <2>5, <2>6
<1> HIDE DEF turn
<1>2. ASSUME NEW s \in AtMost(d, k) PROVE turn(s) \in AtLeast(d, d - k)
  <2>1. s \in SUBSET (1..d) /\ Cardinality(s) <= k
    BY DEF AtMost
  <2>2. turn(s) \in SUBSET (1..d) /\ Cardinality(turn(s)) >= d - k
    BY <1>1, <2>1
  <2> QED BY <2>2 DEF AtLeast
<1>3. ASSUME NEW t \in AtLeast(d, d - k) PROVE turn(t) \in AtMost(d, k) /\ turn(turn(t)) = t
  <2>1. t \in SUBSET (1..d) /\ Cardinality(t) >= d - k
    BY DEF AtLeast
  <2>2. turn(t) \in SUBSET (1..d) /\ Cardinality(turn(t)) <= k
    BY <1>1, <2>1
  <2> QED BY <1>1, <2>1, <2>2 DEF AtMost
<1>4. f \in [AtMost(d, k) -> AtLeast(d, d - k)]
  BY <1>2
<1>5. ASSUME NEW a \in AtMost(d, k), NEW b \in AtMost(d, k), f[a] = f[b] PROVE a = b
  <2>1. turn(a) = turn(b)
    BY <1>5
  <2>2. turn(turn(a)) = a /\ turn(turn(b)) = b
    BY <1>1 DEF AtMost
  <2> QED BY <2>1, <2>2
<1>6. ASSUME NEW t \in AtLeast(d, d - k) PROVE \E s \in AtMost(d, k) : f[s] = t
  BY <1>3
<1>7. IsFiniteSet(AtMost(d, k))
  <2>1. AtMost(d, k) \in SUBSET SUBSET (1..d)
    BY DEF AtMost
  <2> QED BY <2>1, FiniteSplits
<1> HIDE DEF f
<1> QED BY <1>4, <1>5, <1>6, <1>7, Bijected

\* The splits at least as lopsided as one of from against to.
Lopsided(from, to) ==
    {split \in SUBSET (1..(from + to)) :
        \/ Cardinality(split) <= from /\ Cardinality(split) <= to
        \/ Cardinality(split) >= from /\ Cardinality(split) >= to}

\* They are counted by twice the tail, or are all the splits there are.
Counted(from, to, least) ==
    LET d == from + to
        twice == 2 * TailCount(d, least)
    IN  /\ 2 ^ d \in Nat \ {0} /\ twice \in Nat
        /\ twice > 2 ^ d => Cardinality(Lopsided(from, to)) = 2 ^ d
        /\ ~(twice > 2 ^ d) => Cardinality(Lopsided(from, to)) = twice

LEMMA LopsidedCounted ==
    ASSUME NEW from \in Nat, NEW to \in Nat, NEW least \in {from, to}, least <= from, least <= to
    PROVE  Counted(from, to, least)
<1> USE DEF Counted
<1> DEFINE d == from + to
           A == AtMost(d, least)
           B == AtLeast(d, d - least)
           L == Lopsided(from, to)
           all == SUBSET (1..d)
<1>1. d \in Nat /\ least \in 0..d /\ d - least \in Nat
  OBVIOUS
<1>2. \A s \in SUBSET (1..d) : Cardinality(s) \in Nat
  BY <1>1, FiniteSplits
<1>3. /\ IsFiniteSet(all) /\ Cardinality(all) = 2 ^ d /\ Cardinality(all) \in Nat
      /\ IsFiniteSet(A) /\ IsFiniteSet(B)
  <2>1. A \in SUBSET all /\ B \in SUBSET all /\ all \in SUBSET all
    BY DEF AtMost, AtLeast
  <2> HIDE DEF A, B, d
  <2>2. \A T \in SUBSET all : IsFiniteSet(T) /\ Cardinality(T) \in Nat
    BY <1>1, FiniteSplits
  <2>3. Cardinality(all) = 2 ^ d
    BY <1>1, FiniteSplits
  <2> HIDE DEF all
  <2> QED BY <2>1, <2>2, <2>3
<1>4. Cardinality(A) = TailCount(d, least) /\ TailCount(d, least) \in Nat
  <2> HIDE DEF d
  <2> QED BY <1>1, TailCounts
<1>5. Cardinality(B) = Cardinality(A)
  <2> HIDE DEF d
  <2> QED BY <1>1, TurnedRound
<1>6. L = A \union B
  <2>1. ASSUME NEW s \in SUBSET (1..d)
        PROVE  s \in L <=> s \in A \/ s \in B
    <3>1. Cardinality(s) \in Nat
      BY <1>2
    <3>2. s \in A <=> Cardinality(s) <= least
      BY DEF AtMost
    <3>3. s \in B <=> Cardinality(s) >= d - least
      BY DEF AtLeast
    <3>4. s \in L <=> \/ Cardinality(s) <= from /\ Cardinality(s) <= to
                      \/ Cardinality(s) >= from /\ Cardinality(s) >= to
      BY DEF Lopsided
    <3> HIDE DEF L, A, B
    <3> QED BY <3>1, <3>2, <3>3, <3>4
  <2>2. L \subseteq SUBSET (1..d) /\ A \subseteq SUBSET (1..d) /\ B \subseteq SUBSET (1..d)
    BY DEF Lopsided, AtMost, AtLeast
  <2> HIDE DEF L, A, B, d
  <2> QED BY <2>1, <2>2
<1>7. L \subseteq all
  BY DEF Lopsided
<1>8. {} \in all
  OBVIOUS
<1>9. Cardinality(all) # 0
  <2> HIDE DEF all
  <2> QED BY <1>3, <1>8, FS_EmptySet
<1>10. Cardinality(L) \in Nat /\ Cardinality(L) <= 2 ^ d
  <2> HIDE DEF L, all
  <2>1. IsFiniteSet(L) /\ Cardinality(L) <= Cardinality(all)
    BY <1>3, <1>7, FS_Subset
  <2> QED BY <1>3, <2>1, FS_CardinalityType
<1>11. CASE from # to
  <2>1. A \intersect B = {}
    <3>1. least < d - least
      BY <1>11
    <3>2. ASSUME NEW s \in SUBSET (1..d) PROVE ~(s \in A /\ s \in B)
      <4>1. s \in A => Cardinality(s) <= least
        BY DEF AtMost
      <4>2. s \in B => Cardinality(s) >= d - least
        BY DEF AtLeast
      <4> HIDE DEF A, B
      <4> QED BY <1>2, <3>1, <4>1, <4>2
    <3>3. A \subseteq SUBSET (1..d)
      BY DEF AtMost
    <3> HIDE DEF A, B, d
    <3> QED BY <3>2, <3>3
  <2> HIDE DEF A, B, L, d
  <2>2. Cardinality(A \union B) = Cardinality(A) + Cardinality(B)
    BY <1>3, <2>1, DisjointCounts
  <2>3. Cardinality(L) = 2 * TailCount(d, least)
    BY <1>4, <1>5, <1>6, <2>2
  <2> HIDE DEF all
  <2> QED BY <1>3, <1>4, <1>9, <1>10, <2>3 DEF d, L
<1>12. CASE from = to
  <2>1. L = all
    <3>1. \A s \in SUBSET (1..d) : Cardinality(s) <= from \/ Cardinality(s) >= from
      BY <1>2
    <3> QED BY <1>12, <3>1 DEF Lopsided
  <2> HIDE DEF A, B, L, d
  <2>2. Cardinality(A \union B) = Cardinality(A) + Cardinality(B) - Cardinality(A \intersect B)
        /\ Cardinality(A \intersect B) \in Nat
    <3>1. IsFiniteSet(A \intersect B)
      BY <1>3, FS_Intersection
    <3> QED BY <1>3, <3>1, FS_Union, FS_CardinalityType
  <2>3. Cardinality(A \union B) = 2 ^ d
    BY <1>3, <1>6, <2>1
  <2>4. 2 * TailCount(d, least) >= 2 ^ d
    <3> DEFINE t == TailCount(d, least)
               c == Cardinality(A \intersect B)
               N == 2 ^ d
               m == Cardinality(A \union B)
    <3>1. m = t + t - c /\ c \in Nat /\ t \in Nat /\ m = N /\ N \in Nat
      BY <1>3, <1>4, <1>5, <2>2, <2>3
    <3> HIDE DEF t, c, N, m
    <3>2. 2 * t >= N
      BY <3>1
    <3> QED BY <3>2 DEF t, N
  <2>5. Cardinality(L) = 2 ^ d
    BY <1>3, <2>1
  <2> HIDE DEF all
  <2> QED BY <1>3, <1>4, <1>9, <2>4, <2>5 DEF d, L
<1> QED BY <1>11, <1>12

\* The exact test is the share of the lopsided splits.
LEMMA ExactTest ==
    ASSUME NEW first, NEW second, IsFiniteSet(first), IsFiniteSet(second)
    PROVE  LET from == Cardinality(first \ second)
               to == Cardinality(second \ first)
               p == McNemar(first, second)
           IN  /\ from \in Nat /\ to \in Nat /\ p \in Nat \X Nat
               /\ p[2] = 2 ^ (from + to) \/ p = <<1, 1>>
               /\ p[2] > 0 /\ p[1] <= p[2]
               /\ p[1] * 2 ^ (from + to) = Cardinality(Lopsided(from, to)) * p[2]
<1> DEFINE from == Cardinality(first \ second)
           to == Cardinality(second \ first)
           least == IF from <= to THEN from ELSE to
           twice == 2 * TailCount(from + to, least)
           N == 2 ^ (from + to)
           c == Cardinality(Lopsided(from, to))
           p == McNemar(first, second)
<1>1. from \in Nat /\ to \in Nat
  <2>1. IsFiniteSet(first \ second) /\ IsFiniteSet(second \ first)
    BY FS_Difference
  <2> QED BY <2>1, FS_CardinalityType
<1>2. least \in {from, to} /\ least <= from /\ least <= to
  <2> HIDE DEF from, to
  <2> QED BY <1>1
<1>3. p = IF twice > N THEN <<1, 1>> ELSE <<twice, N>>
  BY DEF McNemar
<1> HIDE DEF from, to, least
<1>4. /\ N \in Nat \ {0} /\ twice \in Nat
      /\ (twice > N => c = N) /\ (~(twice > N) => c = twice)
  <2>1. Counted(from, to, least)
    BY <1>1, <1>2, LopsidedCounted
  <2> QED
    BY <2>1 DEF Counted
<1> HIDE DEF twice, c, p
<1>5. CASE twice > N
  <2>1. p = <<1, 1>> /\ c = N
    BY <1>3, <1>4, <1>5
  <2>2. p \in Nat \X Nat /\ p[1] = 1 /\ p[2] = 1
    BY <2>1
  <2>3. 1 * N = N * 1
    BY <1>4
  <2> QED BY <1>1, <2>1, <2>2, <2>3 DEF from, to, c, p
<1>6. CASE ~(twice > N)
  <2>1. p = <<twice, N>> /\ c = twice /\ twice <= N
    BY <1>3, <1>4, <1>6
  <2> HIDE DEF N
  <2>2. p \in Nat \X Nat /\ p[1] = twice /\ p[2] = N /\ N > 0
    BY <1>4, <2>1
  <2> QED BY <1>1, <2>1, <2>2 DEF from, to, c, p, N
<1> QED BY <1>5, <1>6

Fractions == Nat \X (Nat \ {0})

LEMMA Cancel ==
    ASSUME NEW x \in Nat, NEW y \in Nat, NEW k \in Nat \ {0}, x * k <= y * k
    PROVE  x <= y
OBVIOUS

LEMMA Scale ==
    ASSUME NEW x \in Nat, NEW y \in Nat, NEW k \in Nat, x <= y
    PROVE  x * k <= y * k
OBVIOUS

\* The order of the fractions is total and transitive.
LEMMA FractionOrder ==
    ASSUME NEW p \in Fractions, NEW q \in Fractions, NEW r \in Fractions
    PROVE  /\ ~Below(p, q) \/ ~Below(q, p)
           /\ ~Below(q, p) /\ ~Below(r, q) => ~Below(r, p)
<1> DEFINE a == p[1]  b == p[2]  c == q[1]  d == q[2]  e == r[1]  f == r[2]
<1>1. /\ a \in Nat /\ b \in Nat \ {0} /\ c \in Nat /\ d \in Nat \ {0}
      /\ e \in Nat /\ f \in Nat \ {0}
  BY DEF Fractions
<1>2. /\ Below(p, q) <=> a * d < c * b
      /\ Below(q, p) <=> c * b < a * d
      /\ Below(r, q) <=> e * d < c * f
      /\ Below(r, p) <=> e * b < a * f
  BY DEF Below
<1> HIDE DEF a, b, c, d, e, f
<1>3. a * d \in Nat /\ c * b \in Nat /\ e * d \in Nat /\ c * f \in Nat /\ e * b \in Nat /\ a * f \in Nat
  BY <1>1
<1>4. ASSUME ~(c * b < a * d), ~(e * d < c * f) PROVE ~(e * b < a * f)
  <2>1. (a * d) * f <= (c * b) * f
    <3>1. a * d <= c * b
      BY <1>3, <1>4
    <3> DEFINE x == a * d  y == c * b
    <3>2. x \in Nat /\ y \in Nat /\ x <= y /\ f \in Nat
      BY <1>1, <1>3, <3>1
    <3> HIDE DEF x, y
    <3>3. x * f <= y * f
      BY <3>2, Scale
    <3> QED BY <3>3 DEF x, y
  <2>2. (c * f) * b <= (e * d) * b
    <3>1. c * f <= e * d
      BY <1>3, <1>4
    <3> DEFINE x == c * f  y == e * d
    <3>2. x \in Nat /\ y \in Nat /\ x <= y /\ b \in Nat
      BY <1>1, <1>3, <3>1
    <3> HIDE DEF x, y
    <3>3. x * b <= y * b
      BY <3>2, Scale
    <3> QED BY <3>3 DEF x, y
  <2>3. (a * d) * f = (a * f) * d /\ (c * b) * f = (c * f) * b /\ (e * d) * b = (e * b) * d
    BY <1>1
  <2>4. (a * f) * d <= (e * b) * d
    <3> DEFINE x == (a * f) * d  y == (c * f) * b  z == (e * b) * d
    <3>1. x \in Nat /\ y \in Nat /\ z \in Nat
      BY <1>1
    <3>2. x <= y /\ y <= z
      BY <2>1, <2>2, <2>3
    <3> HIDE DEF x, y, z
    <3>3. x <= z
      BY <3>1, <3>2
    <3> QED BY <3>3 DEF x, z
  <2> DEFINE x == a * f  y == e * b
  <2>5. x \in Nat /\ y \in Nat
    BY <1>3
  <2> HIDE DEF x, y
  <2>6. x * d <= y * d
    BY <2>4 DEF x, y
  <2>7. x <= y
    BY <1>1, <2>5, <2>6, Cancel
  <2>8. ~(y < x)
    BY <2>5, <2>7
  <2> QED BY <2>8 DEF x, y
<1>5. ~(a * d < c * b) \/ ~(c * b < a * d)
  BY <1>3
<1> QED BY <1>2, <1>4, <1>5

\* A test at a level is a comparison with the fraction of the level.
LEMMA RejectsIsAnOrder ==
    ASSUME NEW p \in Fractions, NEW N \in Nat \ {0}
    PROVE  /\ <<AlphaNum, AlphaDen * N>> \in Fractions
           /\ Rejects(p, N) <=> ~Below(<<AlphaNum, AlphaDen * N>>, p)
<1>1. AlphaNum \in Nat /\ AlphaDen \in Nat \ {0}
  BY AlphaAssumption
<1>2. AlphaDen * N \in Nat \ {0}
  BY <1>1, ProductPositive
<1> DEFINE a == p[1]  b == p[2]
<1>3. a \in Nat /\ b \in Nat
  BY DEF Fractions
<1>4. Rejects(p, N) <=> a * AlphaDen * N <= AlphaNum * b
  BY DEF Rejects
<1>5. Below(<<AlphaNum, AlphaDen * N>>, p) <=> AlphaNum * b < a * (AlphaDen * N)
  BY DEF Below
<1> HIDE DEF a, b
<1>6. a * AlphaDen * N = a * (AlphaDen * N) /\ a * AlphaDen * N \in Nat /\ AlphaNum * b \in Nat
  BY <1>1, <1>3
<1>7. a * AlphaDen * N <= AlphaNum * b <=> ~(AlphaNum * b < a * AlphaDen * N)
  <2> DEFINE x == a * AlphaDen * N  y == AlphaNum * b
  <2>1. x \in Nat /\ y \in Nat
    BY <1>6
  <2> HIDE DEF x, y
  <2>2. x <= y <=> ~(y < x)
    BY <2>1
  <2> QED BY <2>2 DEF x, y
<1>8. <<AlphaNum, AlphaDen * N>> \in Fractions
  BY <1>1, <1>2 DEF Fractions
<1> QED BY <1>4, <1>5, <1>6, <1>7, <1>8

\* What is rejected at a level is rejected at a laxer one, and so is a smaller p-value.
LEMMA RejectsMonotone ==
    ASSUME NEW p \in Fractions, NEW q \in Fractions, NEW N \in Nat \ {0}, NEW m \in Nat \ {0},
           Rejects(q, N)
    PROVE  /\ m <= N => Rejects(q, m)
           /\ ~Below(q, p) => Rejects(p, N)
<1>1. ASSUME ~Below(q, p) PROVE Rejects(p, N)
  <2> DEFINE level == <<AlphaNum, AlphaDen * N>>
  <2>1. level \in Fractions /\ ~Below(level, q) /\ (Rejects(p, N) <=> ~Below(level, p))
    BY RejectsIsAnOrder
  <2> HIDE DEF level
  <2> QED BY <1>1, <2>1, FractionOrder
<1>2. ASSUME m <= N PROVE Rejects(q, m)
  <2> DEFINE x == q[1] * AlphaDen  y == AlphaNum * q[2]
  <2>1. x \in Nat /\ y \in Nat
    BY AlphaAssumption DEF Fractions
  <2>2. x * N <= y
    BY DEF Rejects
  <2>3. Rejects(q, m) <=> x * m <= y
    BY DEF Rejects
  <2> HIDE DEF x, y
  <2>4. m * x <= N * x
    BY <1>2, <2>1, Scale
  <2>5. x * m <= y
    <3> DEFINE u == m * x  v == N * x
    <3>1. u \in Nat /\ v \in Nat /\ x * m = u /\ x * N = v
      BY <2>1
    <3>2. u <= v /\ v <= y
      BY <2>2, <2>4, <3>1
    <3> HIDE DEF u, v
    <3>3. u <= y
      BY <2>1, <3>1, <3>2
    <3> QED BY <3>1, <3>3
  <2> QED BY <2>3, <2>5
<1> QED BY <1>1, <1>2

LEMMA PowerDoubles ==
    ASSUME NEW N \in Nat
    PROVE  2 ^ (N + 1) = 2 * 2 ^ N /\ 2 ^ N \in Nat
<1> DEFINE S == SUBSET (1..N)
           T == SUBSET (1..(N + 1))
           add(s) == s \union {N + 1}
           f == [s \in S |-> add(s)]
           Added == {add(s) : s \in S}
<1>1. N + 1 \in Nat
  OBVIOUS
<1>2. IsFiniteSet(S) /\ Cardinality(S) = 2 ^ N /\ Cardinality(S) \in Nat
  <2>1. S \in SUBSET S
    OBVIOUS
  <2>2. \A U \in SUBSET S : IsFiniteSet(U) /\ Cardinality(U) \in Nat
    BY FiniteSplits
  <2>3. Cardinality(S) = 2 ^ N
    BY FiniteSplits
  <2> HIDE DEF S
  <2> QED BY <2>1, <2>2, <2>3
<1>3. Cardinality(T) = 2 ^ (N + 1)
  <2> DEFINE m == N + 1
  <2> HIDE DEF m
  <2>1. Cardinality(SUBSET (1..m)) = 2 ^ m
    BY <1>1, FiniteSplits DEF m
  <2> QED BY <2>1 DEF m
<1>4. \A x \in 1..N : x \in 1..(N + 1) /\ x # N + 1
  OBVIOUS
<1>5. \A x \in 1..(N + 1) : x # N + 1 => x \in 1..N
  OBVIOUS
<1>6. N + 1 \in 1..(N + 1)
  OBVIOUS
<1>7. T = S \union Added
  <2>1. ASSUME NEW t \in T, N + 1 \notin t PROVE t \in S
    BY <1>5, <2>1
  <2>2. ASSUME NEW t \in T, N + 1 \in t PROVE t \in Added
    <3>1. t \ {N + 1} \in S
      BY <1>5
    <3>2. t = add(t \ {N + 1})
      BY <2>2
    <3> QED BY <3>1, <3>2
  <2>3. S \subseteq T
    BY <1>4
  <2>4. ASSUME NEW s \in S PROVE add(s) \in T
    BY <1>4, <1>6
  <2> HIDE DEF S, T, add
  <2> QED BY <2>1, <2>2, <2>3, <2>4
<1>8. S \intersect Added = {}
  BY <1>4
<1>9. IsFiniteSet(Added) /\ Cardinality(Added) = Cardinality(S)
  <2>1. f \in [S -> Added]
    OBVIOUS
  <2>2. ASSUME NEW a \in S, NEW b \in S, f[a] = f[b] PROVE a = b
    <3>1. N + 1 \notin a /\ N + 1 \notin b
      BY <1>4
    <3>2. add(a) = add(b)
      BY <2>2
    <3> QED BY <3>1, <3>2
  <2>3. ASSUME NEW t \in Added PROVE \E s \in S : f[s] = t
    OBVIOUS
  <2> HIDE DEF f, Added, S
  <2> QED BY <1>2, <2>1, <2>2, <2>3, Bijected
<1> HIDE DEF S, T, Added
<1>10. Cardinality(S \union Added) = Cardinality(S) + Cardinality(Added)
  BY <1>2, <1>8, <1>9, DisjointCounts
<1>11. Cardinality(T) = Cardinality(S \union Added)
  BY <1>7
<1> QED BY <1>2, <1>3, <1>9, <1>10, <1>11

\* No power of two is a multiple of twenty.
LEMMA NoTwentieth ==
    ASSUME NEW d \in Nat, NEW N \in Nat
    PROVE  20 * N # 2 ^ d
<1> DEFINE Right == {m \in Nat : (2 ^ m) % 5 # 0}
<1>1. 0 \in Right
  <2>1. 2 ^ 0 = 1
    OBVIOUS
  <2> QED BY <2>1
<1>2. ASSUME NEW m \in Nat, m \in Right PROVE m + 1 \in Right
  <2> DEFINE x == 2 ^ m  y == 2 ^ (m + 1)
  <2>1. x \in Nat /\ x % 5 # 0 /\ y = 2 * x
    BY <1>2, PowerDoubles
  <2> HIDE DEF x, y
  <2>2. y % 5 # 0
    BY <2>1
  <2> QED BY <2>2 DEF y
<1> HIDE DEF Right
<1>3. Nat \subseteq Right
  BY <1>1, <1>2, Inductive
<1>4. (2 ^ d) % 5 # 0
  BY <1>3 DEF Right
<1>5. (20 * N) % 5 = 0
  OBVIOUS
<1> QED BY <1>4, <1>5

-----------------------------------------------------------------------------
\* The hypotheses with a smaller p-value, and those before it with an equal one.
Before(ps, i) ==
    {j \in DOMAIN ps : Below(ps[j], ps[i]) \/ (~Below(ps[i], ps[j]) /\ j < i)}

\* They order the hypotheses, and the rank follows the order.
LEMMA RankIsAnOrder ==
    ASSUME NEW N \in Nat, NEW ps \in [1..N -> Fractions]
    PROVE  /\ \A i \in 1..N : /\ IsFiniteSet(Before(ps, i)) /\ Cardinality(Before(ps, i)) \in Nat
                              /\ HolmRank(ps, i) = 1 + Cardinality(Before(ps, i))
                              /\ Cardinality(Before(ps, i)) < N
           /\ \A i, j \in 1..N : j \in Before(ps, i) => HolmRank(ps, j) < HolmRank(ps, i)
           /\ \A i, j \in 1..N : j \notin Before(ps, i) => ~Below(ps[j], ps[i])
<1>1. ASSUME NEW i \in 1..N
      PROVE  /\ IsFiniteSet(Before(ps, i)) /\ Cardinality(Before(ps, i)) \in Nat
             /\ HolmRank(ps, i) = 1 + Cardinality(Before(ps, i))
             /\ Cardinality(Before(ps, i)) < N
  <2>1. Before(ps, i) \in SUBSET (1..N)
    BY DEF Before
  <2>2. IsFiniteSet(Before(ps, i)) /\ Cardinality(Before(ps, i)) \in Nat
        /\ Cardinality(Before(ps, i)) <= N /\ (Cardinality(Before(ps, i)) = N => Before(ps, i) = 1..N)
    BY <2>1, FiniteSplits
  <2>3. i \notin Before(ps, i)
    <3>1. ~Below(ps[i], ps[i])
      BY FractionOrder
    <3> QED BY <3>1 DEF Before
  <2>4. HolmRank(ps, i) = 1 + Cardinality(Before(ps, i))
    BY DEF HolmRank, Before
  <2> QED BY <2>2, <2>3, <2>4
<1>2. ASSUME NEW i \in 1..N, NEW j \in 1..N, j \in Before(ps, i)
      PROVE  HolmRank(ps, j) < HolmRank(ps, i)
  <2>1. Below(ps[j], ps[i]) \/ (~Below(ps[i], ps[j]) /\ j < i)
    BY <1>2 DEF Before
  <2>2. ASSUME NEW k \in Before(ps, j) PROVE k \in Before(ps, i)
    <3>1. k \in 1..N /\ (Below(ps[k], ps[j]) \/ (~Below(ps[j], ps[k]) /\ k < j))
      BY <2>2 DEF Before
    <3>2. ps[i] \in Fractions /\ ps[j] \in Fractions /\ ps[k] \in Fractions
      BY <3>1
    <3> DEFINE p == ps[i]  q == ps[j]  r == ps[k]
    <3>3. /\ ~Below(r, q) \/ ~Below(q, r)
          /\ ~Below(q, p) \/ ~Below(p, q)
          /\ ~Below(r, p) \/ ~Below(p, r)
      BY <3>2, FractionOrder
    <3>4. /\ ~Below(p, q) /\ ~Below(q, r) => ~Below(p, r)
          /\ ~Below(r, p) /\ ~Below(p, q) => ~Below(r, q)
          /\ ~Below(q, r) /\ ~Below(r, p) => ~Below(q, p)
      BY <3>2, FractionOrder
    <3> HIDE DEF p, q, r
    <3>5. Below(r, p) \/ (~Below(p, r) /\ k < i)
      <4>1. CASE j < i /\ k < j
        <5>1. k < i
          BY <3>1, <4>1
        <5> QED BY <2>1, <3>1, <3>3, <3>4, <5>1 DEF p, q, r
      <4>2. CASE ~(j < i /\ k < j)
        BY <2>1, <3>1, <3>3, <3>4, <4>2 DEF p, q, r
      <4> QED BY <4>1, <4>2
    <3> QED BY <3>1, <3>5 DEF p, r, Before
  <2>3. j \notin Before(ps, j)
    <3>1. ~Below(ps[j], ps[j])
      BY FractionOrder
    <3> QED BY <3>1 DEF Before
  <2> DEFINE A == Before(ps, i)  B == Before(ps, j)
  <2>4. B \in SUBSET A /\ B # A
    BY <1>2, <2>2, <2>3
  <2>5. IsFiniteSet(A) /\ Cardinality(A) \in Nat /\ Cardinality(B) \in Nat
    BY <1>1
  <2> HIDE DEF A, B
  <2>6. Cardinality(B) <= Cardinality(A) /\ Cardinality(A) # Cardinality(B)
    BY <2>4, <2>5, FS_Subset
  <2>7. HolmRank(ps, i) = 1 + Cardinality(A) /\ HolmRank(ps, j) = 1 + Cardinality(B)
    BY <1>1 DEF A, B
  <2> QED BY <2>5, <2>6, <2>7
<1>3. ASSUME NEW i \in 1..N, NEW j \in 1..N, j \notin Before(ps, i)
      PROVE  ~Below(ps[j], ps[i])
  BY <1>3 DEF Before
<1> QED BY <1>1, <1>2, <1>3

\* The step-down rejects what closed testing with Bonferroni's test rejects.
LEMMA ClosedTesting ==
    ASSUME NEW N \in Nat, NEW ps \in [1..N -> Fractions], Len(ps) = N, NEW i \in 1..N
    PROVE  i \in Holm(ps) <=>
             \A J \in SUBSET (1..N) : i \in J => \E j \in J : Rejects(ps[j], Cardinality(J))
<1> DEFINE rank(k) == HolmRank(ps, k)
           Closed == \A J \in SUBSET (1..N) : i \in J => \E j \in J : Rejects(ps[j], Cardinality(J))
<1>1. \A k \in 1..N : /\ IsFiniteSet(Before(ps, k)) /\ Cardinality(Before(ps, k)) \in Nat
                      /\ rank(k) = 1 + Cardinality(Before(ps, k))
                      /\ Cardinality(Before(ps, k)) < N
                      /\ Before(ps, k) \in SUBSET (1..N)
  <2>1. \A k \in 1..N : Before(ps, k) \in SUBSET (1..N)
    BY DEF Before
  <2> QED BY <2>1, RankIsAnOrder
<1>2. \A k, j \in 1..N : j \in Before(ps, k) => rank(j) < rank(k)
  BY RankIsAnOrder
<1>3. i \in Holm(ps) <=> \A j \in 1..N : rank(j) <= rank(i) => Rejects(ps[j], N + 1 - rank(j))
  BY DEF Holm
<1> HIDE DEF rank
<1>4. ASSUME NEW k \in 1..N
      PROVE  N + 1 - rank(k) \in Nat \ {0} /\ rank(k) \in Nat
  <2> DEFINE c == Cardinality(Before(ps, k))  r == rank(k)
  <2>1. c \in Nat /\ c < N /\ r = 1 + c
    BY <1>1
  <2> HIDE DEF c, r
  <2>2. N + 1 - r \in Nat \ {0} /\ r \in Nat
    BY <2>1
  <2> QED BY <2>2 DEF r
<1>5. ASSUME NEW k \in 1..N
      PROVE  /\ IsFiniteSet((1..N) \ Before(ps, k))
             /\ Cardinality((1..N) \ Before(ps, k)) = N + 1 - rank(k)
  <2> DEFINE B == Before(ps, k)
  <2>1. IsFiniteSet(1..N) /\ Cardinality(1..N) = N
    BY FS_Interval
  <2>2. (1..N) \intersect B = B
    BY <1>1
  <2>3. IsFiniteSet((1..N) \ B)
        /\ Cardinality((1..N) \ B) = Cardinality(1..N) - Cardinality((1..N) \intersect B)
    BY <2>1, FS_Difference
  <2>4. Cardinality(B) \in Nat /\ rank(k) = 1 + Cardinality(B)
    BY <1>1
  <2> DEFINE r == rank(k)  c == Cardinality(B)
  <2>5. Cardinality((1..N) \ B) = N - c
    BY <2>1, <2>2, <2>3
  <2>6. c \in Nat /\ r = 1 + c
    BY <2>4
  <2> HIDE DEF c, r
  <2>7. N - c = N + 1 - r
    BY <2>6
  <2> QED BY <2>3, <2>5, <2>7 DEF r
<1>6. ASSUME i \in Holm(ps), NEW J \in SUBSET (1..N), i \in J
      PROVE  \E j \in J : Rejects(ps[j], Cardinality(J))
  <2> DEFINE ranks == {rank(k) : k \in J}
  <2>1. ranks \in SUBSET Nat /\ ranks # {}
    BY <1>4, <1>6
  <2>2. PICK least \in ranks : \A x \in ranks : least <= x
    <3> HIDE DEF ranks
    <3> QED BY <2>1, LeastNumber
  <2>3. PICK j \in J : rank(j) = least
    BY <2>2
  <2>4. \A k \in J : rank(j) <= rank(k)
    BY <2>2, <2>3
  <2>5. j \in 1..N /\ rank(j) <= rank(i)
    BY <1>6, <2>4
  <2>6. Rejects(ps[j], N + 1 - rank(j))
    BY <1>3, <1>6, <2>5
  <2>7. J \in SUBSET ((1..N) \ Before(ps, j))
    <3>1. ASSUME NEW k \in J PROVE k \notin Before(ps, j)
      <4>1. k \in 1..N /\ rank(j) <= rank(k) /\ rank(j) \in Nat /\ rank(k) \in Nat
        BY <1>4, <2>4, <2>5
      <4>2. ~(rank(k) < rank(j))
        BY <4>1
      <4> QED BY <1>2, <2>5, <4>1, <4>2
    <3> QED BY <3>1
  <2>8. /\ IsFiniteSet(J) /\ Cardinality(J) \in Nat /\ Cardinality(J) # 0
        /\ Cardinality(J) <= N + 1 - rank(j)
    <3> DEFINE R == (1..N) \ Before(ps, j)
    <3>1. IsFiniteSet(R) /\ Cardinality(R) = N + 1 - rank(j)
      BY <1>5, <2>5
    <3> HIDE DEF R
    <3>2. IsFiniteSet(J) /\ Cardinality(J) <= Cardinality(R)
      BY <2>7, <3>1, FS_Subset DEF R
    <3>3. Cardinality(J) \in Nat /\ Cardinality(J) # 0
      BY <1>6, <3>2, FS_CardinalityType, FS_EmptySet
    <3> QED BY <3>1, <3>2, <3>3
  <2>9. Rejects(ps[j], Cardinality(J))
    <3> DEFINE a == N + 1 - rank(j)  b == Cardinality(J)
    <3>1. a \in Nat \ {0} /\ b \in Nat \ {0} /\ b <= a /\ Rejects(ps[j], a) /\ ps[j] \in Fractions
      BY <1>4, <2>5, <2>6, <2>8
    <3> HIDE DEF a, b
    <3>2. Rejects(ps[j], b)
      BY <3>1, RejectsMonotone
    <3> QED BY <3>2 DEF b
  <2> QED BY <2>9
<1>7. ASSUME Closed PROVE i \in Holm(ps)
  <2> SUFFICES ASSUME NEW j \in 1..N, rank(j) <= rank(i) PROVE Rejects(ps[j], N + 1 - rank(j))
    BY <1>3
  <2> DEFINE J == (1..N) \ Before(ps, j)
  <2>1. i \in J
    <3>1. rank(i) \in Nat /\ rank(j) \in Nat
      BY <1>4
    <3>2. ~(rank(i) < rank(j))
      BY <3>1
    <3> QED BY <1>2, <3>2
  <2>2. PICK k \in J : Rejects(ps[k], Cardinality(J))
    BY <1>7, <2>1
  <2>3. ~Below(ps[k], ps[j])
    BY RankIsAnOrder
  <2>4. Cardinality(J) = N + 1 - rank(j) /\ N + 1 - rank(j) \in Nat \ {0}
    BY <1>4, <1>5
  <2>5. ps[k] \in Fractions /\ ps[j] \in Fractions
    OBVIOUS
  <2> DEFINE m == N + 1 - rank(j)
  <2>6. Rejects(ps[k], m) /\ m \in Nat \ {0}
    BY <2>2, <2>4
  <2> HIDE DEF J, m
  <2>7. Rejects(ps[j], m)
    BY <2>3, <2>5, <2>6, RejectsMonotone
  <2> QED BY <2>7 DEF m
<1> QED BY <1>6, <1>7

-----------------------------------------------------------------------------
(* The inductive invariant *)

\* What the gate has signed is what it decides.
SignedByTheGate(s) ==
    \E i \in Ids, r \in Revisions : s = Signed(SnapshotOf(i, r), "gate")

\* A measurement under way has classified the candidates before the next one,
\* and the snapshot of the next one is signed when the oracle is about to judge it.
RunningIsSound ==
    running # None =>
        /\ answer = None
        /\ running \in [revision : Revisions, at : {"load", "oracle"}, next : Nat,
                        classes : Seq(Classes)]
        /\ running.next = Len(running.classes) + 1
        /\ Len(running.classes) <= Len(benchmark.candidates)
        /\ \A i \in 1..Len(running.classes) : running.classes[i] = ClassOf(running.revision, i)
        /\ running.at = "oracle" =>
              /\ running.next \in Ids /\ Candidate(running.next).loads
              /\ Signed(SnapshotOf(running.next, running.revision), "gate") \in snapshots

\* What is cached is the measurement of the benchmark and its counts.
CacheIsSound ==
    /\ DOMAIN cache = Revisions
    /\ \A r \in Revisions : cache[r] # None =>
          /\ cache[r] = [classes |-> cache[r].classes, counts |-> Aggregate(cache[r].classes)]
          /\ DOMAIN cache[r].classes = Ids
          /\ \A i \in Ids : cache[r].classes[i] = ClassOf(r, i)

ResultsAreSound ==
    \A result \in results :
        \E s \in snapshots : /\ SignedByTheGate(s)
                             /\ result = ResultFor(s, s.payload.context)

Inv ==
    /\ benchmark \in [challenge : Challenges, candidates : Seq(Candidates)]
    /\ \A s \in snapshots : SignedByTheGate(s)
    /\ RunningIsSound
    /\ CacheIsSound
    /\ ResultsAreSound
    /\ ListedCanBeMinimized

LEMMA InitInv == Init => Inv
<1> SUFFICES ASSUME Init PROVE Inv
  OBVIOUS
<1>1. benchmark \in [challenge : Challenges, candidates : Seq(Candidates)]
  BY BenchmarkAssumption DEF Init
<1> QED
  BY <1>1 DEF Init, Inv, RunningIsSound, CacheIsSound, ResultsAreSound, ListedCanBeMinimized

\* What the oracle accepts under the gate's key was signed by the gate, whatever
\* it is handed.
LEMMA AcceptedWasSigned ==
    ASSUME NEW i, NEW r, NEW context, NEW s,
           Signed(SnapshotOf(i, r), "gate") \in snapshots,
           s \in snapshots \union AlteredCopies(Signed(SnapshotOf(i, r), "gate")) \union Foreign(r),
           Accepts(s, context)
    PROVE  s \in snapshots /\ s.payload.context = context
<1> DEFINE own == Signed(SnapshotOf(i, r), "gate")
<1>1. s.payload.context = context /\ s.signed = s.payload /\ s.key = "gate"
      /\ s.payload.sequence = 1 /\ ~s.payload.oracle_present
  BY DEF Accepts
<1>2. s \notin Foreign(r)
  <2>1. \A x \in Foreign(r) : x.key = "other"
    BY DEF Foreign, Signed
  <2> QED BY <1>1, <2>1
<1>3. s \notin AlteredCopies(own)
  <2> SUFFICES ASSUME NEW p \in {[own.payload EXCEPT !.gate = OtherDecision(own.payload.gate)],
                                 [own.payload EXCEPT !.sequence = 2],
                                 [own.payload EXCEPT !.oracle_present = TRUE]},
                      s = [payload |-> p, signed |-> own.signed, key |-> own.key]
               PROVE  FALSE
    BY DEF AlteredCopies
  <2>1. own.payload = SnapshotOf(i, r) /\ own.signed = SnapshotOf(i, r) /\ s.payload = p
        /\ s.signed = own.signed
    BY DEF Signed
  <2>2. p = SnapshotOf(i, r)
    BY <1>1, <2>1
  <2>3. CASE p = [own.payload EXCEPT !.gate = OtherDecision(own.payload.gate)]
    <3>1. p.gate = OtherDecision(SnapshotOf(i, r).gate)
      BY <2>1, <2>3 DEF SnapshotOf
    <3> QED BY <2>2, <3>1 DEF OtherDecision
  <2>4. CASE p = [own.payload EXCEPT !.sequence = 2]
    BY <1>1, <2>1, <2>4 DEF SnapshotOf
  <2>5. CASE p = [own.payload EXCEPT !.oracle_present = TRUE]
    BY <1>1, <2>1, <2>5 DEF SnapshotOf
  <2> QED BY <2>3, <2>4, <2>5
<1> QED BY <1>1, <1>2, <1>3

LEMMA NextInv == Inv /\ [Next]_vars => Inv'
<1> SUFFICES ASSUME Inv, [Next]_vars PROVE Inv'
  OBVIOUS
<1>a. benchmark' = benchmark
  BY DEF Next, vars, StartRun, Inspect, FindCounterexamples, LoadFails, Gate, Oracle,
         OracleIsHanded, SignReceipt, MinimizeCounterexample, CompareGateRevisions, Reply
<1>b. Ids' = Ids /\ challenge' = challenge
  BY <1>a DEF Ids, challenge
<1>c. \A i : Candidate(i)' = Candidate(i)
  BY <1>a DEF Candidate
<1>d. \A i, r : ClassOf(r, i)' = ClassOf(r, i) /\ SnapshotOf(i, r)' = SnapshotOf(i, r)
  BY <1>b, <1>c DEF ClassOf, SnapshotOf
<1>e. \A s, context : ResultFor(s, context)' = ResultFor(s, context)
  BY <1>b, <1>c DEF ResultFor
<1>f. \A s : SignedByTheGate(s)' <=> SignedByTheGate(s)
  BY <1>b, <1>d DEF SignedByTheGate
<1>g. Ids = 1..Len(benchmark.candidates) /\ Len(benchmark.candidates) \in Nat
  BY DEF Inv, Ids
\* The next candidate, if any, is classified and the next one after it awaits.
<1>i. ASSUME running # None, running.next \in Ids, running' =
                [running EXCEPT !.at = "load", !.next = @ + 1,
                   !.classes = Append(@, ClassOf(running.revision, running.next))],
             answer' = answer
      PROVE  RunningIsSound'
  <2> DEFINE m == running.next
             class == ClassOf(running.revision, m)
  <2>1. /\ answer = None
        /\ running \in [revision : Revisions, at : {"load", "oracle"}, next : Nat,
                        classes : Seq(Classes)]
        /\ m = Len(running.classes) + 1
        /\ \A i \in 1..Len(running.classes) : running.classes[i] = ClassOf(running.revision, i)
    BY <1>i DEF Inv, RunningIsSound
  <2>2. class \in Classes
    BY <1>i, ClassOfSplits DEF Inv
  <2>3. /\ running'.revision = running.revision /\ running'.at = "load"
        /\ running'.next = m + 1 /\ running'.classes = Append(running.classes, class)
        /\ running' \in [revision : Revisions, at : {"load", "oracle"}, next : Nat,
                         classes : Seq(Classes)]
    <3> HIDE DEF class
    <3>1. running' = [running EXCEPT !.at = "load", !.next = @ + 1,
                        !.classes = Append(@, class)]
      BY <1>i DEF class
    <3>2. running.classes \in Seq(Classes) /\ m \in Nat
      BY <2>1
    <3>3. Append(running.classes, class) \in Seq(Classes) /\ m + 1 \in Nat
      BY <2>2, <3>2
    <3> QED BY <2>1, <3>1, <3>3
  <2>4. Len(running'.classes) = m /\ m <= Len(benchmark.candidates)
    BY <1>i, <1>g, <2>1, <2>2, <2>3
  <2>5. \A j \in 1..m : running'.classes[j] = ClassOf(running.revision, j)
    <3> HIDE DEF class
    <3> SUFFICES ASSUME NEW j \in 1..m PROVE running'.classes[j] = ClassOf(running.revision, j)
      OBVIOUS
    <3>1. CASE j = m
      BY <2>1, <2>2, <2>3, <3>1 DEF class
    <3>2. CASE j < m
      BY <2>1, <2>2, <2>3, <3>2
    <3> QED BY <2>1, <3>1, <3>2
  <2> QED BY <1>a, <1>d, <1>i, <2>1, <2>3, <2>4, <2>5 DEF RunningIsSound
\* What is left to show of an action that leaves the measurements alone.
<1>h. ASSUME UNCHANGED <<running, snapshots, results, cache>>,
             running # None => answer' = None, ListedCanBeMinimized'
      PROVE  Inv'
  <2>1. RunningIsSound'
    BY <1>a, <1>b, <1>c, <1>d, <1>h DEF Inv, RunningIsSound
  <2>2. CacheIsSound'
    BY <1>b, <1>d, <1>h DEF Inv, CacheIsSound
  <2>3. ResultsAreSound'
    BY <1>e, <1>f, <1>h DEF Inv, ResultsAreSound
  <2> QED BY <1>a, <1>f, <1>h, <2>1, <2>2, <2>3 DEF Inv
<1>1. ASSUME NEW r \in Revisions, StartRun(r) PROVE Inv'
  <2>1. running' = [revision |-> r, at |-> "load", next |-> 1, classes |-> <<>>]
        /\ answer' = None /\ UNCHANGED <<benchmark, snapshots, results, cache>>
    BY <1>1 DEF StartRun
  <2>2. RunningIsSound'
    BY <1>a, <1>g, <2>1 DEF RunningIsSound
  <2>3. CacheIsSound'
    BY <1>b, <1>d, <2>1 DEF Inv, CacheIsSound
  <2>4. ResultsAreSound'
    BY <1>e, <1>f, <2>1 DEF Inv, ResultsAreSound
  <2>5. ListedCanBeMinimized'
    BY <2>1 DEF ListedCanBeMinimized
  <2> QED BY <1>a, <1>f, <2>1, <2>2, <2>3, <2>4, <2>5 DEF Inv
<1>2. ASSUME NEW r \in Revisions, Inspect(r) \/ FindCounterexamples(r) PROVE Inv'
  <2>1. UNCHANGED <<running, snapshots, results, cache>> /\ running = None
        /\ answer'.tool \in {"inspect", "find"}
    BY <1>2 DEF Inspect, FindCounterexamples, Reply, Idle
  <2>2. ListedCanBeMinimized'
    BY <2>1 DEF ListedCanBeMinimized
  <2> QED BY <1>h, <2>1, <2>2
<1>3. CASE CompareGateRevisions
  <2>1. UNCHANGED <<running, snapshots, results, cache>> /\ running = None
        /\ answer'.tool = "compare"
    BY <1>3 DEF CompareGateRevisions, Reply, Idle
  <2>2. ListedCanBeMinimized'
    BY <2>1 DEF ListedCanBeMinimized
  <2> QED BY <1>h, <2>1, <2>2
<1>4. ASSUME NEW i \in Ids, MinimizeCounterexample(i) PROVE Inv'
  <2>1. UNCHANGED <<running, snapshots, results, cache>> /\ running = None
    BY <1>4 DEF MinimizeCounterexample, Reply, Idle
  <2>2. \A r : Escapes(r)' = Escapes(r)
    BY <2>1 DEF Escapes
  <2>3. CASE \E r \in Revisions :
                /\ i \in Escapes(r) /\ \A q \in 1..(r - 1) : i \notin Escapes(q)
                /\ Reply([tool |-> "minimize", candidate |-> i, revision |-> r])
    <3>1. PICK r \in Revisions :
                /\ i \in Escapes(r) /\ \A q \in 1..(r - 1) : i \notin Escapes(q)
                /\ Reply([tool |-> "minimize", candidate |-> i, revision |-> r])
      BY <2>3
    <3>2. answer' = [tool |-> "minimize", candidate |-> i, revision |-> r]
      BY <3>1 DEF Reply
    <3>3. r # None
      BY NoneAssumption
    <3>4. \A q \in Revisions : i \in Escapes(q) => r <= q
      BY <3>1 DEF Revisions
    <3>5. ListedCanBeMinimized'
      BY <2>1, <2>2, <3>2, <3>3, <3>4 DEF ListedCanBeMinimized
    <3> QED BY <1>h, <2>1, <3>5
  <2>4. CASE /\ \A q \in Revisions : cache[q] # None /\ i \notin Escapes(q)
             /\ Reply([tool |-> "minimize", candidate |-> i, revision |-> None])
    <3>1. answer' = [tool |-> "minimize", candidate |-> i, revision |-> None]
      BY <2>4 DEF Reply
    <3>2. ListedCanBeMinimized'
      BY <2>1, <2>2, <2>4, <3>1 DEF ListedCanBeMinimized
    <3> QED BY <1>h, <2>1, <3>2
  <2> QED BY <1>4, <2>3, <2>4 DEF MinimizeCounterexample
<1>5. CASE LoadFails
  <2> DEFINE m == running.next
  <2>1. /\ running # None /\ running.at = "load" /\ m \in Ids /\ ~Candidate(m).loads
        /\ running' = [running EXCEPT !.at = "load", !.next = @ + 1,
                          !.classes = Append(@, Classify(FALSE, None, None))]
        /\ UNCHANGED <<snapshots, results, cache, answer>>
    BY <1>5 DEF LoadFails, AtCandidate, Observed
  <2>2. Classify(FALSE, None, None) = ClassOf(running.revision, m)
    BY <2>1 DEF Classify, ClassOf
  <2>3. RunningIsSound'
    BY <1>i, <2>1, <2>2
  <2>4. CacheIsSound'
    BY <1>b, <1>d, <2>1 DEF Inv, CacheIsSound
  <2>5. ResultsAreSound'
    BY <1>e, <1>f, <2>1 DEF Inv, ResultsAreSound
  <2>6. ListedCanBeMinimized'
    BY <2>1 DEF Inv, ListedCanBeMinimized, Escapes
  <2> QED BY <1>a, <1>f, <2>1, <2>3, <2>4, <2>5, <2>6 DEF Inv
<1>6. CASE Gate
  <2> DEFINE m == running.next
             own == Signed(SnapshotOf(m, running.revision), "gate")
  <2>1. /\ running # None /\ m \in Ids /\ Candidate(m).loads
        /\ snapshots' = snapshots \union {own}
        /\ running' = [running EXCEPT !.at = "oracle"]
        /\ UNCHANGED <<results, cache, answer>>
    BY <1>6 DEF Gate, AtCandidate
  <2>2. /\ answer = None
        /\ running \in [revision : Revisions, at : {"load", "oracle"}, next : Nat,
                        classes : Seq(Classes)]
    BY <2>1 DEF Inv, RunningIsSound
  <2>3. /\ running'.revision = running.revision /\ running'.at = "oracle"
        /\ running'.next = m /\ running'.classes = running.classes
        /\ running' \in [revision : Revisions, at : {"load", "oracle"}, next : Nat,
                         classes : Seq(Classes)]
    BY <2>1, <2>2
  <2>4. RunningIsSound'
    <3>1. own \in snapshots'
      BY <2>1
    <3> QED BY <1>a, <1>b, <1>c, <1>d, <2>1, <2>2, <2>3, <3>1 DEF Inv, RunningIsSound
  <2>5. \A s \in snapshots' : SignedByTheGate(s)
    BY <2>1, <2>2 DEF Inv, SignedByTheGate
  <2>6. CacheIsSound'
    BY <1>b, <1>d, <2>1 DEF Inv, CacheIsSound
  <2>7. ResultsAreSound'
    BY <1>e, <1>f, <2>1 DEF Inv, ResultsAreSound
  <2>8. ListedCanBeMinimized'
    BY <2>1 DEF Inv, ListedCanBeMinimized, Escapes
  <2> QED BY <1>a, <1>f, <2>4, <2>5, <2>6, <2>7, <2>8 DEF Inv
<1>7. CASE Oracle
  <2> DEFINE m == running.next
             context == ContextOf(m, running.revision)
             own == Signed(SnapshotOf(m, running.revision), "gate")
             class == Classify(TRUE, own.payload.gate, ResultFor(own, context).verdict)
  <2>1. /\ running # None /\ running.at = "oracle" /\ m \in Ids
        /\ results' = results \union {ResultFor(own, context)}
        /\ running' = [running EXCEPT !.at = "load", !.next = @ + 1,
                          !.classes = Append(@, class)]
        /\ UNCHANGED <<snapshots, cache, answer>>
    BY <1>7 DEF Oracle, AtCandidate, Observed
  <2>2. Candidate(m).loads /\ own \in snapshots
    BY <2>1 DEF Inv, RunningIsSound
  <2>3. class = ClassOf(running.revision, m)
    BY <2>2 DEF ClassOf, Signed, SnapshotOf, ResultFor, ContextOf, Classify
  <2>4. RunningIsSound'
    BY <1>i, <2>1, <2>3
  <2>5. CacheIsSound'
    BY <1>b, <1>d, <2>1 DEF Inv, CacheIsSound
  <2>6. ResultsAreSound'
    <3>1. own.payload.context = context
      BY DEF Signed, SnapshotOf
    <3>2. SignedByTheGate(own)
      BY <2>2 DEF Inv
    <3> HIDE DEF own, context
    <3> QED BY <1>e, <1>f, <2>1, <2>2, <3>1, <3>2 DEF Inv, ResultsAreSound
  <2>7. ListedCanBeMinimized'
    BY <2>1 DEF Inv, ListedCanBeMinimized, Escapes
  <2> QED BY <1>a, <1>f, <2>1, <2>4, <2>5, <2>6, <2>7 DEF Inv
<1>8. CASE OracleIsHanded
  <2> DEFINE m == running.next
             own == Signed(SnapshotOf(m, running.revision), "gate")
  <2>1. PICK s \in snapshots \union AlteredCopies(own) \union Foreign(running.revision),
             i \in Ids :
          /\ Accepts(s, ContextOf(i, running.revision))
          /\ results' = results \union {ResultFor(s, ContextOf(i, running.revision))}
    BY <1>8 DEF OracleIsHanded
  <2>2. own \in snapshots
    BY <1>8 DEF OracleIsHanded, AtCandidate, Inv, RunningIsSound
  <2>3. s \in snapshots /\ s.payload.context = ContextOf(i, running.revision)
    BY <2>1, <2>2, AcceptedWasSigned
  <2>4. UNCHANGED <<running, snapshots, cache, answer>>
    BY <1>8 DEF OracleIsHanded
  <2>5. ResultsAreSound'
    BY <1>e, <1>f, <2>1, <2>3, <2>4 DEF Inv, ResultsAreSound
  <2>6. RunningIsSound'
    BY <1>a, <1>b, <1>c, <1>d, <2>4 DEF Inv, RunningIsSound
  <2>7. CacheIsSound'
    BY <1>b, <1>d, <2>4 DEF Inv, CacheIsSound
  <2>8. ListedCanBeMinimized'
    BY <2>4 DEF Inv, ListedCanBeMinimized, Escapes
  <2> QED BY <1>a, <1>f, <2>4, <2>5, <2>6, <2>7, <2>8 DEF Inv
<1>9. CASE SignReceipt
  <2>1. /\ running # None /\ running.next > Len(benchmark.candidates)
        /\ cache' = [cache EXCEPT ![running.revision] =
                       [classes |-> running.classes, counts |-> Aggregate(running.classes)]]
        /\ running' = None /\ UNCHANGED <<snapshots, results, answer>>
    BY <1>9 DEF SignReceipt
  <2>2. /\ answer = None /\ running.revision \in Revisions /\ running.classes \in Seq(Classes)
        /\ Len(running.classes) = Len(benchmark.candidates)
        /\ \A i \in 1..Len(running.classes) : running.classes[i] = ClassOf(running.revision, i)
    BY <1>g, <2>1 DEF Inv, RunningIsSound
  <2>3. CacheIsSound'
    <3>1. DOMAIN cache' = Revisions
      BY <2>1 DEF Inv, CacheIsSound
    <3>2. ASSUME NEW r \in Revisions, cache'[r] # None
          PROVE  /\ cache'[r] = [classes |-> cache'[r].classes,
                                 counts |-> Aggregate(cache'[r].classes)]
                 /\ DOMAIN cache'[r].classes = Ids
                 /\ \A i \in Ids : cache'[r].classes[i] = ClassOf(r, i)
      <4>1. CASE r = running.revision
        <5>1. /\ cache'[r].classes = running.classes
              /\ cache'[r] = [classes |-> running.classes, counts |-> Aggregate(running.classes)]
          BY <2>1, <4>1 DEF Inv, CacheIsSound
        <5> QED BY <1>g, <2>2, <4>1, <5>1
      <4>2. CASE r # running.revision
        BY <2>1, <3>2, <4>2 DEF Inv, CacheIsSound
      <4> QED BY <4>1, <4>2
    <3> QED BY <1>b, <1>d, <3>1, <3>2 DEF CacheIsSound
  <2>4. RunningIsSound' /\ ListedCanBeMinimized'
    BY <2>1, <2>2 DEF RunningIsSound, ListedCanBeMinimized
  <2>5. ResultsAreSound'
    BY <1>e, <1>f, <2>1 DEF Inv, ResultsAreSound
  <2> QED BY <1>a, <1>f, <2>1, <2>3, <2>4, <2>5 DEF Inv
<1>10. CASE UNCHANGED vars
  <2>1. ListedCanBeMinimized'
    BY <1>10 DEF Inv, vars, ListedCanBeMinimized, Escapes
  <2> QED BY <1>10, <1>h, <2>1 DEF Inv, vars, RunningIsSound
<1> QED
  BY <1>1, <1>2, <1>3, <1>4, <1>5, <1>6, <1>7, <1>8, <1>9, <1>10 DEF Next

LEMMA AlwaysInv == Spec => []Inv
<1> QED BY InitInv, NextInv, PTL DEF Spec

\* Whatever the oracle is handed, it judges a candidate only behind the snapshot
\* that the gate signed of it, and only once.
THEOREM OracleFollowsGateTheorem == Spec => []OracleFollowsGate
<1>1. Inv => OracleFollowsGate
  <2> SUFFICES ASSUME Inv, NEW result \in results
               PROVE  /\ result.snapshot.context = result.context
                      /\ Signed(result.snapshot, "gate") \in snapshots
                      /\ \A other \in results :
                            other.context = result.context => other = result
    BY DEF OracleFollowsGate
  <2>1. \A x \in results : \E i \in Ids, r \in Revisions :
           /\ x = ResultFor(Signed(SnapshotOf(i, r), "gate"), ContextOf(i, r))
           /\ Signed(SnapshotOf(i, r), "gate") \in snapshots
    <3> SUFFICES ASSUME NEW x \in results
                 PROVE  \E i \in Ids, r \in Revisions :
                           /\ x = ResultFor(Signed(SnapshotOf(i, r), "gate"), ContextOf(i, r))
                           /\ Signed(SnapshotOf(i, r), "gate") \in snapshots
      OBVIOUS
    <3>1. PICK s \in snapshots : SignedByTheGate(s) /\ x = ResultFor(s, s.payload.context)
      BY DEF Inv, ResultsAreSound
    <3>2. PICK i \in Ids, r \in Revisions : s = Signed(SnapshotOf(i, r), "gate")
      BY <3>1 DEF SignedByTheGate
    <3>3. s.payload.context = ContextOf(i, r)
      BY <3>2 DEF Signed, SnapshotOf
    <3> QED BY <3>1, <3>2, <3>3
  <2>2. PICK i \in Ids, r \in Revisions :
           /\ result = ResultFor(Signed(SnapshotOf(i, r), "gate"), ContextOf(i, r))
           /\ Signed(SnapshotOf(i, r), "gate") \in snapshots
    BY <2>1
  <2>3. result.snapshot = SnapshotOf(i, r) /\ result.context = ContextOf(i, r)
    BY <2>2 DEF ResultFor, Signed
  <2>4. ASSUME NEW other \in results, other.context = result.context PROVE other = result
    <3>1. PICK j \in Ids, q \in Revisions :
             other = ResultFor(Signed(SnapshotOf(j, q), "gate"), ContextOf(j, q))
      BY <2>1
    <3>2. other.context = ContextOf(j, q)
      BY <3>1 DEF ResultFor
    <3>3. j = i /\ q = r
      BY <2>3, <2>4, <3>2 DEF ContextOf
    <3> QED BY <2>2, <3>1, <3>3
  <2>5. Signed(result.snapshot, "gate") \in snapshots
    BY <2>2, <2>3
  <2>6. result.snapshot.context = result.context
    BY <2>3 DEF SnapshotOf
  <2> QED BY <2>4, <2>5, <2>6
<1> QED BY <1>1, AlwaysInv, PTL

\* Under every benchmark a stricter revision lets no more escape, and overblocks
\* no less, than a laxer one.
THEOREM FrontierTheorem == Spec => []FrontierIsMonotone
<1>1. Inv => FrontierIsMonotone
  <2> SUFFICES ASSUME Inv, NEW q \in Revisions, NEW r \in Revisions,
                      q < r, cache[q] # None, cache[r] # None
               PROVE  /\ Escapes(r) \subseteq Escapes(q)
                      /\ Of("OVERBLOCK", cache[q].classes)
                           \subseteq Of("OVERBLOCK", cache[r].classes)
    BY DEF FrontierIsMonotone
  <2>1. q <= r
    BY DEF Revisions
  <2>2. /\ DOMAIN cache[q].classes = Ids /\ DOMAIN cache[r].classes = Ids
        /\ \A i \in Ids : /\ cache[q].classes[i] = ClassOf(q, i)
                         /\ cache[r].classes[i] = ClassOf(r, i)
    BY DEF Inv, CacheIsSound
  <2>3. ASSUME NEW i \in Ids
        PROVE  /\ ClassOf(r, i) = "ESCAPE" => ClassOf(q, i) = "ESCAPE"
               /\ ClassOf(q, i) = "OVERBLOCK" => ClassOf(r, i) = "OVERBLOCK"
    <3>1. GateDecision(challenge, r, Candidate(i)) = "GO"
             => GateDecision(challenge, q, Candidate(i)) = "GO"
      BY <2>1, GatesAreNested
    <3>2. \A p : GateDecision(challenge, p, Candidate(i)) \in {"GO", "NO_GO"}
      BY DEF GateDecision
    <3> QED BY <3>1, <3>2, ClassOfSplits DEF Inv
  <2> QED BY <2>2, <2>3 DEF Escapes, Of
<1> QED BY <1>1, AlwaysInv, PTL

\* Every counterexample that is listed is found again when it is to be minimized.
THEOREM MinimizableTheorem == Spec => []ListedCanBeMinimized
<1>1. Inv => ListedCanBeMinimized
  BY DEF Inv
<1> QED BY <1>1, AlwaysInv, PTL

\* The oracle alone divides what it judges: accepted or overblocked is what it
\* finds safe, escaped or blocked what it finds unsafe.
LEMMA ClassesPartition ==
    ASSUME NEW r, NEW i, benchmark \in [challenge : Challenges, candidates : Seq(Candidates)],
           i \in Ids
    PROVE  /\ ClassOf(r, i) \in Classes
           /\ ClassOf(r, i) = "INVALID_CANDIDATE" <=> ~Candidate(i).loads
           /\ ClassOf(r, i) \in {"CORRECT_ACCEPT", "OVERBLOCK"} <=>
                Candidate(i).loads /\ Verdict(challenge, Candidate(i).wrong) = "SAFE"
<1>1. Verdict(challenge, Candidate(i).wrong) \in {"SAFE", "UNSAFE"}
  BY DEF Verdict
<1>2. Candidate(i).loads \in BOOLEAN
  <2>1. Candidate(i) \in Candidates
    BY DEF Ids, Candidate
  <2> QED BY <2>1 DEF Candidates
<1>3. CASE ~Candidate(i).loads
  BY <1>3 DEF ClassOf, Classify, Classes
<1>4. CASE Candidate(i).loads /\ Verdict(challenge, Candidate(i).wrong) = "SAFE"
  BY <1>4 DEF ClassOf, Classify, Classes
<1>5. CASE Candidate(i).loads /\ Verdict(challenge, Candidate(i).wrong) = "UNSAFE"
  BY <1>5 DEF ClassOf, Classify, Classes
<1> QED BY <1>1, <1>2, <1>3, <1>4, <1>5

\* The counts of a list of classes are natural numbers.
LEMMA CountsTyped ==
    ASSUME NEW classes, IsFiniteSet(DOMAIN classes)
    PROVE  /\ Aggregate(classes) \in [Classes -> Nat]
           /\ \A k \in Classes : /\ IsFiniteSet(Of(k, classes))
                                 /\ Aggregate(classes)[k] = Cardinality(Of(k, classes))
<1>1. \A k : Of(k, classes) \in SUBSET (DOMAIN classes)
  BY DEF Of
<1>2. \A k : IsFiniteSet(Of(k, classes)) /\ Cardinality(Of(k, classes)) \in Nat
  BY <1>1, FS_Subset, FS_CardinalityType
<1> QED BY <1>2 DEF Aggregate

\* What a signed receipt says of a benchmark, the gate's decisions aside, is the
\* oracle's doing; nothing is counted twice or left out (runner.py:146-216,
\* receipt.py:162-165).
THEOREM ReceiptTheorem == Spec => []ReceiptCoversTheBenchmark
<1>1. Inv => ReceiptCoversTheBenchmark
  <2> SUFFICES ASSUME Inv, NEW r \in Revisions, cache[r] # None
      PROVE  LET c == cache[r].counts
                 safe == {i \in Ids : Candidate(i).loads
                                        /\ Candidate(i).wrong \intersect Vectors(challenge) = {}}
             IN  /\ c["INVALID_CANDIDATE"] = Cardinality({i \in Ids : ~Candidate(i).loads})
                 /\ c["CORRECT_ACCEPT"] + c["OVERBLOCK"] = Cardinality(safe)
                 /\ c["INVALID_CANDIDATE"] + c["CORRECT_ACCEPT"] + c["OVERBLOCK"]
                      + c["ESCAPE"] + c["CORRECT_BLOCK"] = Len(benchmark.candidates)
    BY DEF ReceiptCoversTheBenchmark
  <2> DEFINE classes == cache[r].classes
             safe == {i \in Ids : Candidate(i).loads
                                    /\ Candidate(i).wrong \intersect Vectors(challenge) = {}}
             N(k) == Cardinality(Of(k, classes))
  <2>1. /\ cache[r].counts = Aggregate(classes) /\ DOMAIN classes = Ids
        /\ \A i \in Ids : classes[i] = ClassOf(r, i)
    BY DEF Inv, CacheIsSound
  <2>2. /\ Ids = 1..Len(benchmark.candidates) /\ Len(benchmark.candidates) \in Nat
        /\ IsFiniteSet(Ids) /\ Cardinality(Ids) = Len(benchmark.candidates)
    <3>1. Ids = 1..Len(benchmark.candidates) /\ Len(benchmark.candidates) \in Nat
      BY DEF Inv, Ids
    <3> QED BY <3>1, FS_Interval
  <2>3. \A k \in Classes : IsFiniteSet(Of(k, classes)) /\ cache[r].counts[k] = N(k)
    BY <2>1, <2>2, CountsTyped
  <2>4. \A i \in Ids :
           /\ classes[i] \in Classes
           /\ classes[i] = "INVALID_CANDIDATE" <=> ~Candidate(i).loads
           /\ classes[i] \in {"CORRECT_ACCEPT", "OVERBLOCK"} <=>
                Candidate(i).loads /\ Candidate(i).wrong \intersect Vectors(challenge) = {}
    BY <2>1, ClassesPartition DEF Inv, Verdict
  <2> HIDE DEF classes
  <2>5. Of("INVALID_CANDIDATE", classes) = {i \in Ids : ~Candidate(i).loads}
    BY <2>1, <2>4 DEF Of
  <2>6. /\ Of("CORRECT_ACCEPT", classes) \union Of("OVERBLOCK", classes) = safe
        /\ Of("CORRECT_ACCEPT", classes) \intersect Of("OVERBLOCK", classes) = {}
    BY <2>1, <2>4 DEF Of
  <2>7. /\ Of("ESCAPE", classes) \intersect Of("CORRECT_BLOCK", classes) = {}
        /\ (Of("ESCAPE", classes) \union Of("CORRECT_BLOCK", classes)) \intersect safe = {}
        /\ Of("INVALID_CANDIDATE", classes) \intersect
             ((Of("ESCAPE", classes) \union Of("CORRECT_BLOCK", classes)) \union safe) = {}
    BY <2>1, <2>4 DEF Of
  <2>8. Of("INVALID_CANDIDATE", classes) \union
          ((Of("ESCAPE", classes) \union Of("CORRECT_BLOCK", classes)) \union safe) = Ids
    BY <2>1, <2>4, <2>6 DEF Of, Classes
  <2>9. /\ IsFiniteSet(safe) /\ Cardinality(safe) = N("CORRECT_ACCEPT") + N("OVERBLOCK")
        /\ N("CORRECT_ACCEPT") \in Nat /\ N("OVERBLOCK") \in Nat
    <3>1. IsFiniteSet(Of("CORRECT_ACCEPT", classes)) /\ IsFiniteSet(Of("OVERBLOCK", classes))
      BY <2>3 DEF Classes
    <3> HIDE DEF safe
    <3> QED BY <2>6, <3>1, DisjointCounts
  <2> DEFINE unsafe == Of("ESCAPE", classes) \union Of("CORRECT_BLOCK", classes)
  <2>10. /\ IsFiniteSet(unsafe) /\ Cardinality(unsafe) = N("ESCAPE") + N("CORRECT_BLOCK")
         /\ N("ESCAPE") \in Nat /\ N("CORRECT_BLOCK") \in Nat
    BY <2>3, <2>7, DisjointCounts DEF Classes
  <2> HIDE DEF unsafe, safe
  <2>11. IsFiniteSet(unsafe \union safe)
         /\ Cardinality(unsafe \union safe) = Cardinality(unsafe) + Cardinality(safe)
    BY <2>7, <2>9, <2>10, DisjointCounts DEF unsafe
  <2>12. /\ Cardinality(Ids) = N("INVALID_CANDIDATE") + Cardinality(unsafe \union safe)
         /\ N("INVALID_CANDIDATE") \in Nat
    BY <2>3, <2>7, <2>8, <2>11, DisjointCounts DEF unsafe, Classes
  <2>13. \A k \in Classes : cache[r].counts[k] = N(k)
    BY <2>3
  <2>14. /\ cache[r].counts["INVALID_CANDIDATE"] = N("INVALID_CANDIDATE")
         /\ cache[r].counts["CORRECT_ACCEPT"] = N("CORRECT_ACCEPT")
         /\ cache[r].counts["OVERBLOCK"] = N("OVERBLOCK")
         /\ cache[r].counts["ESCAPE"] = N("ESCAPE")
         /\ cache[r].counts["CORRECT_BLOCK"] = N("CORRECT_BLOCK")
    BY <2>13 DEF Classes
  <2> HIDE DEF N
  <2>15. N("INVALID_CANDIDATE") + N("CORRECT_ACCEPT") + N("OVERBLOCK")
           + N("ESCAPE") + N("CORRECT_BLOCK") = Len(benchmark.candidates)
    BY <2>2, <2>9, <2>10, <2>11, <2>12
  <2>16. N("INVALID_CANDIDATE") = Cardinality({i \in Ids : ~Candidate(i).loads})
    BY <2>5 DEF N
  <2> QED
    BY <2>9, <2>14, <2>15, <2>16 DEF safe
<1> QED BY <1>1, AlwaysInv, PTL

-----------------------------------------------------------------------------
(* The answers of the service *)

\* The candidates that show a metric under the first or second revision of a pair.
Shown(k, side) == Of(Metric(k), Measure(Pair(k)[side]))

PValues == [k \in 1..6 |-> McNemar(Shown(k, 1), Shown(k, 2))]

Compared ==
    [k \in 1..6 |->
        [metric |-> Metric(k), from |-> Pair(k)[1], to |-> Pair(k)[2],
         only_from |-> Cardinality(Shown(k, 1) \ Shown(k, 2)),
         only_to |-> Cardinality(Shown(k, 2) \ Shown(k, 1)), p |-> PValues[k],
         raw |-> Significant(PValues[k]), corrected |-> k \in Holm(PValues)]]

\* A comparison in hand is that of the three measurements.
AnswerIsSound ==
    /\ answer \in Answers
    /\ answer # None /\ answer.tool = "compare" => answer.comparisons = Compared

LEMMA PairsOfRevisions ==
    ASSUME NEW k \in 1..6
    PROVE  Pair(k)[1] \in Revisions /\ Pair(k)[2] \in Revisions
<1> DEFINE j == ((k - 1) % 3) + 1
<1>1. j = 1 \/ j = 2 \/ j = 3
  OBVIOUS
<1>2. Pair(k) = <<<<1, 2>>, <<2, 3>>, <<1, 3>>>>[j]
  BY DEF Pair
<1> HIDE DEF j
<1>3. Pair(k) \in {<<1, 2>>, <<2, 3>>, <<1, 3>>}
  BY <1>1, <1>2
<1> QED BY <1>3 DEF Revisions

\* The two measurements of a pair are compared over finite sets of candidates.
LEMMA ShownIsFinite ==
    ASSUME benchmark \in [challenge : Challenges, candidates : Seq(Candidates)],
           NEW k \in 1..6, NEW side
    PROVE  IsFiniteSet(Shown(k, side))
<1>1. IsFiniteSet(Ids)
  <2>1. Ids = 1..Len(benchmark.candidates) /\ Len(benchmark.candidates) \in Nat
    BY DEF Ids
  <2> QED BY <2>1, FS_Interval
<1>2. Shown(k, side) \in SUBSET Ids
  BY DEF Shown, Of, Measure
<1> QED BY <1>1, <1>2, FS_Subset

LEMMA PValuesAreFractions ==
    ASSUME benchmark \in [challenge : Challenges, candidates : Seq(Candidates)]
    PROVE  /\ PValues \in [1..6 -> Fractions] /\ Len(PValues) = 6
           /\ \A k \in 1..6 : PValues[k] \in Nat \X Nat
<1>1. ASSUME NEW k \in 1..6
      PROVE  McNemar(Shown(k, 1), Shown(k, 2)) \in Fractions
             /\ McNemar(Shown(k, 1), Shown(k, 2)) \in Nat \X Nat
  <2> DEFINE p == McNemar(Shown(k, 1), Shown(k, 2))
  <2>1. IsFiniteSet(Shown(k, 1)) /\ IsFiniteSet(Shown(k, 2))
    BY ShownIsFinite
  <2>2. p \in Nat \X Nat /\ p[2] > 0
    BY <2>1, ExactTest
  <2> HIDE DEF p
  <2>3. p \in Nat \X (Nat \ {0})
    BY <2>2
  <2> QED BY <2>2, <2>3 DEF p, Fractions
<1>2. PValues \in [1..6 -> Fractions]
  BY <1>1 DEF PValues
<1>3. PValues \in Seq(Fractions) /\ DOMAIN PValues = 1..6
  <2>1. \A N \in Nat : [1..N -> Fractions] \subseteq Seq(Fractions)
    BY SeqDef
  <2> QED BY <1>2, <2>1
<1>4. Len(PValues) = 6
  <2>1. Len(PValues) \in Nat /\ DOMAIN PValues = 1..Len(PValues)
    BY <1>3, LenProperties
  <2> DEFINE m == Len(PValues)
  <2>2. m \in Nat /\ 1..m = 1..6
    BY <1>3, <2>1
  <2> HIDE DEF m
  <2>3. m = 6
    <3>1. 6 \in 1..m
      <4>1. 6 \in 1..6
        OBVIOUS
      <4> QED BY <2>2, <4>1, Zenon
    <3>2. m >= 6
      BY <2>2, <3>1
    <3>3. m \in 1..m
      BY <2>2, <3>2
    <3>4. m \in 1..6
      BY <2>2, <3>3, Zenon
    <3> QED BY <3>2, <3>4
  <2> QED BY <2>3 DEF m
<1> QED BY <1>1, <1>2, <1>4 DEF PValues

LEMMA ComparedIsTyped ==
    ASSUME benchmark \in [challenge : Challenges, candidates : Seq(Candidates)]
    PROVE  Compared \in Seq(Comparisons)
<1>1. ASSUME NEW k \in 1..6
      PROVE  Compared[k] \in Comparisons
  <2> DEFINE a == Cardinality(Shown(k, 1) \ Shown(k, 2))
             b == Cardinality(Shown(k, 2) \ Shown(k, 1))
             p == PValues[k]
             raw == Significant(PValues[k])
             corrected == k \in Holm(PValues)
  <2>1. Compared[k] = [metric |-> Metric(k), from |-> Pair(k)[1], to |-> Pair(k)[2],
                       only_from |-> a, only_to |-> b, p |-> p, raw |-> raw,
                       corrected |-> corrected]
    BY DEF Compared
  <2>2. IsFiniteSet(Shown(k, 1)) /\ IsFiniteSet(Shown(k, 2))
    BY ShownIsFinite
  <2>3. a \in Nat /\ b \in Nat
    BY <2>2, ExactTest
  <2>4. p \in Nat \X Nat
    BY PValuesAreFractions
  <2>5. raw \in BOOLEAN /\ corrected \in BOOLEAN
    BY DEF Significant
  <2>6. Metric(k) \in {"ESCAPE", "OVERBLOCK"}
    BY DEF Metric
  <2> HIDE DEF a, b, p, raw, corrected
  <2> QED BY <2>1, <2>3, <2>4, <2>5, <2>6, PairsOfRevisions DEF Comparisons
<1>2. Compared \in [1..6 -> Comparisons]
  <2>1. Compared = [k \in 1..6 |-> Compared[k]]
    BY DEF Compared
  <2> QED BY <1>1, <2>1
<1>3. \A N \in Nat : [1..N -> Comparisons] \subseteq Seq(Comparisons)
  BY SeqDef
<1> QED BY <1>2, <1>3

LEMMA PointsAreTyped ==
    ASSUME benchmark \in [challenge : Challenges, candidates : Seq(Candidates)]
    PROVE  \A r : Aggregate(Measure(r)) \in [Classes -> Nat]
<1> TAKE r
<1>1. DOMAIN Measure(r) = Ids
  BY DEF Measure
<1>2. IsFiniteSet(Ids)
  <2>1. Ids = 1..Len(benchmark.candidates) /\ Len(benchmark.candidates) \in Nat
    BY DEF Ids
  <2> QED BY <2>1, FS_Interval
<1> QED BY <1>1, <1>2, CountsTyped

\* What the comparison replies.
LEMMA ComparisonReply ==
    ASSUME CompareGateRevisions
    PROVE  answer' = [tool |-> "compare", points |-> [r \in Revisions |-> Aggregate(Measure(r))],
                      comparisons |-> Compared]
<1> DEFINE measured == [r \in Revisions |-> Measure(r)]
           from(k) == Of(Metric(k), measured[Pair(k)[1]])
           to(k) == Of(Metric(k), measured[Pair(k)[2]])
           p == [k \in 1..6 |-> McNemar(from(k), to(k))]
<1>1. answer' = [tool |-> "compare", points |-> [r \in Revisions |-> Aggregate(measured[r])],
                    comparisons |-> [k \in 1..6 |->
                        [metric |-> Metric(k), from |-> Pair(k)[1], to |-> Pair(k)[2],
                         only_from |-> Cardinality(from(k) \ to(k)),
                         only_to |-> Cardinality(to(k) \ from(k)), p |-> p[k],
                         raw |-> Significant(p[k]), corrected |-> k \in Holm(p)]]]
  BY DEF CompareGateRevisions, Reply
<1>2. \A k \in 1..6 : Pair(k)[1] \in Revisions /\ Pair(k)[2] \in Revisions
  BY PairsOfRevisions
<1>3. \A k \in 1..6 : from(k) = Shown(k, 1) /\ to(k) = Shown(k, 2)
  BY <1>2 DEF Shown
<1> HIDE DEF from, to
<1>4. p = PValues
  BY <1>3 DEF PValues
<1>5. [r \in Revisions |-> Aggregate(measured[r])] = [r \in Revisions |-> Aggregate(Measure(r))]
  OBVIOUS
<1> HIDE DEF p, measured
<1> QED BY <1>1, <1>3, <1>4, <1>5 DEF Compared

LEMMA AnswersAreSound == Spec => []AnswerIsSound
<1>1. Init => AnswerIsSound
  BY DEF Init, AnswerIsSound, Answers
<1>2. Inv /\ AnswerIsSound /\ [Next]_vars => AnswerIsSound'
  <2> SUFFICES ASSUME Inv, AnswerIsSound, [Next]_vars PROVE AnswerIsSound'
    OBVIOUS
  <2>a. benchmark' = benchmark
    BY DEF Next, vars, StartRun, Inspect, FindCounterexamples, LoadFails, Gate, Oracle,
           OracleIsHanded, SignReceipt, MinimizeCounterexample, CompareGateRevisions, Reply
  <2>b. Ids' = Ids /\ challenge' = challenge
    BY <2>a DEF Ids, challenge
  <2>c. \A i : Candidate(i)' = Candidate(i)
    BY <2>a DEF Candidate
  <2>d. Compared' = Compared
    <3>1. \A r : Measure(r)' = Measure(r)
      BY <2>b, <2>c DEF Measure, ClassOf
    <3>2. \A k, side : Shown(k, side)' = Shown(k, side)
      BY <3>1 DEF Shown
    <3>3. PValues' = PValues
      BY <3>2 DEF PValues
    <3> QED BY <3>2, <3>3 DEF Compared
  <2>e. Answers' = Answers
    BY <2>b DEF Answers
  <2>f. benchmark \in [challenge : Challenges, candidates : Seq(Candidates)]
    BY DEF Inv
  <2>g. IsFiniteSet(Ids)
    <3>1. Ids = 1..Len(benchmark.candidates) /\ Len(benchmark.candidates) \in Nat
      BY <2>f DEF Ids
    <3> QED BY <3>1, FS_Interval
  <2>h. ASSUME NEW r \in Revisions, cache[r] # None
        PROVE  cache[r].counts \in [Classes -> Nat] /\ Escapes(r) \in SUBSET Ids
    <3>1. cache[r] = [classes |-> cache[r].classes, counts |-> Aggregate(cache[r].classes)]
          /\ DOMAIN cache[r].classes = Ids
      BY <2>h DEF Inv, CacheIsSound
    <3>2. cache[r].counts = Aggregate(cache[r].classes)
      <4> DEFINE c == cache[r].classes
      <4>1. cache[r] = [classes |-> c, counts |-> Aggregate(c)]
        BY <3>1
      <4> HIDE DEF c
      <4>2. cache[r].counts = Aggregate(c)
        BY <4>1
      <4> QED BY <4>2 DEF c
    <3>3. Aggregate(cache[r].classes) \in [Classes -> Nat]
      BY <2>g, <3>1, CountsTyped
    <3> QED BY <3>1, <3>2, <3>3 DEF Escapes, Of
  <2>i. ASSUME answer' \in Answers, answer'.tool # "compare" PROVE AnswerIsSound'
    BY <2>e, <2>i DEF AnswerIsSound
  <2>1. ASSUME NEW r \in Revisions, StartRun(r) PROVE AnswerIsSound'
    BY <2>1, <2>e DEF StartRun, AnswerIsSound, Answers
  <2>2. ASSUME NEW r \in Revisions, Inspect(r) PROVE AnswerIsSound'
    <3>1. cache[r] # None
          /\ answer' = [tool |-> "inspect", revision |-> r, counts |-> cache[r].counts]
      BY <2>2 DEF Inspect, Reply
    <3>2. answer' \in Answers
      BY <2>h, <3>1 DEF Answers
    <3> QED BY <2>i, <3>1, <3>2
  <2>3. ASSUME NEW r \in Revisions, FindCounterexamples(r) PROVE AnswerIsSound'
    <3>1. cache[r] # None /\ answer' = [tool |-> "find", revision |-> r, ids |-> Escapes(r)]
      BY <2>3 DEF FindCounterexamples, Reply
    <3>2. answer' \in Answers
      BY <2>h, <3>1 DEF Answers
    <3> QED BY <2>i, <3>1, <3>2
  <2>4. ASSUME NEW i \in Ids, MinimizeCounterexample(i) PROVE AnswerIsSound'
    <3>1. PICK r \in Revisions \union {None} :
             answer' = [tool |-> "minimize", candidate |-> i, revision |-> r]
      BY <2>4 DEF MinimizeCounterexample, Reply
    <3>2. answer' \in Answers
      BY <3>1 DEF Answers
    <3> QED BY <2>i, <3>1, <3>2
  <2>5. CASE CompareGateRevisions
    <3> DEFINE points == [r \in Revisions |-> Aggregate(Measure(r))]
    <3>1. answer' = [tool |-> "compare", points |-> points, comparisons |-> Compared]
      BY <2>5, ComparisonReply
    <3>2. points \in [Revisions -> [Classes -> Nat]]
      BY <2>f, PointsAreTyped
    <3>3. Compared \in Seq(Comparisons)
      BY <2>f, ComparedIsTyped
    <3> HIDE DEF points
    <3>4. answer' \in Answers
      BY <3>1, <3>2, <3>3 DEF Answers
    <3>5. answer'.comparisons = Compared
      BY <3>1
    <3> QED BY <2>d, <2>e, <3>4, <3>5 DEF AnswerIsSound
  <2>6. ASSUME answer' = answer PROVE AnswerIsSound'
    BY <2>6, <2>d, <2>e DEF AnswerIsSound
  <2>7. CASE LoadFails
    BY <2>6, <2>7 DEF LoadFails
  <2>8. CASE Gate
    BY <2>6, <2>8 DEF Gate
  <2>9. CASE Oracle
    BY <2>6, <2>9 DEF Oracle
  <2>10. CASE OracleIsHanded
    BY <2>6, <2>10 DEF OracleIsHanded
  <2>11. CASE SignReceipt
    BY <2>6, <2>11 DEF SignReceipt
  <2>12. CASE UNCHANGED vars
    BY <2>6, <2>12 DEF vars
  <2> QED
    BY <2>1, <2>2, <2>3, <2>4, <2>5, <2>7, <2>8, <2>9, <2>10, <2>11, <2>12 DEF Next
<1> QED BY <1>1, <1>2, AlwaysInv, PTL DEF Spec

\* The p-value the service answers is that of the exact test, however many
\* candidates the two revisions tell apart (assessment.py:102-127).
THEOREM McNemarTheorem == Spec => []McNemarIsExact
<1>1. Inv /\ AnswerIsSound => McNemarIsExact
  <2> SUFFICES ASSUME Inv, AnswerIsSound, answer # None, answer.tool = "compare",
                      NEW k \in DOMAIN answer.comparisons
               PROVE  LET c == answer.comparisons[k]
                          d == c.only_from + c.only_to
                          lopsided == {split \in SUBSET (1..d) :
                               \/ Cardinality(split) <= c.only_from /\ Cardinality(split) <= c.only_to
                               \/ Cardinality(split) >= c.only_from /\ Cardinality(split) >= c.only_to}
                      IN  c.p[1] * 2 ^ d = Cardinality(lopsided) * c.p[2]
    BY DEF McNemarIsExact
  <2>1. k \in 1..6 /\ answer.comparisons[k] = Compared[k]
    BY DEF AnswerIsSound, Compared
  <2> DEFINE c == answer.comparisons[k]
             from == Cardinality(Shown(k, 1) \ Shown(k, 2))
             to == Cardinality(Shown(k, 2) \ Shown(k, 1))
             p == McNemar(Shown(k, 1), Shown(k, 2))
  <2>2. c.only_from = from /\ c.only_to = to /\ c.p = p
    BY <2>1 DEF Compared, PValues
  <2>3. p[1] * 2 ^ (from + to) = Cardinality(Lopsided(from, to)) * p[2]
    <3>1. IsFiniteSet(Shown(k, 1)) /\ IsFiniteSet(Shown(k, 2))
      BY <2>1, ShownIsFinite DEF Inv
    <3> QED BY <3>1, ExactTest
  <2> HIDE DEF c, from, to, p
  <2>4. c.p[1] * 2 ^ (c.only_from + c.only_to)
          = Cardinality(Lopsided(c.only_from, c.only_to)) * c.p[2]
    BY <2>2, <2>3
  <2> QED BY <2>4 DEF c, Lopsided
<1> QED BY <1>1, AlwaysInv, AnswersAreSound, PTL

\* At the level of the code the step-down rejects what closed testing rejects,
\* and nothing that was not rejected before the correction: a p-value is never
\* exactly one in twenty (assessment.py:129-161, comparison.py:89-109).
THEOREM HolmTheorem ==
    ASSUME AlphaNum = 1, AlphaDen = 20
    PROVE  Spec => []HolmIsClosedTesting
<1>1. Inv /\ AnswerIsSound => HolmIsClosedTesting
  <2> SUFFICES ASSUME Inv, AnswerIsSound, answer # None, answer.tool = "compare",
                      NEW k \in DOMAIN answer.comparisons
               PROVE  LET cs == answer.comparisons IN
                      /\ cs[k].corrected <=>
                           \A J \in SUBSET (DOMAIN cs) :
                              k \in J => \E j \in J : Rejects(cs[j].p, Cardinality(J))
                      /\ cs[k].corrected => cs[k].raw
    BY DEF HolmIsClosedTesting
  <2> DEFINE cs == answer.comparisons
  <2>1. DOMAIN cs = 1..6 /\ k \in 1..6 /\ cs = Compared
    BY DEF AnswerIsSound, Compared
  <2>2. \A j \in 1..6 : /\ cs[j].p = PValues[j] /\ cs[j].raw = Significant(PValues[j])
                         /\ cs[j].corrected = (j \in Holm(PValues))
    BY <2>1 DEF Compared
  <2>3. PValues \in [1..6 -> Fractions] /\ Len(PValues) = 6
    BY PValuesAreFractions DEF Inv
  <2>4. k \in Holm(PValues) <=>
           \A J \in SUBSET (1..6) :
              k \in J => \E j \in J : Rejects(PValues[j], Cardinality(J))
    BY <2>1, <2>3, ClosedTesting
  <2>5. ASSUME k \in Holm(PValues) PROVE Significant(PValues[k])
    <3> DEFINE p == PValues[k]
    <3>1. Rejects(p, 1)
      <4>1. {k} \in SUBSET (1..6) /\ Cardinality({k}) = 1
        BY <2>1, FS_Singleton
      <4>2. \E j \in {k} : Rejects(PValues[j], Cardinality({k}))
        BY <2>4, <2>5, <4>1
      <4> QED BY <4>1, <4>2
    <3>2. p \in Nat \X Nat /\ p[1] \in Nat /\ p[2] \in Nat
      BY <2>1, PValuesAreFractions DEF Inv
    <3>3. 20 * p[1] # p[2]
      <4> DEFINE from == Cardinality(Shown(k, 1) \ Shown(k, 2))
                 to == Cardinality(Shown(k, 2) \ Shown(k, 1))
      <4>1. IsFiniteSet(Shown(k, 1)) /\ IsFiniteSet(Shown(k, 2))
        BY <2>1, ShownIsFinite DEF Inv
      <4>2. p = McNemar(Shown(k, 1), Shown(k, 2))
        BY <2>1 DEF PValues
      <4>3. from \in Nat /\ to \in Nat /\ (p[2] = 2 ^ (from + to) \/ p = <<1, 1>>)
        BY <4>1, <4>2, ExactTest
      <4> HIDE DEF p, from, to
      <4>4. CASE p = <<1, 1>>
        BY <4>4
      <4>5. CASE p[2] = 2 ^ (from + to)
        <5>1. from + to \in Nat
          BY <4>3
        <5> QED BY <3>2, <4>5, <5>1, NoTwentieth
      <4> QED BY <4>3, <4>4, <4>5
    <3>4. p[1] * AlphaDen * 1 <= AlphaNum * p[2]
      BY <3>1 DEF Rejects
    <3>5. p[1] * AlphaDen < AlphaNum * p[2]
      <4> DEFINE a == p[1]  b == p[2]
      <4>1. a \in Nat /\ b \in Nat /\ 20 * a # b /\ a * 20 * 1 <= 1 * b
        BY <3>2, <3>3, <3>4
      <4> HIDE DEF a, b
      <4>2. a * 20 < 1 * b
        BY <4>1
      <4> QED BY <4>2 DEF a, b
    <3> QED BY <3>5 DEF Significant
  <2> HIDE DEF cs
  <2>6. cs[k].corrected <=> \A J \in SUBSET (1..6) :
              k \in J => \E j \in J : Rejects(cs[j].p, Cardinality(J))
    BY <2>1, <2>2, <2>4
  <2>7. cs[k].corrected => cs[k].raw
    BY <2>1, <2>2, <2>5
  <2> QED BY <2>1, <2>6, <2>7 DEF cs
<1> QED BY <1>1, AlwaysInv, AnswersAreSound, PTL

CacheIsTyped == cache \in [Revisions -> {None} \union Receipts]

LEMMA CacheTyped == Spec => []CacheIsTyped
<1>1. Init => CacheIsTyped
  BY DEF Init, CacheIsTyped
<1>2. Inv /\ CacheIsTyped /\ [Next]_vars => CacheIsTyped'
  <2> SUFFICES ASSUME Inv, CacheIsTyped, [Next]_vars PROVE CacheIsTyped'
    OBVIOUS
  <2>a. benchmark' = benchmark
    BY DEF Next, vars, StartRun, Inspect, FindCounterexamples, LoadFails, Gate, Oracle,
           OracleIsHanded, SignReceipt, MinimizeCounterexample, CompareGateRevisions, Reply
  <2>b. Receipts' = Receipts
    BY <2>a DEF Receipts, Measurements, Ids
  <2>1. CASE SignReceipt
    <3> DEFINE c == running.classes
    <3>1. /\ running # None /\ running.next > Len(benchmark.candidates)
          /\ cache' = [cache EXCEPT ![running.revision] =
                          [classes |-> c, counts |-> Aggregate(c)]]
      BY <2>1 DEF SignReceipt
    <3>2. Ids = 1..Len(benchmark.candidates) /\ Len(benchmark.candidates) \in Nat
      BY DEF Ids, Inv
    <3>3. c \in Seq(Classes) /\ Len(c) = Len(benchmark.candidates)
      BY <3>1, <3>2 DEF Inv, RunningIsSound
    <3>4. c \in Measurements
      BY <3>2, <3>3, LenProperties DEF Measurements
    <3>5. Aggregate(c) \in [Classes -> Nat]
      <4>1. IsFiniteSet(DOMAIN c)
        BY <3>2, <3>4, FS_Interval DEF Measurements
      <4> QED BY <4>1, CountsTyped
    <3> HIDE DEF c
    <3>6. [classes |-> c, counts |-> Aggregate(c)] \in Receipts
      BY <3>4, <3>5 DEF Receipts
    <3> QED BY <2>b, <3>1, <3>6 DEF CacheIsTyped
  <2>2. CASE ~SignReceipt
    <3>1. cache' = cache
      BY <2>2 DEF Next, vars, StartRun, Inspect, FindCounterexamples, LoadFails, Gate, Oracle,
           OracleIsHanded, MinimizeCounterexample, CompareGateRevisions, Reply
    <3> QED BY <2>b, <3>1 DEF CacheIsTyped
  <2> QED BY <2>1, <2>2
<1> QED BY <1>1, <1>2, AlwaysInv, PTL DEF Spec

\* Every variable keeps its type, the last answer of the service included.
THEOREM ArenaTypeCorrect == Spec => []TypeOK
<1>1. Inv /\ CacheIsTyped /\ AnswerIsSound => TypeOK
  <2> SUFFICES ASSUME Inv, CacheIsTyped, AnswerIsSound PROVE TypeOK
    OBVIOUS
  <2>1. benchmark \in [challenge : Challenges, candidates : Seq(Candidates)]
        /\ answer \in Answers
    BY DEF Inv, AnswerIsSound
  <2>2. running \in Runs
    BY DEF Inv, RunningIsSound, Runs
  <2>3. ASSUME NEW i \in Ids, NEW r \in Revisions
        PROVE  SnapshotOf(i, r) \in Snapshots /\ ContextOf(i, r) \in Contexts
    <3>1. ContextOf(i, r) \in Contexts
      BY DEF ContextOf, Contexts
    <3>2. GateDecision(challenge, r, Candidate(i)) \in {"GO", "NO_GO"}
      BY DEF GateDecision
    <3> QED BY <3>1, <3>2 DEF SnapshotOf, Snapshots
  <2>4. ASSUME NEW s \in snapshots PROVE s \in SignedSnapshots
    <3>1. PICK i \in Ids, r \in Revisions : s = Signed(SnapshotOf(i, r), "gate")
      BY DEF Inv, SignedByTheGate
    <3> QED BY <2>3, <3>1 DEF Signed, SignedSnapshots
  <2>5. ASSUME NEW x \in results PROVE x \in Results
    <3>1. PICK s \in snapshots : SignedByTheGate(s) /\ x = ResultFor(s, s.payload.context)
      BY DEF Inv, ResultsAreSound
    <3>2. PICK i \in Ids, r \in Revisions : s = Signed(SnapshotOf(i, r), "gate")
      BY <3>1 DEF SignedByTheGate
    <3>3. s.payload = SnapshotOf(i, r) /\ s.payload.context = ContextOf(i, r)
      BY <3>2 DEF Signed, SnapshotOf
    <3>4. Verdict(challenge, Candidate(s.payload.context.candidate).wrong) \in {"SAFE", "UNSAFE"}
      BY DEF Verdict
    <3> QED BY <2>3, <3>1, <3>3, <3>4 DEF ResultFor, Results
  <2> QED BY <2>1, <2>2, <2>4, <2>5 DEF TypeOK, CacheIsTyped
<1> QED BY <1>1, AlwaysInv, CacheTyped, AnswersAreSound, PTL

-----------------------------------------------------------------------------
(* The search for a minimal counterexample. *)

\* A pass over at most as many lines as it has chunks leaves out one at a time.
LEMMA OneLineChunks ==
    ASSUME NEW len \in Nat \ {0}, NEW k \in Nat, k >= len
    PROVE  (len + k - 1) \div k = 1
<1> DEFINE q == (len + k - 1) \div k
<1>1. q \in Int /\ k * q <= len + k - 1 /\ len + k - 1 < k * (q + 1)
  <2>1. q \in Int
    OBVIOUS
  <2>2. k * q <= len + k - 1
    BY Z3
  <2>3. len + k - 1 < k * (q + 1)
    BY Z3
  <2> QED
    BY <2>1, <2>2, <2>3
<1> HIDE DEF q
<1>2. q >= 1
  <2> SUFFICES ASSUME q <= 0 PROVE FALSE
    BY <1>1
  <2>1. k * (q + 1) <= k
    BY <1>1, Z3
  <2> QED
    BY <2>1, <1>1
<1>3. q < 2
  <2> SUFFICES ASSUME q >= 2 PROVE FALSE
    BY <1>1
  <2>1. k * q >= 2 * k
    BY <1>1, Z3
  <2> QED
    BY <2>1, <1>1
<1> QED
  BY <1>1, <1>2, <1>3 DEF q

\* A chunk has at least one line.
LEMMA ChunksAreNotEmpty ==
    ASSUME NEW len \in Nat \ {0}, NEW k \in Nat, k >= 2
    PROVE  (len + k - 1) \div k \in Nat \ {0}
<1> DEFINE q == (len + k - 1) \div k
<1>1. q \in Int /\ len + k - 1 < k * (q + 1)
  <2>1. q \in Int
    OBVIOUS
  <2>2. len + k - 1 < k * (q + 1)
    BY Z3
  <2> QED
    BY <2>1, <2>2
<1> HIDE DEF q
<1>2. q >= 1
  <2> SUFFICES ASSUME q <= 0 PROVE FALSE
    BY <1>1
  <2>1. k * (q + 1) <= k
    BY <1>1, Z3
  <2> QED
    BY <2>1, <1>1
<1> QED
  BY <1>1, <1>2 DEF q

\* The lines of a source are those of the original, in its order.
Increasing(s) == \A i, j \in DOMAIN s : i < j => s[i] < s[j]

\* Leaving out a chunk leaves a source, shorter than it was, and its order.
LEMMA LeavingOut ==
    ASSUME NEW s \in Seq(Lines), NEW k \in Nat, NEW size \in Nat \ {0},
           k < Len(s), Increasing(s)
    PROVE  /\ Without(s, k, size) \in Seq(Lines)
           /\ Len(Without(s, k, size)) < Len(s)
           /\ Increasing(Without(s, k, size))
<1> DEFINE head == SubSeq(s, 1, k)
           tail == SubSeq(s, k + size + 1, Len(s))
<1>1. head \in Seq(Lines) /\ Len(head) = k /\ \A i \in 1..k : head[i] = s[i]
  OBVIOUS
<1>2. /\ tail \in Seq(Lines)
      /\ Len(tail) = IF k + size + 1 <= Len(s) THEN Len(s) - k - size ELSE 0
      /\ \A i \in 1..Len(tail) : tail[i] = s[i + k + size]
  <2>1. CASE k + size + 1 <= Len(s)
    <3>1. tail \in Seq(Lines) /\ Len(tail) = Len(s) - k - size
      BY <2>1
    <3>2. \A i \in 1..Len(tail) : tail[i] = s[i + k + size]
      BY <2>1, <3>1
    <3> QED
      BY <2>1, <3>1, <3>2
  <2>2. CASE k + size + 1 > Len(s)
    BY <2>2
  <2> QED
    BY <2>1, <2>2
<1> HIDE DEF head, tail
<1> DEFINE rest == head \o tail
<1>3. /\ rest \in Seq(Lines) /\ Len(rest) = k + Len(tail)
      /\ Len(tail) \in Nat /\ Len(rest) \in Nat /\ Len(rest) < Len(s)
      /\ DOMAIN rest = 1..Len(rest) /\ DOMAIN s = 1..Len(s)
  <2>1. rest \in Seq(Lines) /\ Len(rest) = k + Len(tail)
    BY <1>1, <1>2, ConcatProperties
  <2>2. Len(tail) \in Nat /\ k + Len(tail) < Len(s)
    BY <1>2
  <2> HIDE DEF rest
  <2> QED
    BY <2>1, <2>2
<1>4. \A i \in 1..Len(rest) : rest[i] = IF i <= k THEN head[i] ELSE tail[i - k]
  <2>1. \A i \in 1..Len(head) + Len(tail) :
           rest[i] = IF i <= Len(head) THEN head[i] ELSE tail[i - Len(head)]
    BY <1>1, <1>2, ConcatProperties
  <2>2. Len(head) = k /\ Len(rest) = k + Len(tail)
    BY <1>1, <1>3
  <2> HIDE DEF rest
  <2> QED
    BY <2>1, <2>2, Zenon
<1> HIDE DEF rest
<1>5. ASSUME NEW i \in 1..Len(rest), i <= k
      PROVE  i \in DOMAIN s /\ rest[i] = s[i]
  <2>1. i \in 1..k /\ i \in 1..Len(s)
    BY <1>3, <1>5
  <2> QED
    BY <1>1, <1>3, <1>4, <1>5, <2>1
<1>6. ASSUME NEW i \in 1..Len(rest), i > k
      PROVE  i + size \in DOMAIN s /\ rest[i] = s[i + size]
  <2>1. i \in Nat /\ i - k \in 1..Len(tail)
    BY <1>3, <1>6
  <2>2. Len(tail) = Len(s) - k - size
    BY <1>2, <2>1
  <2>3. i + size \in 1..Len(s) /\ (i - k) + k + size = i + size
    BY <1>3, <2>1, <2>2
  <2>4. tail[i - k] = s[(i - k) + k + size]
    BY <1>2, <2>1
  <2> QED
    BY <1>3, <1>4, <1>6, <2>1, <2>3, <2>4
<1>7. Increasing(rest)
  <2> SUFFICES ASSUME NEW i \in 1..Len(rest), NEW j \in 1..Len(rest), i < j
               PROVE  rest[i] < rest[j]
    BY <1>3 DEF Increasing
  <2>1. i \in Nat /\ j \in Nat
    BY <1>3
  <2>2. CASE j <= k
    BY <1>5, <2>1, <2>2 DEF Increasing
  <2>3. CASE i <= k /\ j > k
    <3>1. i < j + size
      BY <2>1
    <3>2. rest[i] = s[i] /\ rest[j] = s[j + size] /\ i \in DOMAIN s /\ j + size \in DOMAIN s
      BY <1>5, <1>6, <2>1, <2>3
    <3> QED
      BY <3>1, <3>2 DEF Increasing
  <2>4. CASE i > k
    <3>1. i + size < j + size /\ j > k
      BY <2>1, <2>4
    <3>2. /\ rest[i] = s[i + size] /\ rest[j] = s[j + size]
          /\ i + size \in DOMAIN s /\ j + size \in DOMAIN s
      BY <1>6, <2>1, <2>4, <3>1
    <3> QED
      BY <3>1, <3>2 DEF Increasing
  <2> QED
    BY <2>1, <2>2, <2>3, <2>4
<1> QED
  BY <1>3, <1>7 DEF Without, head, tail, rest

----------------------------------------------------------------------------
(* The inductive invariant of the search.                                  *)

\* Wherever the search stands, what is left escapes.
EscapeInv ==
    /\ Increasing(lines)
    /\ at = "original" => lines = original
    /\ at \in {"while", "for", "chunk", "else", "finish", "verify", "returned"} =>
          lines \in accepted
    /\ at \notin {"verify", "returned"} => status = "NONE"

InPass == at \in {"for", "chunk", "else"}

\* A pass of single lines that is within its budget was told no of every line it
\* has come past.
PassInv ==
    /\ InPass => Len(lines) >= 2 /\ (n >= Len(lines) => chunk = 1)
    /\ at = "chunk" => start < Len(lines)
    /\ at = "else" => start >= Len(lines)
    /\ InPass /\ chunk = 1 /\ WithinBudget =>
          \A k \in Nat : k < start /\ k < Len(lines) => Without(lines, k, 1) \in rejected

Exhausted == \A k \in 0..(Len(lines) - 1) : Without(lines, k, 1) \in rejected

MinimalInv ==
    /\ at = "finish" /\ completed /\ WithinBudget /\ Len(lines) >= 2 => Exhausted
    /\ status = "MINIMAL_UNDER_CONFIGURED_GRANULARITY" /\ Len(lines) >= 2 => Exhausted

SearchInv == SearchTypeOK /\ EscapeInv /\ PassInv /\ MinimalInv

LEMMA Initially == SearchInit => SearchInv
<1> SUFFICES ASSUME SearchInit PROVE SearchInv
  OBVIOUS
<1> USE MinimizerAssumption
<1>1. PICK k \in Lines : original = [i \in 1..k |-> i]
  BY DEF SearchInit
<1>2. original \in Seq(Lines) /\ Increasing(original)
  <2>1. k \in Nat /\ 1..k \subseteq Lines
    BY DEF Lines
  <2>2. original \in [1..k -> Lines]
    BY <1>1, <2>1
  <2>3. original \in Seq(Lines)
    BY <2>1, <2>2, SeqDef
  <2>4. Increasing(original)
    BY <1>1, <2>1 DEF Increasing
  <2> QED
    BY <2>3, <2>4
<1>3. SearchTypeOK
  <2>1. Len(original) \in Nat
    BY <1>2
  <2>2. budget \in Budgets /\ budget \in Nat \ {0}
    BY DEF SearchInit, MinimizerAssumption
  <2>3. evaluations \in 0..budget
    BY <2>2 DEF SearchInit
  <2>4. /\ original \in Seq(Lines) /\ lines \in Seq(Lines)
        /\ Len(lines) <= Len(original)
    BY <1>2, <2>1 DEF SearchInit
  <2>5. /\ n \in Nat /\ n >= 2 /\ chunk \in Nat \ {0} /\ start \in Nat
    BY DEF SearchInit
  <2>6. accepted \subseteq Seq(Lines) /\ rejected \subseteq Seq(Lines)
    BY Zenon DEF SearchInit
  <2>7. expired \in BOOLEAN /\ completed \in BOOLEAN
    BY Zenon DEF SearchInit
  <2>8. at = "original" /\ status = "NONE"
    BY DEF SearchInit
  <2> QED
    BY <2>2, <2>3, <2>4, <2>5, <2>6, <2>7, <2>8 DEF SearchTypeOK
<1>4. EscapeInv /\ PassInv /\ MinimalInv
  BY <1>2 DEF SearchInit, EscapeInv, PassInv, MinimalInv, InPass
<1> QED
  BY <1>3, <1>4 DEF SearchInv

\* The chunk to leave out is there, so leaving it out gives a source.
LEMMA CandidateTyped ==
    ASSUME SearchTypeOK, EscapeInv, PassInv, at = "chunk"
    PROVE  Reduced \in Seq(Lines) /\ Len(Reduced) < Len(lines) /\ Increasing(Reduced)
<1>1. /\ lines \in Seq(Lines) /\ start \in Nat /\ chunk \in Nat \ {0}
      /\ start < Len(lines) /\ Increasing(lines)
  BY DEF SearchTypeOK, EscapeInv, PassInv
<1> QED
  BY <1>1, LeavingOut DEF Reduced

LEMMA Typed == SearchTypeOK /\ EscapeInv /\ PassInv /\ [SearchNext]_searchVars => SearchTypeOK'
<1> SUFFICES ASSUME SearchTypeOK, EscapeInv, PassInv, [SearchNext]_searchVars PROVE SearchTypeOK'
  OBVIOUS
<1> USE MinimizerAssumption
<1>1. /\ budget \in Nat \ {0} /\ evaluations \in Nat /\ Len(lines) \in Nat
      /\ Len(original) \in Nat
  BY DEF SearchTypeOK
<1>2. CASE EvaluateOriginal
  BY <1>1, <1>2 DEF EvaluateOriginal, SearchTypeOK, search, Counts, Skips, SaysYes, SaysNo, WithinBudget
<1>3. CASE BeginPass
  <2>1. CASE start' = 0 /\ chunk' = (Len(lines) + n - 1) \div n /\ Len(lines) >= 2
    <3>1. chunk' \in Nat \ {0}
      BY <1>1, <2>1, ChunksAreNotEmpty DEF SearchTypeOK
    <3> QED
      BY <1>1, <1>3, <2>1, <3>1 DEF BeginPass, SearchTypeOK, search
  <2>2. CASE UNCHANGED <<chunk, start>>
    BY <1>1, <1>3, <2>2 DEF BeginPass, SearchTypeOK, search
  <2> QED
    BY <1>3, <2>1, <2>2 DEF BeginPass, search
<1>4. CASE NextChunk
  BY <1>1, <1>4 DEF NextChunk, SearchTypeOK
<1>5. CASE TryChunk
  <2>1. Reduced \in Seq(Lines) /\ Len(Reduced) <= Len(lines) /\ Len(Reduced) \in Nat
    BY <1>5, CandidateTyped DEF TryChunk
  <2>2. /\ lines' \in Seq(Lines) /\ Len(lines') <= Len(original)
        /\ n' \in Nat /\ n' >= 2 /\ start' \in Nat
    BY <1>1, <1>5, <2>1 DEF TryChunk, SearchTypeOK
  <2>3. /\ evaluations' \in 0..budget
        /\ accepted' \subseteq Seq(Lines) /\ rejected' \subseteq Seq(Lines)
    BY <1>1, <1>5, <2>1 DEF TryChunk, SearchTypeOK, Counts, Skips, SaysYes, SaysNo, WithinBudget
  <2> QED
    BY <1>5, <2>2, <2>3 DEF TryChunk, SearchTypeOK
<1>6. CASE Refine
  <2>1. n' \in Nat /\ n' >= 2
    BY <1>1, <1>6 DEF Refine, SearchTypeOK, PassInv, InPass
  <2> QED
    BY <1>6, <2>1 DEF Refine, SearchTypeOK
<1>7. CASE Finish
  BY <1>1, <1>7 DEF Finish, SearchTypeOK, search, Statuses
<1>8. CASE VerifyEscape
  BY <1>1, <1>8 DEF VerifyEscape, SearchTypeOK, search
<1>9. CASE Expire
  BY <1>1, <1>9 DEF Expire, SearchTypeOK, search
<1>10. CASE UNCHANGED searchVars
  BY <1>10 DEF searchVars, SearchTypeOK, search
<1> QED
  BY <1>2, <1>3, <1>4, <1>5, <1>6, <1>7, <1>8, <1>9, <1>10 DEF SearchNext, Step

LEMMA Escaping == SearchTypeOK /\ EscapeInv /\ PassInv /\ [SearchNext]_searchVars => EscapeInv'
<1> SUFFICES ASSUME SearchTypeOK, EscapeInv, PassInv, [SearchNext]_searchVars PROVE EscapeInv'
  OBVIOUS
<1>1. CASE EvaluateOriginal
  BY <1>1 DEF EvaluateOriginal, EscapeInv, search, Counts, Skips, SaysYes, SaysNo
<1>2. CASE BeginPass
  BY <1>2 DEF BeginPass, EscapeInv, search
<1>3. CASE NextChunk
  BY <1>3 DEF NextChunk, EscapeInv
<1>4. CASE TryChunk
  <2>1. Increasing(lines')
    BY <1>4, CandidateTyped DEF TryChunk, EscapeInv
  <2>2. lines' \in accepted'
    BY <1>4 DEF TryChunk, EscapeInv, SaysYes, SaysNo, Skips
  <2> QED
    BY <1>4, <2>1, <2>2 DEF TryChunk, EscapeInv
<1>5. CASE Refine
  BY <1>5 DEF Refine, EscapeInv
<1>6. CASE Finish
  BY <1>6 DEF Finish, EscapeInv, search
<1>7. CASE VerifyEscape
  BY <1>7 DEF VerifyEscape, EscapeInv, search
<1>8. CASE Expire
  BY <1>8 DEF Expire, EscapeInv, search
<1>9. CASE UNCHANGED searchVars
  BY <1>9 DEF searchVars, EscapeInv, search
<1> QED
  BY <1>1, <1>2, <1>3, <1>4, <1>5, <1>6, <1>7, <1>8, <1>9 DEF SearchNext, Step

LEMMA Passing == SearchTypeOK /\ EscapeInv /\ PassInv /\ [SearchNext]_searchVars => PassInv'
<1> SUFFICES ASSUME SearchTypeOK, EscapeInv, PassInv, [SearchNext]_searchVars PROVE PassInv'
  OBVIOUS
<1> USE DEF InPass
<1>1. /\ budget \in Nat /\ evaluations \in Nat /\ Len(lines) \in Nat
      /\ start \in Nat /\ chunk \in Nat \ {0} /\ n \in Nat
  BY MinimizerAssumption DEF SearchTypeOK
<1>2. CASE EvaluateOriginal
  BY <1>2 DEF EvaluateOriginal, PassInv
<1>3. CASE BeginPass
  <2>1. CASE Len(lines) >= 2 /\ WithinBudget /\ at' = "for"
    <3>1. start' = 0 /\ chunk' = (Len(lines) + n - 1) \div n /\ UNCHANGED <<lines, n>>
      BY <1>3, <2>1 DEF BeginPass
    <3>2. n >= Len(lines) => chunk' = 1
      BY <1>1, <2>1, <3>1, OneLineChunks
    <3> QED
      BY <2>1, <3>1, <3>2 DEF PassInv
  <2>2. CASE at' = "finish"
    BY <2>2 DEF PassInv
  <2> QED
    BY <1>3, <2>1, <2>2 DEF BeginPass
<1>4. CASE NextChunk
  BY <1>1, <1>4 DEF NextChunk, PassInv, WithinBudget
<1>5. CASE TryChunk
  <2>1. CASE at' = "while"
    BY <2>1 DEF PassInv
  <2>2. CASE at' = "for" /\ WithinBudget /\ SaysNo(Reduced)
    <3>1. /\ start' = start + chunk /\ UNCHANGED <<lines, n, chunk>>
          /\ rejected' = rejected \union {Reduced}
      BY <1>5, <2>2 DEF TryChunk, SaysNo
    <3>2. ASSUME chunk = 1, NEW k \in Nat, k < start', k < Len(lines)
          PROVE  Without(lines, k, 1) \in rejected'
      <4>1. CASE k < start
        BY <1>5, <2>2, <3>1, <3>2, <4>1 DEF TryChunk, PassInv
      <4>2. CASE k = start
        BY <3>1, <3>2, <4>2 DEF Reduced
      <4> QED
        BY <1>1, <3>1, <3>2, <4>1, <4>2
    <3> QED
      BY <1>5, <2>2, <3>1, <3>2 DEF TryChunk, PassInv
  <2>3. CASE at' = "for" /\ Skips
    <3>1. ~WithinBudget' /\ UNCHANGED <<lines, n, chunk>>
      BY <1>5, <2>3 DEF TryChunk, Skips, WithinBudget
    <3> QED
      BY <1>5, <2>3, <3>1 DEF TryChunk, PassInv
  <2> QED
    BY <1>5, <2>1, <2>2, <2>3 DEF TryChunk, Counts
<1>6. CASE Refine
  BY <1>6 DEF Refine, PassInv
<1>7. CASE Finish
  BY <1>7 DEF Finish, PassInv
<1>8. CASE VerifyEscape
  BY <1>8 DEF VerifyEscape, PassInv
<1>9. CASE Expire
  BY <1>9 DEF Expire, PassInv, search, WithinBudget
<1>10. CASE UNCHANGED searchVars
  BY <1>10 DEF searchVars, PassInv, search, WithinBudget
<1> QED
  BY <1>2, <1>3, <1>4, <1>5, <1>6, <1>7, <1>8, <1>9, <1>10 DEF SearchNext, Step

LEMMA Minimizing == SearchInv /\ [SearchNext]_searchVars => MinimalInv'
<1> SUFFICES ASSUME SearchInv, [SearchNext]_searchVars PROVE MinimalInv'
  OBVIOUS
<1> USE DEF SearchInv
<1>1. budget \in Nat /\ evaluations \in Nat /\ Len(lines) \in Nat /\ start \in Nat
  BY MinimizerAssumption DEF SearchTypeOK
<1>2. ASSUME at' \notin {"finish", "verify", "returned"}, EscapeInv'
      PROVE  MinimalInv'
  BY <1>2 DEF MinimalInv, EscapeInv
<1>3. CASE EvaluateOriginal \/ NextChunk \/ TryChunk \/ BeginPass
  <2>1. CASE at' = "finish"
    <3>1. completed' = FALSE \/ Len(lines') < 2
      BY <1>3, <2>1 DEF EvaluateOriginal, NextChunk, TryChunk, BeginPass, search
    <3>2. status' = "NONE"
      BY <2>1, Escaping DEF EscapeInv
    <3> QED
      BY <1>1, <1>3, <3>1, <3>2
      DEF MinimalInv, EvaluateOriginal, NextChunk, TryChunk, BeginPass, search
  <2>2. CASE at' # "finish"
    <3>1. at' \notin {"finish", "verify", "returned"}
      BY <1>3, <2>2 DEF EvaluateOriginal, NextChunk, TryChunk, BeginPass
    <3> QED
      BY <1>2, <3>1, Escaping
  <2> QED
    BY <2>1, <2>2
<1>4. CASE Refine
  <2>1. CASE n >= Len(lines)
    <3>1. /\ UNCHANGED <<lines, rejected, status, budget, evaluations, expired>>
          /\ status = "NONE" /\ at = "else"
      BY <1>4 DEF Refine, EscapeInv
    <3>2. start >= Len(lines) /\ chunk = 1
      BY <2>1, <3>1 DEF PassInv, InPass
    <3>3. WithinBudget => Exhausted
      BY <1>1, <3>1, <3>2 DEF PassInv, InPass, Exhausted
    <3> QED
      BY <3>1, <3>3 DEF MinimalInv, WithinBudget, Exhausted
  <2>2. CASE n < Len(lines)
    <3>1. at' = "while"
      BY <1>1, <1>4, <2>2 DEF Refine, SearchTypeOK
    <3> QED
      BY <1>2, <3>1, Escaping
  <2> QED
    BY <1>1, <2>1, <2>2 DEF SearchTypeOK
<1>5. CASE Finish
  BY <1>5 DEF Finish, MinimalInv, Exhausted, search
<1>6. CASE VerifyEscape
  BY <1>6 DEF VerifyEscape, MinimalInv, Exhausted, search, WithinBudget
<1>7. CASE Expire
  BY <1>7 DEF Expire, MinimalInv, Exhausted, search, WithinBudget
<1>8. CASE UNCHANGED searchVars
  BY <1>8 DEF searchVars, MinimalInv, Exhausted, search, WithinBudget
<1> QED
  BY <1>3, <1>4, <1>5, <1>6, <1>7, <1>8 DEF SearchNext, Step

----------------------------------------------------------------------------
(* The cost of the search.                                                 *)

Bound == Len(original) * (Len(original) + 4)

\* Twice what a search may still cost at the head of the while loop: a pass of
\* single lines for every length from here down, and before them the coarser
\* passes, each of which doubles the chunks.
Ahead(len, k) == len * (len + 1) - 2 + IF k < len THEN 3 * len + 1 - 2 * k ELSE 0

\* In a pass, tried chunks have been paid for and come past.
CostInv ==
    /\ at = "original" =>
          evaluations = 0 /\ n = 2 /\ lines = original /\ Len(original) >= 1
    /\ at = "while" => 2 * evaluations + Ahead(Len(lines), n) <= Bound - 3
    /\ InPass =>
          /\ n * chunk >= Len(lines)
          /\ \E tried \in Nat :
              /\ start = tried * chunk
              /\ tried = 0 \/ (tried - 1) * chunk < Len(lines)
              /\ 2 * evaluations + Ahead(Len(lines), n) <= Bound - 3 + 2 * tried
    /\ CostIsQuadratic

LEMMA SearchStarts ==
    ASSUME NEW len \in Nat, len >= 1
    PROVE  2 + Ahead(len, 2) <= len * (len + 4) - 3
<1> DEFINE sq == len * len
<1>1. sq \in Nat /\ sq >= len
  OBVIOUS
<1>2. len * (len + 1) = sq + len /\ len * (len + 4) = sq + 4 * len
  OBVIOUS
<1> HIDE DEF sq
<1>3. CASE len = 1
  BY <1>3 DEF Ahead
<1>4. CASE len = 2
  BY <1>4 DEF Ahead
<1>5. CASE len > 2
  BY <1>1, <1>2, <1>5 DEF Ahead
<1> QED BY <1>3, <1>4, <1>5

\* The chunks of a pass are no more than the granularity, no more than half the
\* lines but for a pass of single lines.
LEMMA ChunksOfAPass ==
    ASSUME NEW len \in Nat, NEW k \in Nat, NEW size \in Nat \ {0}, NEW m \in Nat,
           k * size >= len, len >= 2, m = 0 \/ (m - 1) * size < len
    PROVE  /\ k >= len /\ size = 1 => m <= len
           /\ k < len => m <= k /\ 2 * m <= len + 1
<1>1. CASE m = 0
  BY <1>1
<1>2. CASE m # 0
  <2> DEFINE j == m - 1
  <2>1. j \in Nat /\ j * size < len /\ m = j + 1
    BY <1>2
  <2> HIDE DEF j
  <2>2. ASSUME size = 1 PROVE m <= len
    BY <2>1, <2>2
  <2>3. ASSUME k < len PROVE m <= k /\ 2 * m <= len + 1
    <3>1. size >= 2
      BY <2>3
    <3>2. j < k
      <4> SUFFICES ASSUME k <= j PROVE FALSE
        BY <2>1
      <4>1. k * size <= j * size
        BY <2>1, Scale
      <4> DEFINE a == k * size  b == j * size
      <4>2. a \in Nat /\ b \in Nat /\ a <= b /\ a >= len /\ b < len
        BY <2>1, <4>1
      <4> HIDE DEF a, b
      <4> QED BY <4>2
    <3>3. 2 * j <= size * j
      <4>1. 2 \in Nat /\ size \in Nat
        OBVIOUS
      <4> QED BY <2>1, <3>1, <4>1, Scale
    <3>4. 2 * j < len
      <4> DEFINE a == j * size
      <4>1. a \in Nat /\ a < len /\ 2 * j <= a
        BY <2>1, <3>3
      <4> HIDE DEF a
      <4> QED BY <2>1, <4>1
    <3> QED BY <2>1, <3>2, <3>4
  <2> QED BY <2>2, <2>3
<1> QED BY <1>1, <1>2

\* What a chunk less costs, and what a pass without a reduction.
LEMMA PaysForAReduction ==
    ASSUME NEW len \in Nat, NEW k \in Nat, NEW size \in Nat \ {0}, NEW m \in Nat,
           NEW less \in Nat, k >= 2, k * size >= len, len >= 2, m * size < len, less < len,
           k >= len => size = 1
    PROVE  Ahead(less, IF k > 3 THEN k - 1 ELSE 2) + 2 * (m + 1) <= Ahead(len, k)
<1> DEFINE sq == len * len
           sl == less * less
           c == IF k > 3 THEN k - 1 ELSE 2
<1>1. sq \in Nat /\ sl \in Nat /\ sl + 2 * less + 1 <= sq
  <2>1. sq \in Nat /\ sl \in Nat
    OBVIOUS
  <2>2. (less + 1) * (less + 1) <= (less + 1) * len
    BY Scale
  <2>3. (less + 1) * len <= len * len
    BY Scale
  <2>4. (less + 1) * (less + 1) = sl + 2 * less + 1
    OBVIOUS
  <2> DEFINE x == (less + 1) * len
  <2>5. x \in Nat /\ sl + 2 * less + 1 <= x /\ x <= sq
    BY <2>2, <2>3, <2>4
  <2> HIDE DEF x, sq, sl
  <2> QED BY <2>1, <2>5
<1>2. len * (len + 1) = sq + len /\ less * (less + 1) = sl + less
  OBVIOUS
<1>3. m + 1 \in Nat /\ (m + 1) - 1 = m
  OBVIOUS
<1>4. /\ k >= len => m + 1 <= len
      /\ k < len => m + 1 <= k
  BY <1>3, ChunksOfAPass
<1>5. c \in Nat /\ c >= k - 1 /\ c >= 2
  OBVIOUS
<1> HIDE DEF sq, sl, c
<1>6. CASE k >= len
  BY <1>1, <1>2, <1>4, <1>5, <1>6 DEF Ahead, c
<1>7. CASE k < len
  BY <1>1, <1>2, <1>4, <1>5, <1>7 DEF Ahead, c
<1> QED BY <1>6, <1>7

LEMMA PaysForAPass ==
    ASSUME NEW len \in Nat, NEW k \in Nat, NEW size \in Nat \ {0}, NEW m \in Nat,
           k * size >= len, len >= 2, k >= 2, m = 0 \/ (m - 1) * size < len,
           k >= len => size = 1
    PROVE  /\ k < len => Ahead(len, IF 2 * k > len THEN len ELSE 2 * k) + 2 * m <= Ahead(len, k)
           /\ 2 * m <= Ahead(len, k) + 2
<1> DEFINE sq == len * len
           c == IF 2 * k > len THEN len ELSE 2 * k
<1>1. sq \in Nat /\ sq >= 2 * len
  <2>1. 2 * len <= len * len
    BY Scale
  <2> QED BY <2>1
<1>2. len * (len + 1) = sq + len
  OBVIOUS
<1>3. /\ k >= len => m <= len
      /\ k < len => m <= k /\ 2 * m <= len + 1
  BY ChunksOfAPass
<1> HIDE DEF sq
<1>4. CASE k >= len
  BY <1>1, <1>2, <1>3, <1>4 DEF Ahead
<1>5. CASE k < len /\ 2 * k > len
  <2>1. c = len
    BY <1>5
  <2> HIDE DEF c
  <2>2. Ahead(len, c) + 2 * m <= Ahead(len, k)
    BY <1>1, <1>2, <1>3, <1>5, <2>1 DEF Ahead
  <2>3. 2 * m <= Ahead(len, k) + 2
    BY <1>1, <1>2, <1>3, <1>5 DEF Ahead
  <2> QED BY <2>2, <2>3 DEF c
<1>6. CASE k < len /\ 2 * k <= len
  <2>1. c = 2 * k
    BY <1>6
  <2> HIDE DEF c
  <2>2. Ahead(len, c) + 2 * m <= Ahead(len, k)
    BY <1>1, <1>2, <1>3, <1>6, <2>1 DEF Ahead
  <2>3. 2 * m <= Ahead(len, k) + 2
    BY <1>1, <1>2, <1>3, <1>6 DEF Ahead
  <2> QED BY <2>2, <2>3 DEF c
<1> QED BY <1>4, <1>5, <1>6

LEMMA AheadIsTyped ==
    ASSUME NEW len \in Nat, NEW k \in Nat
    PROVE  Ahead(len, k) \in Int /\ Ahead(len, k) >= -2
<1> DEFINE p == len * (len + 1)
<1>1. p \in Nat
  OBVIOUS
<1> HIDE DEF p
<1>2. k < len => 3 * len + 1 - 2 * k \in Nat
  OBVIOUS
<1> QED BY <1>1, <1>2 DEF Ahead, p

\* The granularity times the chunk covers the lines.
LEMMA ChunksCover ==
    ASSUME NEW len \in Nat \ {0}, NEW k \in Nat, k >= 2
    PROVE  k * ((len + k - 1) \div k) >= len
<1> DEFINE q == (len + k - 1) \div k
<1>1. q \in Int /\ len + k - 1 < k * (q + 1)
  <2>1. q \in Int
    OBVIOUS
  <2>2. len + k - 1 < k * (q + 1)
    BY Z3
  <2> QED
    BY <2>1, <2>2
<1> HIDE DEF q
<1>2. k * (q + 1) = k * q + k
  BY <1>1
<1> DEFINE x == k * q
<1>3. x \in Int /\ len + k - 1 < x + k
  BY <1>1, <1>2
<1> HIDE DEF x
<1>4. x >= len
  BY <1>3
<1> QED BY <1>4 DEF x, q

\* An evaluation that is made is one that was ahead.
LEMMA Paid ==
    ASSUME NEW asked \in Nat, NEW bound \in Nat, NEW tried \in Nat,
           NEW before \in Int, NEW after \in Int,
           2 * asked + before <= bound - 3 + 2 * tried,
           after + 2 * (tried + 1) <= before, after >= -2
    PROVE  2 * (asked + 1) + after <= bound - 3 /\ 2 * (asked + 1) <= bound
OBVIOUS

LEMMA CostKept == SearchInv /\ CostInv /\ [SearchNext]_searchVars => CostInv'
<1> SUFFICES ASSUME SearchInv, CostInv, [SearchNext]_searchVars PROVE CostInv'
  OBVIOUS
<1> USE DEF SearchInv
<1> DEFINE len == Len(lines)
           all == Len(original)
           B == all * (all + 4)
<1>1. /\ budget \in Nat /\ evaluations \in Nat /\ len \in Nat /\ all \in Nat
      /\ start \in Nat /\ chunk \in Nat \ {0} /\ n \in Nat /\ n >= 2
  BY MinimizerAssumption DEF SearchTypeOK
<1>2. B \in Nat /\ Bound = B /\ (CostIsQuadratic <=> 2 * evaluations <= B)
  BY <1>1 DEF Bound, CostIsQuadratic
<1>3. original' = original /\ Bound' = Bound
  BY DEF SearchNext, Step, EvaluateOriginal, BeginPass, NextChunk, TryChunk, Refine, Finish,
         VerifyEscape, Expire, searchVars, search, Bound
<1>4. Ahead(len, n) \in Int /\ Ahead(len, n) >= -2
  BY <1>1, AheadIsTyped
\* Nothing is asked, and no pass goes on.
<1>a. ASSUME evaluations' = evaluations, at' \notin {"original", "while", "for", "chunk", "else"}
      PROVE  CostInv'
  BY <1>a, <1>3 DEF CostInv, InPass, CostIsQuadratic
<1>5. CASE EvaluateOriginal
  <2>1. /\ evaluations = 0 /\ n = 2 /\ lines = original /\ all >= 1
        /\ UNCHANGED <<n, lines>> /\ evaluations' \in {0, 1}
        /\ at' \in {"while", "refused"}
    BY <1>5 DEF EvaluateOriginal, CostInv, search, Counts, Skips
  <2>2. 2 + Ahead(all, 2) <= B - 3
    BY <1>1, <2>1, SearchStarts
  <2>3. Ahead(all, 2) >= -2 /\ Ahead(all, 2) \in Int
    BY <1>1, AheadIsTyped
  <2>4. 2 * evaluations' + Ahead(Len(lines'), n') <= B - 3
    BY <2>1, <2>2, <2>3, <1>2
  <2>5. 2 * evaluations' <= B
    <3>1. B >= 5
      <4> DEFINE sq == all * all
      <4>1. sq \in Nat /\ sq >= 1 /\ B = sq + 4 * all
        BY <1>1, <2>1
      <4> HIDE DEF sq, B
      <4> QED BY <1>1, <2>1, <4>1
    <3> DEFINE e == evaluations'
    <3>2. B \in Int /\ e \in {0, 1}
      BY <1>2, <2>1
    <3> HIDE DEF B, e
    <3>3. 2 * e <= B
      BY <3>1, <3>2
    <3> QED BY <3>3 DEF e
  <2> HIDE DEF B
  <2> QED BY <1>2, <1>3, <2>1, <2>4, <2>5 DEF CostInv, InPass, CostIsQuadratic, Bound
\* In a pass: what has been tried, and what the pass may still cost.
<1>6. ASSUME InPass
      PROVE  /\ len >= 2 /\ n * chunk >= len /\ (n >= len => chunk = 1)
             /\ \E tried \in Nat :
                   /\ start = tried * chunk
                   /\ tried = 0 \/ (tried - 1) * chunk < len
                   /\ 2 * evaluations + Ahead(len, n) <= B - 3 + 2 * tried
  BY <1>2, <1>6 DEF CostInv, PassInv
<1>7. CASE BeginPass
  <2>1. CASE at' = "finish"
    BY <1>7, <1>a, <2>1 DEF BeginPass
  <2>2. CASE at' = "for"
    <3>1. /\ at = "while" /\ len >= 2 /\ start' = 0 /\ chunk' = (len + n - 1) \div n
          /\ UNCHANGED <<lines, n, evaluations>>
      BY <1>7, <2>2 DEF BeginPass
    <3>2. chunk' \in Nat \ {0} /\ n * chunk' >= len
      <4>1. len \in Nat \ {0}
        BY <1>1, <3>1
      <4> HIDE DEF len
      <4> QED BY <1>1, <3>1, <4>1, ChunksAreNotEmpty, ChunksCover
    <3>3. 2 * evaluations + Ahead(len, n) <= B - 3 + 2 * 0
      BY <1>1, <1>2, <1>4, <3>1 DEF CostInv
    <3>4. 0 \in Nat /\ start' = 0 * chunk'
      BY <3>1, <3>2
    <3> HIDE DEF B
    <3>5. \E tried \in Nat :
            /\ start' = tried * chunk'
            /\ tried = 0 \/ (tried - 1) * chunk' < len
            /\ 2 * evaluations + Ahead(len, n) <= B - 3 + 2 * tried
      BY <3>3, <3>4
    <3> QED BY <1>2, <1>3, <2>2, <3>1, <3>2, <3>5 DEF CostInv, InPass, CostIsQuadratic
  <2> QED BY <1>7, <2>1, <2>2 DEF BeginPass
<1>8. CASE NextChunk
  <2>1. CASE at' = "finish"
    BY <1>8, <1>a, <2>1 DEF NextChunk
  <2>2. CASE at' \in {"else", "chunk"}
    <3>1. at = "for" /\ UNCHANGED <<lines, n, chunk, start, evaluations>>
      BY <1>8 DEF NextChunk
    <3> QED BY <1>3, <2>2, <3>1 DEF CostInv, InPass, CostIsQuadratic
  <2> QED BY <1>8, <2>1, <2>2 DEF NextChunk
<1>9. CASE TryChunk
  <2>1. at = "chunk" /\ InPass /\ start < len
    BY <1>9 DEF TryChunk, InPass, PassInv
  <2>2. PICK tried \in Nat :
           /\ start = tried * chunk
           /\ tried = 0 \/ (tried - 1) * chunk < len
           /\ 2 * evaluations + Ahead(len, n) <= B - 3 + 2 * tried
    BY <1>6, <2>1
  <2>3. len >= 2 /\ n * chunk >= len /\ (n >= len => chunk = 1) /\ tried * chunk < len
    BY <1>6, <2>1, <2>2
  <2>4. CASE at' = "while"
    <3> DEFINE less == Len(Reduced)
               k == IF n > 3 THEN n - 1 ELSE 2
    <3>1. lines' = Reduced /\ n' = k /\ evaluations' = evaluations + 1
      BY <1>9, <2>4 DEF TryChunk, Counts
    <3>2. Reduced \in Seq(Lines) /\ less < len
      BY <2>1, CandidateTyped
    <3>3. less \in Nat
      BY <3>2
    <3>4. Ahead(less, k) + 2 * (tried + 1) <= Ahead(len, n)
      <4> HIDE DEF len, less
      <4> QED BY <1>1, <2>3, <3>2, <3>3, PaysForAReduction
    <3>5. Ahead(less, k) \in Int /\ Ahead(less, k) >= -2
      <4>1. k \in Nat
        BY <1>1
      <4> HIDE DEF less, k
      <4> QED BY <3>3, <4>1, AheadIsTyped
    <3> HIDE DEF less, k, B, len
    <3>6. /\ 2 * (evaluations + 1) + Ahead(less, k) <= B - 3
          /\ 2 * (evaluations + 1) <= B
      <4>1. evaluations \in Nat /\ B \in Nat /\ Ahead(len, n) \in Int
        BY <1>1, <1>2, <1>4
      <4> QED BY <2>2, <3>4, <3>5, <4>1, Paid
    <3> QED BY <1>2, <1>3, <2>4, <3>1, <3>6
            DEF CostInv, InPass, CostIsQuadratic, Bound, less
  <2>5. CASE at' = "for"
    <3>1. /\ start' = start + chunk /\ UNCHANGED <<lines, n, chunk>>
          /\ evaluations' \in {evaluations, evaluations + 1}
      BY <1>9, <2>5 DEF TryChunk, Counts, Skips
    <3>2. tried + 1 \in Nat /\ start' = (tried + 1) * chunk /\ (tried + 1) - 1 = tried
      BY <1>1, <2>2, <3>1
    <3>3. 2 * (tried + 1) <= Ahead(len, n) + 2
      <4> DEFINE m == tried + 1
      <4>1. m \in Nat /\ (m - 1) * chunk < len
        BY <2>3, <3>2
      <4> HIDE DEF len, m
      <4>2. 2 * m <= Ahead(len, n) + 2
        BY <1>1, <2>3, <4>1, PaysForAPass
      <4> QED BY <4>2 DEF m
    <3> HIDE DEF B, len
    <3>4. 2 * evaluations' + Ahead(len, n) <= B - 3 + 2 * (tried + 1)
      <4> DEFINE A == Ahead(len, n)
                 e == evaluations'
      <4>1. /\ A \in Int /\ B \in Int /\ evaluations \in Int /\ tried \in Int
            /\ e = evaluations \/ e = evaluations + 1
        BY <1>1, <1>2, <1>4, <3>1
      <4>2. 2 * evaluations + A <= B - 3 + 2 * tried
        BY <2>2
      <4> HIDE DEF A, e
      <4>3. 2 * e + A <= B - 3 + 2 * (tried + 1)
        BY <4>1, <4>2
      <4> QED BY <4>3 DEF A, e
    <3>5. 2 * evaluations' <= B
      <4> DEFINE A == Ahead(len, n)
                 e == evaluations'
                 m == tried + 1
      <4>1. A \in Int /\ B \in Int /\ m \in Int /\ e \in Int
        BY <1>1, <1>2, <1>4, <3>1
      <4>2. 2 * m <= A + 2 /\ 2 * e + A <= B - 3 + 2 * m
        BY <3>3, <3>4
      <4> HIDE DEF A, e, m, B
      <4>3. 2 * e <= B
        BY <4>1, <4>2
      <4> QED BY <4>3 DEF e
    <3>6. \E m \in Nat :
            /\ start' = m * chunk
            /\ m = 0 \/ (m - 1) * chunk < len
            /\ 2 * evaluations' + Ahead(len, n) <= B - 3 + 2 * m
      <4> DEFINE m == tried + 1
      <4>1. /\ m \in Nat /\ start' = m * chunk /\ (m - 1) * chunk < len
            /\ 2 * evaluations' + Ahead(len, n) <= B - 3 + 2 * m
        BY <2>3, <3>2, <3>4
      <4> HIDE DEF m
      <4> QED BY <4>1
    <3>7. \E m \in Nat :
            /\ start' = m * chunk'
            /\ m = 0 \/ (m - 1) * chunk' < Len(lines')
            /\ 2 * evaluations' + Ahead(Len(lines'), n') <= Bound' - 3 + 2 * m
      BY <1>2, <1>3, <3>1, <3>6 DEF len
    <3>8. n' * chunk' >= Len(lines')
      BY <2>3, <3>1 DEF len
    <3>9. 2 * evaluations' <= Bound'
      BY <1>2, <1>3, <3>5
    <3> QED BY <2>5, <3>7, <3>8, <3>9 DEF CostInv, InPass, CostIsQuadratic, Bound
  <2> QED BY <1>9, <2>4, <2>5 DEF TryChunk
<1>10. CASE Refine
  <2>1. CASE at' = "finish"
    BY <1>10, <1>a, <2>1 DEF Refine
  <2>2. CASE at' = "while"
    <3> DEFINE k == IF 2 * n > len THEN len ELSE 2 * n
    <3>1. /\ at = "else" /\ ~(n >= len) /\ n' = k /\ UNCHANGED <<lines, evaluations>>
      BY <1>10, <2>2 DEF Refine
    <3>2. InPass
      BY <3>1 DEF InPass
    <3>3. PICK tried \in Nat :
             /\ start = tried * chunk
             /\ tried = 0 \/ (tried - 1) * chunk < len
             /\ 2 * evaluations + Ahead(len, n) <= B - 3 + 2 * tried
      BY <1>6, <3>2
    <3>4. len >= 2 /\ n * chunk >= len /\ n < len /\ (n >= len => chunk = 1)
      BY <1>1, <1>6, <3>1, <3>2
    <3>5. Ahead(len, k) + 2 * tried <= Ahead(len, n)
      <4> HIDE DEF len, B
      <4> QED BY <1>1, <3>3, <3>4, PaysForAPass
    <3>6. Ahead(len, k) \in Int
      <4>1. k \in Nat
        BY <1>1
      <4> HIDE DEF k, len
      <4> QED BY <1>1, <4>1, AheadIsTyped
    <3> HIDE DEF k, len, B
    <3>7. 2 * evaluations + Ahead(len, k) <= B - 3
      BY <1>1, <1>2, <1>4, <3>3, <3>5, <3>6
    <3>8. 2 * evaluations' + Ahead(Len(lines'), n') <= Bound' - 3
      BY <1>2, <1>3, <3>1, <3>7 DEF len
    <3> QED BY <1>3, <2>2, <3>1, <3>8 DEF CostInv, InPass, CostIsQuadratic
  <2> QED BY <1>10, <2>1, <2>2 DEF Refine
<1>11. CASE Finish
  BY <1>11, <1>a DEF Finish
<1>12. CASE VerifyEscape
  BY <1>12, <1>a DEF VerifyEscape
<1>13. CASE Expire \/ UNCHANGED searchVars
  <2>1. UNCHANGED <<at, lines, n, chunk, start, evaluations, original>>
    BY <1>13 DEF Expire, searchVars, search
  <2> QED BY <2>1 DEF CostInv, InPass, CostIsQuadratic, Bound
<1> QED
  BY <1>5, <1>7, <1>8, <1>9, <1>10, <1>11, <1>12, <1>13 DEF SearchNext, Step

----------------------------------------------------------------------------
(* Theorems about the search.                                              *)

\* Types, what escapes, the passes and what is minimal, together, hold of every
\* search.
THEOREM SearchInvariant == SearchSpec => []SearchInv
<1>1. SearchInit => SearchInv
  BY Initially
<1>2. SearchInv /\ [SearchNext]_searchVars => SearchInv'
  BY Typed, Escaping, Passing, Minimizing DEF SearchInv
<1> QED
  BY <1>1, <1>2, PTL DEF SearchSpec

\* The search keeps its types, and its budget.
THEOREM SearchTypeCorrect == SearchSpec => []SearchTypeOK
<1>1. SearchInv => SearchTypeOK
  BY DEF SearchInv
<1> QED
  BY <1>1, SearchInvariant, PTL

\* Whatever the predicate, the budget and the clock, what minimize_lines returns
\* escapes and is the original with lines left out.
THEOREM ReducedSourceEscapes == SearchSpec => []ReturnedIsAnEscape
<1>1. SearchInv => ReturnedIsAnEscape
  BY DEF SearchInv, EscapeInv, ReturnedIsAnEscape, Increasing
<1> QED
  BY <1>1, SearchInvariant, PTL

\* A result called minimal is: no line of it can be left out.
THEOREM MinimalSourceIsMinimal == SearchSpec => []MinimalMeansMinimal
<1>1. SearchInv => MinimalMeansMinimal
  BY DEF SearchInv, MinimalInv, MinimalMeansMinimal, Exhausted
<1> QED
  BY <1>1, SearchInvariant, PTL

\* However long the source, whatever the predicate says and whenever the clock runs
\* out, the search asks no more than quadratically often (minimizer.py:64-95).
THEOREM SearchIsQuadratic == SearchSpec => []CostIsQuadratic
<1>1. SearchInit => CostInv
  <2> SUFFICES ASSUME SearchInit PROVE CostInv
    OBVIOUS
  <2>1. PICK k \in Lines : original = [i \in 1..k |-> i]
    BY DEF SearchInit
  <2>2. k \in Nat /\ k >= 1
    BY MinimizerAssumption DEF Lines
  <2>3. Len(original) = k
    BY <2>1, <2>2
  <2>4. 2 * 0 <= k * (k + 4)
    BY <2>2
  <2> QED BY <2>2, <2>3, <2>4 DEF SearchInit, CostInv, InPass, CostIsQuadratic, Bound
<1>2. CostInv => CostIsQuadratic
  BY DEF CostInv
<1> QED
  BY <1>1, <1>2, SearchInvariant, CostKept, PTL DEF SearchSpec
----------------------------------------------------------------------------
(* Progress: the search ends, whatever the predicate says.                 *)

SearchPhase ==
    CASE at = "original" -> 4
      [] at \in {"while", "for", "chunk", "else"} -> 3
      [] at = "finish" -> 2
      [] at = "verify" -> 1
      [] OTHER -> 0

\* How much finer the chunks can still get, and what is left of a pass.
FinerLeft == IF n < Len(lines) THEN Len(lines) - n ELSE 0

LinesAhead == IF start < Len(lines) THEN Len(lines) - start ELSE 0

PassLeft ==
    CASE at = "while" -> 2 * Len(lines) + 3
      [] at = "for" -> 2 * LinesAhead + 2
      [] at = "chunk" -> 2 * LinesAhead + 1
      [] OTHER -> 0

\* The next phase, fewer lines, finer chunks of the same lines, or further in the
\* same pass.
Closer ==
    \/ SearchPhase' < SearchPhase
    \/ /\ SearchPhase' = SearchPhase
       /\ \/ Len(lines') < Len(lines)
          \/ /\ lines' = lines
             /\ \/ FinerLeft' < FinerLeft
                \/ FinerLeft' = FinerLeft /\ PassLeft' < PassLeft

Measured == SearchPhase \in Nat /\ FinerLeft \in Nat /\ LinesAhead \in Nat /\ PassLeft \in Nat

LEMMA MeasuresTyped == SearchTypeOK => Measured
<1> SUFFICES ASSUME SearchTypeOK PROVE Measured
  OBVIOUS
<1>1. Len(lines) \in Nat /\ n \in Nat /\ start \in Nat
  BY DEF SearchTypeOK
<1>2. FinerLeft \in Nat /\ LinesAhead \in Nat
  BY <1>1 DEF FinerLeft, LinesAhead
<1>3. PassLeft \in Nat
  BY <1>1, <1>2 DEF PassLeft
<1>4. SearchPhase \in Nat
  BY DEF SearchPhase
<1> QED
  BY <1>2, <1>3, <1>4 DEF Measured

\* What the measures are at each place.
LEMMA PhaseAt ==
    /\ at = "original" => SearchPhase = 4
    /\ at \in {"while", "for", "chunk", "else"} => SearchPhase = 3
    /\ at = "finish" => SearchPhase = 2
    /\ at = "verify" => SearchPhase = 1
    /\ at \in {"returned", "refused"} => SearchPhase = 0
BY DEF SearchPhase

LEMMA PhaseNext ==
    /\ at' \in {"while", "for", "chunk", "else"} => SearchPhase' = 3
    /\ at' = "finish" => SearchPhase' = 2
    /\ at' = "verify" => SearchPhase' = 1
    /\ at' \in {"returned", "refused"} => SearchPhase' = 0
BY DEF SearchPhase

\* A step inside a pass.
LEMMA FurtherInPass ==
    ASSUME at \in {"while", "for", "chunk"}, at' \in {"for", "chunk", "else"},
           lines' = lines, n' = n, PassLeft' < PassLeft
    PROVE  Closer
<1>1. SearchPhase = 3 /\ SearchPhase' = 3
  BY PhaseAt, PhaseNext
<1>2. FinerLeft' = FinerLeft
  BY DEF FinerLeft
<1> QED
  BY <1>1, <1>2 DEF Closer

LEMMA TryChunkGoesOn == ASSUME SearchInv, TryChunk PROVE Closer
<1>1. at = "chunk" /\ SearchTypeOK /\ EscapeInv /\ PassInv
  BY DEF TryChunk, SearchInv
<1>2. /\ Len(lines) \in Nat /\ start \in Nat /\ chunk \in Nat \ {0} /\ start < Len(lines)
  BY <1>1 DEF SearchTypeOK, PassInv
<1>3. CASE lines' = Reduced /\ at' = "while"
  <2>1. Len(lines') < Len(lines)
    BY <1>1, <1>3, CandidateTyped
  <2>2. SearchPhase = 3 /\ SearchPhase' = 3
    BY <1>1, <1>3, PhaseAt, PhaseNext
  <2> QED
    BY <2>1, <2>2 DEF Closer
<1>4. CASE start' = start + chunk /\ at' = "for" /\ UNCHANGED <<lines, n>>
  <2>1. LinesAhead = Len(lines) - start
    BY <1>2 DEF LinesAhead
  <2>2. LinesAhead' = IF start + chunk < Len(lines) THEN Len(lines) - (start + chunk) ELSE 0
    BY <1>4 DEF LinesAhead
  <2>3. LinesAhead \in Nat /\ LinesAhead' \in Nat /\ LinesAhead' + 1 <= LinesAhead
    BY <1>2, <2>1, <2>2
  <2>4. PassLeft = 2 * LinesAhead + 1 /\ PassLeft' = 2 * LinesAhead' + 2
    BY <1>1, <1>4 DEF PassLeft
  <2>5. \A a, b \in Nat : b + 1 <= a => 2 * b + 2 < 2 * a + 1
    OBVIOUS
  <2>6. PassLeft' < PassLeft
    BY <2>3, <2>4, <2>5
  <2> QED
    BY <1>1, <1>4, <2>6, FurtherInPass
<1> QED
  BY <1>3, <1>4 DEF TryChunk

LEMMA NextChunkGoesOn == ASSUME SearchInv, NextChunk PROVE Closer
<1>1. /\ at = "for" /\ Len(lines) \in Nat /\ start \in Nat
      /\ LinesAhead \in Nat /\ UNCHANGED <<lines, n, start>>
  BY MeasuresTyped DEF NextChunk, SearchInv, SearchTypeOK, Measured
<1>2. PassLeft = 2 * LinesAhead + 2 /\ LinesAhead' = LinesAhead
  BY <1>1 DEF PassLeft, LinesAhead
<1>3. CASE at' = "finish"
  BY <1>1, <1>3, PhaseAt, PhaseNext DEF Closer
<1>4. CASE at' \in {"else", "chunk"}
  <2>1. PassLeft' \in {0, 2 * LinesAhead + 1}
    BY <1>2, <1>4 DEF PassLeft
  <2>2. PassLeft' < PassLeft
    BY <1>1, <1>2, <2>1
  <2> QED
    BY <1>1, <1>4, <2>2, FurtherInPass
<1> QED
  BY <1>3, <1>4 DEF NextChunk

LEMMA BeginPassGoesOn == ASSUME SearchInv, BeginPass PROVE Closer
<1>1. at = "while" /\ Len(lines) \in Nat
  BY DEF BeginPass, SearchInv, SearchTypeOK
<1>2. CASE at' = "finish"
  BY <1>1, <1>2, PhaseAt, PhaseNext DEF Closer
<1>3. CASE at' = "for" /\ start' = 0 /\ UNCHANGED <<lines, n>> /\ Len(lines) >= 2
  <2>1. PassLeft = 2 * Len(lines) + 3
    BY <1>1 DEF PassLeft
  <2>2. LinesAhead' = Len(lines)
    BY <1>1, <1>3 DEF LinesAhead
  <2>3. PassLeft' = 2 * Len(lines) + 2
    BY <1>3, <2>2 DEF PassLeft
  <2>4. PassLeft' < PassLeft
    BY <1>1, <2>1, <2>3
  <2> QED
    BY <1>1, <1>3, <2>4, FurtherInPass
<1> QED
  BY <1>2, <1>3 DEF BeginPass

LEMMA RefineGoesOn == ASSUME SearchInv, Refine PROVE Closer
<1>1. /\ at = "else" /\ Len(lines) \in Nat /\ n \in Nat /\ n >= 2 /\ lines' = lines
  BY DEF Refine, SearchInv, SearchTypeOK
<1>2. CASE n >= Len(lines)
  <2>1. at' = "finish"
    BY <1>2 DEF Refine
  <2> QED
    BY <1>1, <2>1, PhaseAt, PhaseNext DEF Closer
<1>3. CASE n < Len(lines)
  <2>1. at' = "while" /\ n' = IF 2 * n > Len(lines) THEN Len(lines) ELSE 2 * n
    BY <1>1, <1>3 DEF Refine
  <2>2. n' \in Nat /\ n < n' /\ n' <= Len(lines)
    BY <1>1, <1>3, <2>1
  <2>3. FinerLeft = Len(lines) - n
    BY <1>3 DEF FinerLeft
  <2>4. FinerLeft' = IF n' < Len(lines) THEN Len(lines) - n' ELSE 0
    BY <1>1 DEF FinerLeft
  <2>5. FinerLeft' < FinerLeft
    BY <1>1, <1>3, <2>2, <2>3, <2>4
  <2>6. SearchPhase = 3 /\ SearchPhase' = 3
    BY <1>1, <2>1, PhaseAt, PhaseNext
  <2> QED
    BY <1>1, <2>5, <2>6 DEF Closer
<1> QED
  BY <1>1, <1>2, <1>3

\* Whatever the predicate says and whenever the seconds run out, every step of the
\* search brings it closer to its end: to the next phase, to fewer lines, to finer
\* chunks of the same lines, or further in the same pass.  All four are numbers,
\* so a search is no endless one (minimizer.py 62-97).
THEOREM SearchGoesForward ==
    SearchSpec => []Measured /\ [][Step => Closer]_searchVars
<1>1. SearchInv => Measured
  BY MeasuresTyped DEF SearchInv
<1>2. ASSUME SearchInv, Step PROVE Closer
  <2>1. CASE EvaluateOriginal
    BY <2>1, PhaseAt, PhaseNext DEF EvaluateOriginal, Closer
  <2>2. CASE Finish
    BY <2>2, PhaseAt, PhaseNext DEF Finish, Closer
  <2>3. CASE VerifyEscape
    BY <2>3, PhaseAt, PhaseNext DEF VerifyEscape, Closer
  <2> QED
    BY <1>2, <2>1, <2>2, <2>3, BeginPassGoesOn, NextChunkGoesOn, TryChunkGoesOn,
       RefineGoesOn DEF Step
<1>3. SearchInv /\ [SearchNext]_searchVars => [Step => Closer]_searchVars
  BY <1>2
<1> QED
  BY <1>1, <1>3, SearchInvariant, PTL DEF SearchSpec
=============================================================================
