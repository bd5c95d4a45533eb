----------------------- MODULE WebMCPRemediationProofs -----------------------
(***************************************************************************)
(* Verdicts, memory and recovery of the WebMCP remediation, for any number *)
(* of clients, scenarios, edits, restarts and lost responses.              *)
(*                                                                         *)
(* The argument counts edits.  Two reads with no edit between them see the *)
(* same content, two reads with exactly one between them see different     *)
(* contents: if a handler's two hashes agree while its scan saw something  *)
(* else, there were at least two.  The same count tells whether the        *)
(* fixture was edited after the client proposed.                           *)
(***************************************************************************)
EXTENDS WebMCPRemediation, EvidenceProofs, Integers

Reverifying ==
    {"hashing", "scanning", "executing", "comparing", "signing", "judging"}

Hashed == Reverifying \ {"hashing"}

Scanned == Hashed \ {"scanning"}

\* The fixture has been hashed for the first, but not for the last time.
BetweenHashes == {"scanning", "executing"}

Now(c) == SourceNow(scenario[c])

EditsNow(c) == edits[scenario[c]]

\* Where a handler is, its client waits; and the handler works on what its
\* client holds, which is of the content it last proposed.
WaitsFor(c) ==
    /\ handler[c].at = "proposing" =>
          step[c] = "propose" /\ (EditsNow(c) = since[c] => Now(c) = handler[c].target)
    /\ handler[c].at = "rebuilding" => step[c] = "rebuild"
    /\ handler[c].at \in Reverifying =>
          step[c] = "reverify" /\ handler[c].candidate = candidate[c]
    /\ step[c] \in {"rebuild", "reverify"} =>
          /\ proposal[c] \in Proposals /\ proposal[c].scenario = scenario[c]
          /\ EditsNow(c) = since[c] => Now(c) = proposal[c].target
    /\ step[c] = "reverify" =>
          candidate[c] = [proposal |-> proposal[c], source |-> proposal[c].target]

\* The order of a handler's reads among the edits,
ReadsInOrder(c) ==
    /\ since[c] <= EditsNow(c)
    /\ handler[c].at \in Hashed =>
          since[c] <= handler[c].first /\ handler[c].first <= EditsNow(c)
    /\ handler[c].at \in Scanned =>
          handler[c].first <= handler[c].last /\ handler[c].last <= EditsNow(c)

\* and what it tells about the contents they saw.
ReadsAgree(c) ==
    /\ handler[c].at \in Hashed =>
          (handler[c].first = since[c] => handler[c].hash = proposal[c].target)
    /\ handler[c].at \in BetweenHashes =>
          /\ EditsNow(c) = handler[c].first => Now(c) = handler[c].hash
          /\ EditsNow(c) = handler[c].first + 1 => Now(c) # handler[c].hash
    /\ handler[c].at = "executing" =>
          (EditsNow(c) = handler[c].first => handler[c].scanned = handler[c].hash)
    /\ handler[c].at \in Scanned =>
          handler[c].findings = RunFindings(MatchesIn[handler[c].scanned], {})
    /\ handler[c].at \in Scanned \ {"executing"} =>
          (handler[c].scanned # handler[c].hash
              => handler[c].last - handler[c].first >= 2)
    /\ handler[c].at \in {"signing", "judging"} =>
          judged /\ handler[c].hash = handler[c].candidate.source

\* What a client was given, it was given in this run of the server or before.
GivenBefore(c) == epoch[c].proposal <= restarts /\ epoch[c].candidate <= restarts

StuckWithReason(c) ==
    step[c] = "stuck" => EditsNow(c) > since[c] \/ (judged /\ c \in unsigned)

ClientInv(c) ==
    /\ WaitsFor(c) /\ ReadsInOrder(c) /\ ReadsAgree(c)
    /\ GivenBefore(c) /\ StuckWithReason(c)

IInv ==
    /\ TypeOK
    /\ \A c \in Clients : ClientInv(c)
    /\ VerdictIsAboutTheCandidate
    /\ JudgedVerdictsAreTheGatekeepers
    /\ KnownUntilRestart

-----------------------------------------------------------------------------
(* Types.                                                                  *)

LEMMA SourceNowTyped ==
    ASSUME TypeOK, NEW s \in Scenarios
    PROVE  SourceNow(s) \in Sources
BY DEF TypeOK, SourceNow, Sources

\* What the scan of a fixture records are findings (scanner.py, engine.py:88-93).
LEMMA ScanTyped ==
    ASSUME NEW x \in Sources
    PROVE  RunFindings(MatchesIn[x], {}) \subseteq Findings
<1>1. MatchesIn[x] \subseteq Checks
  BY RemediationAssumption, ChecksAssumption
<1>2. \A k \in MatchesIn[x] : (k \in {}) = FALSE
  OBVIOUS
<1>3. QED
  BY <1>1, <1>2, FindingTyped DEF RunFindings

ScannedHandlers ==
    [at : {"executing", "comparing", "signing", "judging"},
     candidate : Candidates, hash : Sources, scanned : Sources,
     findings : SUBSET Findings, first : 0..MaxEdits, last : 0..MaxEdits]

\* The kinds of handlers, by where they stand.
LEMMA HandlerKinds ==
    ASSUME NEW h \in Handlers
    PROVE  /\ h.at = "proposing" => h \in [at : {"proposing"}, target : Sources]
           /\ h.at = "hashing" => h \in [at : {"hashing"}, candidate : Candidates]
           /\ h.at = "scanning" =>
                 h \in [at : {"scanning"}, candidate : Candidates, hash : Sources,
                        first : 0..MaxEdits]
           /\ h.at \in Scanned => h \in ScannedHandlers
BY DEF Handlers, Idle, ScannedHandlers, Scanned, Hashed, Reverifying

\* The counts a client's handler has read.
LEMMA CountsTyped ==
    ASSUME TypeOK, NEW c \in Clients
    PROVE  /\ scenario[c] \in Scenarios /\ since[c] \in Nat
           /\ EditsNow(c) \in 0..MaxEdits /\ EditsNow(c) \in Nat
           /\ handler[c] \in Handlers
           /\ handler[c].at \in Hashed => handler[c].first \in Nat
           /\ handler[c].at \in Scanned => handler[c].last \in Nat
<1>1. /\ scenario[c] \in Scenarios /\ since[c] \in Nat
      /\ EditsNow(c) \in 0..MaxEdits /\ EditsNow(c) \in Nat
      /\ handler[c] \in Handlers
  BY RemediationAssumption DEF TypeOK, EditsNow
<1>2. handler[c].at \in Scanned => handler[c].first \in Nat /\ handler[c].last \in Nat
  BY <1>1, HandlerKinds DEF ScannedHandlers
<1>3. handler[c].at = "scanning" => handler[c].first \in Nat
  BY <1>1, HandlerKinds
<1>4. QED
  BY <1>1, <1>2, <1>3 DEF Scanned

LEMMA IdleTyped == Idle \in Handlers /\ Idle.at = "idle"
BY DEF Idle, Handlers

\* A handler that is gone promises nothing but that its client holds what it holds.
LEMMA AtRest ==
    ASSUME NEW c \in Clients, handler[c].at = "idle", since[c] <= EditsNow(c)
    PROVE  ReadsInOrder(c) /\ ReadsAgree(c)
BY DEF ReadsInOrder, ReadsAgree, BetweenHashes, Scanned, Hashed, Reverifying

LEMMA InitInv == Init => IInv
<1> SUFFICES ASSUME Init PROVE IInv
  OBVIOUS
<1>1. 0 \in 0..MaxEdits /\ 0 \in 0..MaxRestarts /\ 0 \in 0..MaxLosses
  BY RemediationAssumption
<1>2. TypeOK
  BY <1>1, IdleTyped, RemediationAssumption DEF Init, TypeOK, Steps
<1>3. ASSUME NEW c \in Clients PROVE ClientInv(c)
  <2>1. handler[c].at = "idle" /\ step[c] = "propose" /\ scenario[c] \in Scenarios
    BY IdleTyped DEF Init
  <2>2. since[c] <= EditsNow(c)
    BY <2>1 DEF Init, EditsNow
  <2>3. ReadsInOrder(c) /\ ReadsAgree(c)
    BY <2>1, <2>2, AtRest
  <2>4. WaitsFor(c) /\ GivenBefore(c) /\ StuckWithReason(c)
    BY <2>1 DEF Init, WaitsFor, GivenBefore, StuckWithReason, Reverifying
  <2>5. QED
    BY <2>3, <2>4 DEF ClientInv
<1>4. VerdictIsAboutTheCandidate /\ JudgedVerdictsAreTheGatekeepers /\ KnownUntilRestart
  BY DEF Init, VerdictIsAboutTheCandidate, JudgedVerdictsAreTheGatekeepers, KnownUntilRestart
<1>5. QED
  BY <1>2, <1>3, <1>4 DEF IInv

\* A fixture that is left alone, and one that is edited.
Stands(s) == version'[s] = version[s] /\ edits'[s] = edits[s]

Turns(s) == version'[s] # version[s] /\ edits'[s] = edits[s] + 1

\* A client to whom nothing happens is none the worse for an edit of its fixture.
LEMMA BystanderInv ==
    ASSUME IInv, TypeOK', NEW d \in Clients,
           handler'[d] = handler[d] \/ handler'[d] = Idle, step'[d] = step[d],
           scenario' = scenario, since'[d] = since[d], proposal'[d] = proposal[d],
           candidate'[d] = candidate[d], epoch'[d] = epoch[d],
           \A s \in Scenarios : Stands(s) \/ Turns(s), restarts <= restarts',
           judged' = judged, unsigned \subseteq unsigned'
    PROVE  ClientInv(d)'
<1>1. ClientInv(d) /\ TypeOK
  BY DEF IInv
<1>2. /\ scenario[d] \in Scenarios /\ since[d] \in Nat /\ EditsNow(d) \in Nat
      /\ handler[d].at \in Hashed => handler[d].first \in Nat
      /\ handler[d].at \in Scanned => handler[d].last \in Nat
  BY <1>1, CountsTyped
<1>3. restarts \in Nat /\ restarts' \in Nat
      /\ epoch[d].proposal \in Nat /\ epoch[d].candidate \in Nat
  BY <1>1, RemediationAssumption DEF TypeOK
<1>4. \/ EditsNow(d)' = EditsNow(d) /\ Now(d)' = Now(d)
      \/ EditsNow(d)' = EditsNow(d) + 1 /\ Now(d)' # Now(d)
  BY <1>2 DEF Stands, Turns, EditsNow, Now, SourceNow
<1>5. since[d] <= EditsNow(d) /\ since'[d] <= EditsNow(d)'
  BY <1>1, <1>2, <1>4 DEF ClientInv, ReadsInOrder
<1>6. GivenBefore(d)'
  BY <1>1, <1>3 DEF ClientInv, GivenBefore
<1>7. StuckWithReason(d)'
  <2>1. EditsNow(d) > since[d] => EditsNow(d)' > since'[d]
    BY <1>2, <1>4
  <2>2. QED
    BY <1>1, <2>1 DEF ClientInv, StuckWithReason
<1>8. EditsNow(d)' = since'[d] => EditsNow(d) = since[d] /\ Now(d)' = Now(d)
  BY <1>2, <1>4, <1>5
<1>9. step'[d] \in {"rebuild", "reverify"} =>
          /\ proposal'[d] \in Proposals /\ proposal'[d].scenario = scenario'[d]
          /\ EditsNow(d)' = since'[d] => Now(d)' = proposal'[d].target
  BY <1>1, <1>8 DEF ClientInv, WaitsFor
<1>10. CASE handler'[d] = Idle
  <2>1. handler'[d].at = "idle"
    BY <1>10, IdleTyped
  <2>2. ReadsInOrder(d)' /\ ReadsAgree(d)'
    BY <1>5, <2>1 DEF ReadsInOrder, ReadsAgree, BetweenHashes, Scanned, Hashed, Reverifying
  <2>3. WaitsFor(d)'
    BY <1>1, <1>9, <2>1 DEF ClientInv, WaitsFor, Reverifying
  <2>4. QED
    BY <1>6, <1>7, <2>2, <2>3 DEF ClientInv
<1>11. CASE handler'[d] = handler[d]
  <2>1. WaitsFor(d)'
    BY <1>1, <1>8, <1>9, <1>11 DEF ClientInv, WaitsFor
  <2>2. ReadsInOrder(d)'
    BY <1>1, <1>2, <1>4, <1>5, <1>11 DEF ClientInv, ReadsInOrder
  <2>3. handler[d].at \in Hashed => handler[d].first <= EditsNow(d)
    BY <1>1 DEF ClientInv, ReadsInOrder
  <2>4. handler[d].at \in Hashed =>
          /\ EditsNow(d)' = handler[d].first => EditsNow(d) = handler[d].first /\ Now(d)' = Now(d)
          /\ EditsNow(d)' = handler[d].first + 1 =>
                \/ EditsNow(d) = handler[d].first /\ Now(d)' # Now(d)
                \/ EditsNow(d) = handler[d].first + 1 /\ Now(d)' = Now(d)
    BY <1>2, <1>4, <2>3
  <2>5. handler'[d].at \in BetweenHashes =>
          /\ EditsNow(d)' = handler'[d].first => Now(d)' = handler'[d].hash
          /\ EditsNow(d)' = handler'[d].first + 1 => Now(d)' # handler'[d].hash
    BY <1>1, <1>11, <2>4
       DEF ClientInv, ReadsAgree, BetweenHashes, Hashed, Reverifying
  <2>6. handler'[d].at = "executing" =>
          (EditsNow(d)' = handler'[d].first => handler'[d].scanned = handler'[d].hash)
    BY <1>1, <1>11, <2>4 DEF ClientInv, ReadsAgree, Hashed, Reverifying
  <2>7. ReadsAgree(d)'
    BY <1>1, <1>11, <2>5, <2>6 DEF ClientInv, ReadsAgree
  <2>8. QED
    BY <1>6, <1>7, <2>1, <2>2, <2>7 DEF ClientInv
<1>12. QED
  BY <1>10, <1>11

\* A step of one client is as good as what it does to that client.
LEMMA OthersStand ==
    ASSUME IInv, TypeOK', NEW c \in Clients, ClientInv(c)',
           \A d \in Clients \ {c} :
              /\ handler'[d] = handler[d] /\ step'[d] = step[d] /\ since'[d] = since[d]
              /\ proposal'[d] = proposal[d] /\ candidate'[d] = candidate[d]
              /\ epoch'[d] = epoch[d],
           scenario' = scenario, version' = version, edits' = edits,
           restarts' = restarts, judged' = judged, unsigned \subseteq unsigned'
    PROVE  \A d \in Clients : ClientInv(d)'
<1> SUFFICES ASSUME NEW d \in Clients PROVE ClientInv(d)'
  OBVIOUS
<1>1. CASE d = c
  BY <1>1
<1>2. CASE d # c
  <2>1. restarts <= restarts'
    BY RemediationAssumption DEF IInv, TypeOK
  <2>2. \A s \in Scenarios : Stands(s)
    BY DEF Stands
  <2>3. QED
    BY <1>2, <2>1, <2>2, BystanderInv
<1>3. QED
  BY <1>1, <1>2

LEMMA EnterTyped ==
    ASSUME TypeOK, NEW c \in Clients, NEW h \in Handlers, Enter(c, h)
    PROVE  /\ handler' \in [Clients -> Handlers] /\ handler'[c] = h
           /\ \A d \in Clients \ {c} : handler'[d] = handler[d]
BY DEF TypeOK, Enter

\* Nothing a client was given is forgotten, and what it is given is stored.
LEMMA MemoryStays ==
    ASSUME IInv, restarts' = restarts,
           proposals \subseteq proposals', candidates \subseteq candidates',
           \A c \in Clients :
              /\ \/ proposal'[c] = proposal[c] /\ epoch'[c].proposal = epoch[c].proposal
                 \/ proposal'[c] \in proposals'
              /\ \/ candidate'[c] = candidate[c] /\ epoch'[c].candidate = epoch[c].candidate
                 \/ candidate'[c] \in candidates'
    PROVE  KnownUntilRestart'
BY DEF IInv, KnownUntilRestart

LEMMA VerdictsStay ==
    ASSUME IInv, verdicts' = verdicts, judged' = judged
    PROVE  VerdictIsAboutTheCandidate' /\ JudgedVerdictsAreTheGatekeepers'
BY DEF IInv, VerdictIsAboutTheCandidate, JudgedVerdictsAreTheGatekeepers

\* A step inside a handler.
LEMMA InternalInv ==
    ASSUME IInv, NEW c \in Clients, NEW h \in Handlers, Internal(c, h),
           WaitsFor(c)', ReadsInOrder(c)', ReadsAgree(c)'
    PROVE  IInv'
<1>1. /\ judged' = judged /\ version' = version /\ edits' = edits
      /\ gatekeeper' = gatekeeper /\ restarts' = restarts /\ losses' = losses
      /\ proposals' = proposals /\ candidates' = candidates
      /\ step' = step /\ scenario' = scenario /\ since' = since
      /\ proposal' = proposal /\ candidate' = candidate /\ epoch' = epoch
      /\ verdicts' = verdicts /\ unsigned' = unsigned /\ Enter(c, h)
  BY DEF Internal, world, server, clients, history
<1>2. /\ handler' \in [Clients -> Handlers]
      /\ \A d \in Clients \ {c} : handler'[d] = handler[d]
  BY <1>1, EnterTyped DEF IInv
<1>3. TypeOK'
  BY <1>1, <1>2 DEF IInv, TypeOK
<1>4. GivenBefore(c)' /\ StuckWithReason(c)'
  BY <1>1 DEF IInv, ClientInv, GivenBefore, StuckWithReason, EditsNow
<1>5. ClientInv(c)'
  BY <1>4 DEF ClientInv
<1>6. \A d \in Clients : ClientInv(d)'
  BY <1>1, <1>2, <1>3, <1>5, OthersStand
<1>7. KnownUntilRestart'
  BY <1>1, MemoryStays
<1>8. QED
  BY <1>1, <1>3, <1>6, <1>7, VerdictsStay DEF IInv

\* A request comes to nothing: its client is sent elsewhere, or left without advice.
LEMMA LeaveInv ==
    ASSUME IInv, NEW c \in Clients, NEW s \in Steps, LeaveAt(c, s),
           s \in {"rebuild", "reverify"} => step[c] = "reverify",
           unsigned \subseteq unsigned', unsigned' \subseteq Clients,
           s = "stuck" => EditsNow(c) > since[c] \/ (judged /\ c \in unsigned')
    PROVE  IInv'
<1>1. /\ judged' = judged /\ version' = version /\ edits' = edits
      /\ gatekeeper' = gatekeeper /\ restarts' = restarts /\ losses' = losses
      /\ proposals' = proposals /\ candidates' = candidates
      /\ scenario' = scenario /\ since' = since
      /\ proposal' = proposal /\ candidate' = candidate /\ epoch' = epoch
      /\ verdicts' = verdicts /\ Enter(c, Idle) /\ step' = [step EXCEPT ![c] = s]
  BY DEF LeaveAt, Return, GoTo, world, server
<1>2. /\ handler' \in [Clients -> Handlers] /\ handler'[c] = Idle
      /\ \A d \in Clients \ {c} : handler'[d] = handler[d]
  BY <1>1, EnterTyped, IdleTyped DEF IInv
<1>3. /\ step' \in [Clients -> Steps] /\ step'[c] = s
      /\ \A d \in Clients \ {c} : step'[d] = step[d]
  BY <1>1 DEF IInv, TypeOK
<1>4. TypeOK'
  BY <1>1, <1>2, <1>3 DEF IInv, TypeOK
<1>5. ClientInv(c)'
  <2>1. handler'[c].at = "idle" /\ ClientInv(c)
    BY <1>2, IdleTyped DEF IInv
  <2>2. EditsNow(c)' = EditsNow(c) /\ Now(c)' = Now(c)
    BY <1>1 DEF EditsNow, Now, SourceNow
  <2>3. WaitsFor(c)'
    BY <1>1, <1>3, <2>1, <2>2 DEF ClientInv, WaitsFor, Reverifying
  <2>4. since'[c] <= EditsNow(c)'
    BY <1>1, <2>1, <2>2 DEF ClientInv, ReadsInOrder
  <2>5. ReadsInOrder(c)' /\ ReadsAgree(c)'
    BY <2>1, <2>4 DEF ReadsInOrder, ReadsAgree, BetweenHashes, Scanned, Hashed, Reverifying
  <2>6. GivenBefore(c)' /\ StuckWithReason(c)'
    BY <1>1, <1>3, <2>1, <2>2 DEF ClientInv, GivenBefore, StuckWithReason
  <2>7. QED
    BY <2>3, <2>5, <2>6 DEF ClientInv
<1>6. \A d \in Clients : ClientInv(d)'
  BY <1>1, <1>2, <1>3, <1>4, <1>5, OthersStand
<1>7. KnownUntilRestart'
  BY <1>1, MemoryStays
<1>8. QED
  BY <1>1, <1>4, <1>6, <1>7, VerdictsStay DEF IInv

LEMMA ReferInv ==
    ASSUME IInv, NEW c \in Clients, NEW s \in Steps, Refer(c, s),
           s \in {"rebuild", "reverify"} => step[c] = "reverify",
           s = "stuck" => EditsNow(c) > since[c]
    PROVE  IInv'
<1>1. LeaveAt(c, s) /\ unsigned' = unsigned /\ unsigned \subseteq Clients
  BY DEF Refer, IInv, TypeOK
<1>2. QED
  BY <1>1, LeaveInv

-----------------------------------------------------------------------------
(* One lemma for each action.                                              *)

LEMMA ProposeReadInv ==
    ASSUME IInv, NEW c \in Clients, ProposeRead(c)
    PROVE  IInv'
<1> DEFINE h == [at |-> "proposing", target |-> Now(c)]
<1>1. /\ step[c] = "propose" /\ handler[c] = Idle
      /\ judged' = judged /\ version' = version /\ edits' = edits
      /\ gatekeeper' = gatekeeper /\ restarts' = restarts /\ losses' = losses
      /\ proposals' = proposals /\ candidates' = candidates
      /\ step' = step /\ scenario' = scenario
      /\ proposal' = proposal /\ candidate' = candidate /\ epoch' = epoch
      /\ verdicts' = verdicts /\ unsigned' = unsigned /\ Enter(c, h)
      /\ since' = [since EXCEPT ![c] = EditsNow(c)]
  BY DEF ProposeRead, Now, EditsNow, world, server, history
<1>2. /\ scenario[c] \in Scenarios /\ EditsNow(c) \in 0..MaxEdits /\ EditsNow(c) \in Nat
      /\ Now(c) \in Sources
  BY CountsTyped, SourceNowTyped DEF IInv, Now
<1>3. h \in Handlers
  BY <1>2 DEF Handlers
<1>4. /\ handler' \in [Clients -> Handlers] /\ handler'[c] = h
      /\ \A d \in Clients \ {c} : handler'[d] = handler[d]
  BY <1>1, <1>3, EnterTyped DEF IInv
<1>5. h.at = "proposing" /\ h.target = Now(c)
  OBVIOUS
<1> HIDE DEF h
<1>6. /\ since' \in [Clients -> 0..MaxEdits] /\ since'[c] = EditsNow(c)
      /\ \A d \in Clients \ {c} : since'[d] = since[d]
  BY <1>1, <1>2 DEF IInv, TypeOK
<1>7. TypeOK'
  BY <1>1, <1>4, <1>6 DEF IInv, TypeOK
<1>8. ClientInv(c)'
  <2>1. EditsNow(c)' = EditsNow(c) /\ Now(c)' = Now(c)
    BY <1>1 DEF EditsNow, Now, SourceNow
  <2>2. WaitsFor(c)'
    BY <1>1, <1>4, <1>5, <2>1 DEF WaitsFor, Reverifying
  <2>3. ReadsInOrder(c)' /\ ReadsAgree(c)'
    BY <1>2, <1>4, <1>5, <1>6, <2>1
       DEF ReadsInOrder, ReadsAgree, BetweenHashes, Scanned, Hashed, Reverifying
  <2>4. GivenBefore(c)' /\ StuckWithReason(c)'
    BY <1>1 DEF IInv, ClientInv, GivenBefore, StuckWithReason
  <2>5. QED
    BY <2>2, <2>3, <2>4 DEF ClientInv
<1>9. \A d \in Clients : ClientInv(d)'
  BY <1>1, <1>4, <1>6, <1>7, <1>8, OthersStand
<1>10. KnownUntilRestart'
  BY <1>1, MemoryStays
<1>11. QED
  BY <1>1, <1>7, <1>9, <1>10, VerdictsStay DEF IInv

LEMMA ProposeStoreInv ==
    ASSUME IInv, NEW c \in Clients, ProposeStore(c)
    PROVE  IInv'
<1> DEFINE p == [scenario |-> scenario[c], target |-> handler[c].target]
<1>1. /\ handler[c].at = "proposing"
      /\ judged' = judged /\ version' = version /\ edits' = edits
      /\ gatekeeper' = gatekeeper /\ restarts' = restarts /\ losses' = losses
      /\ proposals' = proposals \union {p} /\ candidates' = candidates
      /\ scenario' = scenario /\ since' = since /\ candidate' = candidate
      /\ proposal' = [proposal EXCEPT ![c] = p]
      /\ epoch' = [epoch EXCEPT ![c].proposal = restarts]
      /\ step' = [step EXCEPT ![c] = "rebuild"]
      /\ verdicts' = verdicts /\ unsigned' = unsigned /\ Enter(c, Idle)
  BY DEF ProposeStore, Return, GoTo, world, history
<1>2. /\ handler' \in [Clients -> Handlers] /\ handler'[c] = Idle
      /\ \A d \in Clients \ {c} : handler'[d] = handler[d]
  BY <1>1, EnterTyped, IdleTyped DEF IInv
<1>3. handler[c].target \in Sources /\ scenario[c] \in Scenarios
  BY <1>1, HandlerKinds DEF IInv, TypeOK
<1>4. /\ p \in Proposals /\ p.scenario = scenario[c]
      /\ EditsNow(c) = since[c] => Now(c) = p.target
  BY <1>1, <1>3 DEF Proposals, IInv, ClientInv, WaitsFor
<1> HIDE DEF p
<1>5. /\ step' \in [Clients -> Steps] /\ step'[c] = "rebuild"
      /\ proposal' \in [Clients -> Proposals \union {None}] /\ proposal'[c] = p
      /\ epoch' \in [Clients -> [proposal : 0..MaxRestarts, candidate : 0..MaxRestarts]]
      /\ epoch'[c].proposal = restarts /\ epoch'[c].candidate = epoch[c].candidate
      /\ \A d \in Clients \ {c} :
            step'[d] = step[d] /\ proposal'[d] = proposal[d] /\ epoch'[d] = epoch[d]
  BY <1>1, <1>4 DEF IInv, TypeOK, Steps
<1>6. TypeOK'
  BY <1>1, <1>2, <1>4, <1>5 DEF IInv, TypeOK
<1>7. ClientInv(c)'
  <2>1. handler'[c].at = "idle" /\ ClientInv(c)
    BY <1>2, IdleTyped DEF IInv
  <2>2. EditsNow(c)' = EditsNow(c) /\ Now(c)' = Now(c)
    BY <1>1 DEF EditsNow, Now, SourceNow
  <2>3. WaitsFor(c)'
    BY <1>1, <1>4, <1>5, <2>1, <2>2 DEF WaitsFor, Reverifying
  <2>4. ReadsInOrder(c)' /\ ReadsAgree(c)'
    BY <1>1, <2>1, <2>2
       DEF ClientInv, ReadsInOrder, ReadsAgree, BetweenHashes, Scanned, Hashed, Reverifying
  <2>5. GivenBefore(c)' /\ StuckWithReason(c)'
    BY <1>1, <1>5, <2>1, RemediationAssumption
       DEF IInv, TypeOK, ClientInv, GivenBefore, StuckWithReason
  <2>6. QED
    BY <2>3, <2>4, <2>5 DEF ClientInv
<1>8. \A d \in Clients : ClientInv(d)'
  BY <1>1, <1>2, <1>5, <1>6, <1>7, OthersStand
<1>9. KnownUntilRestart'
  BY <1>1, <1>5, MemoryStays
<1>10. QED
  BY <1>1, <1>6, <1>8, <1>9, VerdictsStay DEF IInv

LEMMA RebuildLookupInv ==
    ASSUME IInv, NEW c \in Clients, RebuildLookup(c)
    PROVE  IInv'
<1> DEFINE h == [at |-> "rebuilding"]
<1>1. CASE Refer(c, "propose")
  BY <1>1, ReferInv DEF Steps
<1>2. CASE Internal(c, h)
  <2>1. h \in Handlers /\ h.at = "rebuilding"
    BY DEF Handlers
  <2>2. step[c] = "rebuild" /\ ClientInv(c) /\ UNCHANGED <<version, edits, clients>>
    BY <1>2 DEF RebuildLookup, Internal, IInv, world
  <2>3. handler'[c] = h
    BY <1>2, <2>1, EnterTyped DEF Internal, IInv
  <2> HIDE DEF h
  <2>4. WaitsFor(c)' /\ ReadsInOrder(c)' /\ ReadsAgree(c)'
    BY <2>1, <2>2, <2>3
       DEF clients, ClientInv, WaitsFor, ReadsInOrder, ReadsAgree, EditsNow, Now, SourceNow,
           BetweenHashes, Hashed, Scanned, Reverifying
  <2>5. QED
    BY <1>2, <2>1, <2>4, InternalInv
<1>3. QED
  BY <1>1, <1>2 DEF RebuildLookup, Internal

LEMMA RebuildStoreInv ==
    ASSUME IInv, NEW c \in Clients, RebuildStore(c)
    PROVE  IInv'
<1> DEFINE k == [proposal |-> proposal[c], source |-> proposal[c].target]
<1>1. /\ handler[c].at = "rebuilding" /\ ClientInv(c) /\ step[c] = "rebuild"
      /\ proposal[c] \in Proposals /\ proposal[c].scenario = scenario[c]
      /\ EditsNow(c) = since[c] => Now(c) = proposal[c].target
  BY DEF RebuildStore, IInv, ClientInv, WaitsFor
<1>2. CASE Now(c) # proposal[c].target
  <2>1. Refer(c, "stuck")
    BY <1>2 DEF RebuildStore, Fail, Now
  <2>2. EditsNow(c) > since[c]
    BY <1>1, <1>2, CountsTyped DEF IInv, ClientInv, ReadsInOrder
  <2>3. QED
    BY <2>1, <2>2, ReferInv DEF Steps
<1>3. CASE Now(c) = proposal[c].target
  <2>1. /\ judged' = judged /\ version' = version /\ edits' = edits
        /\ gatekeeper' = gatekeeper /\ restarts' = restarts /\ losses' = losses
        /\ proposals' = proposals /\ candidates' = candidates \union {k}
        /\ scenario' = scenario /\ since' = since /\ proposal' = proposal
        /\ candidate' = [candidate EXCEPT ![c] = k]
        /\ epoch' = [epoch EXCEPT ![c].candidate = restarts]
        /\ step' = [step EXCEPT ![c] = "reverify"]
        /\ verdicts' = verdicts /\ unsigned' = unsigned /\ Enter(c, Idle)
    BY <1>3 DEF RebuildStore, Now, Return, GoTo, world, history
  <2>2. /\ handler' \in [Clients -> Handlers] /\ handler'[c] = Idle
        /\ \A d \in Clients \ {c} : handler'[d] = handler[d]
    BY <2>1, EnterTyped, IdleTyped DEF IInv
  <2>3. k \in Candidates
    BY <1>1 DEF Candidates, Proposals
  <2> HIDE DEF k
  <2>4. /\ step' \in [Clients -> Steps] /\ step'[c] = "reverify"
        /\ candidate' \in [Clients -> Candidates \union {None}] /\ candidate'[c] = k
        /\ epoch' \in [Clients -> [proposal : 0..MaxRestarts, candidate : 0..MaxRestarts]]
        /\ epoch'[c].candidate = restarts /\ epoch'[c].proposal = epoch[c].proposal
        /\ \A d \in Clients \ {c} :
              step'[d] = step[d] /\ candidate'[d] = candidate[d] /\ epoch'[d] = epoch[d]
    BY <2>1, <2>3 DEF IInv, TypeOK, Steps
  <2>5. TypeOK'
    BY <2>1, <2>2, <2>3, <2>4 DEF IInv, TypeOK
  <2>6. ClientInv(c)'
    <3>1. handler'[c].at = "idle"
      BY <2>2, IdleTyped
    <3>2. EditsNow(c)' = EditsNow(c) /\ Now(c)' = Now(c)
      BY <2>1 DEF EditsNow, Now, SourceNow
    <3>3. WaitsFor(c)'
      BY <1>1, <2>1, <2>4, <3>1, <3>2 DEF WaitsFor, Reverifying, k
    <3>4. ReadsInOrder(c)' /\ ReadsAgree(c)'
      BY <1>1, <2>1, <3>1, <3>2
         DEF ClientInv, ReadsInOrder, ReadsAgree, BetweenHashes, Hashed, Scanned, Reverifying
    <3>5. GivenBefore(c)' /\ StuckWithReason(c)'
      BY <1>1, <2>1, <2>4, RemediationAssumption
         DEF IInv, TypeOK, ClientInv, GivenBefore, StuckWithReason
    <3>6. QED
      BY <3>3, <3>4, <3>5 DEF ClientInv
  <2>7. \A d \in Clients : ClientInv(d)'
    BY <2>1, <2>2, <2>4, <2>5, <2>6, OthersStand
  <2>8. KnownUntilRestart'
    BY <2>1, <2>4, MemoryStays
  <2>9. QED
    BY <2>1, <2>5, <2>7, <2>8, VerdictsStay DEF IInv
<1>4. QED
  BY <1>2, <1>3

\* What is known of a client whose candidate is being re-verified.
LEMMA ReverifyingClient ==
    ASSUME IInv, NEW c \in Clients, handler[c].at \in Reverifying
    PROVE  /\ TypeOK /\ WaitsFor(c) /\ ReadsInOrder(c) /\ ReadsAgree(c)
           /\ step[c] = "reverify" /\ Now(c) \in Sources
           /\ handler[c].candidate = candidate[c]
           /\ candidate[c].source = proposal[c].target
           /\ EditsNow(c) = since[c] => Now(c) = proposal[c].target
<1>1. TypeOK /\ WaitsFor(c) /\ ReadsInOrder(c) /\ ReadsAgree(c)
  BY DEF IInv, ClientInv
<1>2. step[c] = "reverify" /\ handler[c].candidate = candidate[c]
  BY <1>1 DEF WaitsFor
<1>3. /\ candidate[c] = [proposal |-> proposal[c], source |-> proposal[c].target]
      /\ EditsNow(c) = since[c] => Now(c) = proposal[c].target
  BY <1>1, <1>2 DEF WaitsFor
<1>4. Now(c) \in Sources
  BY <1>1, CountsTyped, SourceNowTyped DEF Now
<1>5. QED
  BY <1>1, <1>2, <1>3, <1>4

\* The client goes on waiting while its handler works on.
LEMMA StillWaits ==
    ASSUME IInv, NEW c \in Clients, NEW h \in Handlers, Internal(c, h),
           step[c] = "reverify", h.at \in Reverifying, h.candidate = candidate[c]
    PROVE  /\ handler'[c] = h /\ WaitsFor(c)'
           /\ since'[c] = since[c] /\ proposal'[c] = proposal[c] /\ judged' = judged
           /\ EditsNow(c)' = EditsNow(c) /\ Now(c)' = Now(c)
<1>1. /\ handler'[c] = h /\ version' = version /\ edits' = edits /\ judged' = judged
      /\ step' = step /\ scenario' = scenario /\ since' = since
      /\ proposal' = proposal /\ candidate' = candidate
  BY EnterTyped DEF Internal, world, clients, IInv
<1>2. EditsNow(c)' = EditsNow(c) /\ Now(c)' = Now(c)
  BY <1>1 DEF EditsNow, Now, SourceNow
<1>3. WaitsFor(c)'
  BY <1>1, <1>2 DEF IInv, ClientInv, WaitsFor, Reverifying
<1>4. QED
  BY <1>1, <1>2, <1>3

LEMMA ReverifyLookupInv ==
    ASSUME IInv, NEW c \in Clients, ReverifyLookup(c)
    PROVE  IInv'
<1> DEFINE h == [at |-> "hashing", candidate |-> candidate[c]]
<1>1. step[c] = "reverify" /\ ClientInv(c)
  BY DEF ReverifyLookup, IInv
<1>2. CASE candidate[c] \notin candidates
  BY <1>1, <1>2, ReferInv DEF ReverifyLookup, Steps
<1>3. CASE candidate[c] \in candidates
  <2>1. Internal(c, h)
    BY <1>3 DEF ReverifyLookup, Internal
  <2>2. h \in Handlers /\ h.at = "hashing" /\ h.candidate = candidate[c]
    BY <1>3 DEF Handlers, IInv, TypeOK
  <2> HIDE DEF h
  <2>3. /\ WaitsFor(c)' /\ handler'[c] = h /\ since'[c] = since[c]
        /\ EditsNow(c)' = EditsNow(c)
    BY <1>1, <2>1, <2>2, StillWaits DEF Reverifying
  <2>4. ReadsInOrder(c)' /\ ReadsAgree(c)'
    BY <1>1, <2>2, <2>3
       DEF ClientInv, ReadsInOrder, ReadsAgree, BetweenHashes, Hashed, Scanned, Reverifying
  <2>5. QED
    BY <2>1, <2>2, <2>3, <2>4, InternalInv
<1>4. QED
  BY <1>2, <1>3

LEMMA ReverifyHashInv ==
    ASSUME IInv, NEW c \in Clients, ReverifyHash(c)
    PROVE  IInv'
<1> DEFINE h == [at |-> "scanning", candidate |-> handler[c].candidate,
                 hash |-> Now(c), first |-> EditsNow(c)]
<1>1. handler[c].at = "hashing" /\ Internal(c, h)
  BY DEF ReverifyHash, Now, EditsNow
<1>2. /\ TypeOK /\ ReadsInOrder(c) /\ step[c] = "reverify" /\ Now(c) \in Sources
      /\ handler[c].candidate = candidate[c]
      /\ EditsNow(c) = since[c] => Now(c) = proposal[c].target
  BY <1>1, ReverifyingClient DEF Reverifying
<1>3. /\ since[c] <= EditsNow(c) /\ EditsNow(c) \in Nat /\ EditsNow(c) \in 0..MaxEdits
      /\ handler[c] \in Handlers
  BY <1>2, CountsTyped DEF ReadsInOrder
<1>4. h \in Handlers
  BY <1>1, <1>2, <1>3, HandlerKinds DEF Handlers
<1>5. h.at = "scanning" /\ h.candidate = candidate[c] /\ h.hash = Now(c) /\ h.first = EditsNow(c)
  BY <1>2
<1> HIDE DEF h
<1>6. /\ WaitsFor(c)' /\ handler'[c] = h /\ since'[c] = since[c] /\ proposal'[c] = proposal[c]
      /\ EditsNow(c)' = EditsNow(c) /\ Now(c)' = Now(c)
  BY <1>1, <1>2, <1>4, <1>5, StillWaits DEF Reverifying
<1>7. ReadsInOrder(c)'
  BY <1>3, <1>5, <1>6 DEF ReadsInOrder, Hashed, Scanned, Reverifying
<1>8. ReadsAgree(c)'
  BY <1>2, <1>3, <1>5, <1>6
     DEF ReadsAgree, BetweenHashes, Hashed, Scanned, Reverifying
<1>9. QED
  BY <1>1, <1>4, <1>6, <1>7, <1>8, InternalInv

LEMMA ReverifyScanInv ==
    ASSUME IInv, NEW c \in Clients, ReverifyScan(c)
    PROVE  IInv'
<1> DEFINE f == RunFindings(MatchesIn[Now(c)], {})
           h == [at |-> "executing", candidate |-> handler[c].candidate,
                 hash |-> handler[c].hash, scanned |-> Now(c), findings |-> f,
                 first |-> handler[c].first, last |-> handler[c].first]
<1>1. handler[c].at = "scanning" /\ Internal(c, h)
  BY DEF ReverifyScan, Now
<1>2. /\ TypeOK /\ ReadsInOrder(c) /\ ReadsAgree(c) /\ step[c] = "reverify"
      /\ handler[c].candidate = candidate[c] /\ Now(c) \in Sources
  BY <1>1, ReverifyingClient DEF Reverifying
<1>3. EditsNow(c) \in Nat /\ handler[c] \in Handlers
  BY <1>2, CountsTyped
<1>4. h \in Handlers
  <2>1. f \in SUBSET Findings
    BY <1>2, ScanTyped
  <2>2. /\ handler[c].candidate \in Candidates /\ handler[c].hash \in Sources
        /\ handler[c].first \in 0..MaxEdits
    BY <1>1, <1>3, HandlerKinds
  <2>3. QED
    BY <1>2, <2>1, <2>2 DEF Handlers
<1>5. /\ h.at = "executing" /\ h.candidate = candidate[c] /\ h.hash = handler[c].hash
      /\ h.scanned = Now(c) /\ h.findings = RunFindings(MatchesIn[Now(c)], {})
      /\ h.first = handler[c].first /\ h.last = handler[c].first
  BY <1>2
<1> HIDE DEF h, f
<1>6. /\ WaitsFor(c)' /\ handler'[c] = h /\ since'[c] = since[c] /\ proposal'[c] = proposal[c]
      /\ EditsNow(c)' = EditsNow(c) /\ Now(c)' = Now(c)
  BY <1>1, <1>2, <1>4, <1>5, StillWaits DEF Reverifying
<1>7. ReadsInOrder(c)'
  <2>1. /\ since[c] <= EditsNow(c)
        /\ since[c] <= handler[c].first /\ handler[c].first <= EditsNow(c)
    BY <1>1, <1>2 DEF ReadsInOrder, Hashed, Reverifying
  <2>2. handler[c].first \in Nat
    BY <1>1, <1>2, CountsTyped DEF Hashed, Reverifying
  <2>3. QED
    BY <1>5, <1>6, <2>1, <2>2 DEF ReadsInOrder
<1>8. ReadsAgree(c)'
  <2>1. /\ handler[c].first = since[c] => handler[c].hash = proposal[c].target
        /\ EditsNow(c) = handler[c].first => Now(c) = handler[c].hash
        /\ EditsNow(c) = handler[c].first + 1 => Now(c) # handler[c].hash
    BY <1>1, <1>2 DEF ReadsAgree, BetweenHashes, Hashed, Reverifying
  <2>2. QED
    BY <1>5, <1>6, <2>1 DEF ReadsAgree, Scanned, Hashed, Reverifying
<1>9. QED
  BY <1>1, <1>4, <1>6, <1>7, <1>8, InternalInv

\* A handler that goes on to compare, to sign or to judge keeps what it has read.
Keeps(h, x) ==
    /\ h \in ScannedHandlers
    /\ h.candidate = x.candidate /\ h.hash = x.hash /\ h.scanned = x.scanned
    /\ h.findings = x.findings /\ h.first = x.first

LEMMA GoesToPlace ==
    ASSUME NEW x \in ScannedHandlers, NEW place \in {"signing", "judging"}
    PROVE  LET h == [x EXCEPT !.at = place]
           IN  Keeps(h, x) /\ h.at = place /\ h.last = x.last
BY DEF Keeps, ScannedHandlers

LEMMA GoesOnInv ==
    ASSUME IInv, NEW c \in Clients, handler[c].at \in Scanned,
           NEW h, Keeps(h, handler[c]), h.at \in {"comparing", "signing", "judging"},
           handler[c].first <= h.last, h.last <= EditsNow(c), Internal(c, h),
           h.scanned # h.hash => h.last - h.first >= 2,
           h.at \in {"signing", "judging"} => judged /\ h.hash = h.candidate.source
    PROVE  IInv'
<1>1. /\ TypeOK /\ ReadsInOrder(c) /\ ReadsAgree(c) /\ step[c] = "reverify"
      /\ handler[c].candidate = candidate[c]
  BY ReverifyingClient DEF Scanned, Hashed
<1>2. h \in Handlers
  BY DEF Keeps, ScannedHandlers, Handlers
<1>3. h.candidate = candidate[c] /\ h.hash = handler[c].hash /\ h.scanned = handler[c].scanned
      /\ h.findings = handler[c].findings /\ h.first = handler[c].first
  BY <1>1 DEF Keeps
<1>4. /\ WaitsFor(c)' /\ handler'[c] = h /\ since'[c] = since[c] /\ proposal'[c] = proposal[c]
      /\ EditsNow(c)' = EditsNow(c) /\ judged' = judged
  BY <1>1, <1>2, <1>3, StillWaits DEF Reverifying
<1>5. ReadsInOrder(c)'
  BY <1>1, <1>3, <1>4 DEF ReadsInOrder, Scanned
<1>6. ReadsAgree(c)'
  BY <1>1, <1>3, <1>4 DEF ReadsAgree, BetweenHashes, Scanned
<1>7. QED
  BY <1>2, <1>4, <1>5, <1>6, InternalInv

\* What is known of a client whose fixture has been scanned.
LEMMA ScannedClient ==
    ASSUME IInv, NEW c \in Clients, handler[c].at \in Scanned
    PROVE  /\ handler[c] \in ScannedHandlers /\ step[c] = "reverify"
           /\ since[c] \in Nat /\ EditsNow(c) \in Nat /\ EditsNow(c) \in 0..MaxEdits
           /\ handler[c].first \in Nat /\ handler[c].last \in Nat
           /\ since[c] <= handler[c].first /\ handler[c].first <= handler[c].last
           /\ handler[c].last <= EditsNow(c) /\ handler[c].first <= EditsNow(c)
           /\ handler[c].candidate.source = proposal[c].target
           /\ handler[c].first = since[c] => handler[c].hash = proposal[c].target
           /\ ReadsAgree(c)
<1>1. /\ TypeOK /\ ReadsInOrder(c) /\ ReadsAgree(c) /\ step[c] = "reverify"
      /\ handler[c].candidate = candidate[c] /\ candidate[c].source = proposal[c].target
  BY ReverifyingClient DEF Scanned, Hashed
<1>2. /\ handler[c] \in ScannedHandlers
      /\ since[c] \in Nat /\ EditsNow(c) \in Nat /\ EditsNow(c) \in 0..MaxEdits
      /\ handler[c].first \in Nat /\ handler[c].last \in Nat
  BY <1>1, CountsTyped, HandlerKinds DEF Scanned
<1>3. /\ since[c] <= handler[c].first /\ handler[c].first <= handler[c].last
      /\ handler[c].last <= EditsNow(c) /\ handler[c].first <= EditsNow(c)
  BY <1>1 DEF ReadsInOrder, Scanned
<1>4. handler[c].first = since[c] => handler[c].hash = proposal[c].target
  BY <1>1 DEF ReadsAgree, Scanned
<1>5. QED
  BY <1>1, <1>2, <1>3, <1>4

\* The executor's hash equals the first: there was no edit between them, and the
\* scan saw the same, or there were at least two.
LEMMA ReverifyExecuteInv ==
    ASSUME IInv, NEW c \in Clients, ReverifyExecute(c)
    PROVE  IInv'
<1>1. handler[c].at = "executing" /\ handler[c].at \in Scanned
  BY DEF ReverifyExecute, Scanned, Hashed, Reverifying
<1>2. /\ handler[c] \in ScannedHandlers
      /\ since[c] \in Nat /\ EditsNow(c) \in Nat /\ EditsNow(c) \in 0..MaxEdits
      /\ handler[c].first \in Nat
      /\ since[c] <= handler[c].first /\ handler[c].first <= EditsNow(c)
      /\ ReadsAgree(c)
  BY <1>1, ScannedClient
<1>3. /\ EditsNow(c) = handler[c].first => Now(c) = handler[c].hash
      /\ EditsNow(c) = handler[c].first + 1 => Now(c) # handler[c].hash
      /\ EditsNow(c) = handler[c].first => handler[c].scanned = handler[c].hash
  BY <1>1, <1>2 DEF ReadsAgree, BetweenHashes
<1>4. CASE Now(c) # handler[c].hash
  <2>1. EditsNow(c) > since[c]
    BY <1>2, <1>3, <1>4
  <2>2. Refer(c, "stuck")
    BY <1>4 DEF ReverifyExecute, Fail, Now
  <2>3. QED
    BY <2>1, <2>2, ReferInv DEF Steps
<1>5. CASE Now(c) = handler[c].hash
  <2> DEFINE n == EditsNow(c)
            h == [handler[c] EXCEPT !.at = "comparing", !.last = n]
  <2>1. Internal(c, h)
    BY <1>5 DEF ReverifyExecute, Now, EditsNow
  <2>2. n = EditsNow(c) /\ n \in 0..MaxEdits
    BY <1>2
  <2> HIDE DEF n
  <2>3. Keeps(h, handler[c]) /\ h.at = "comparing" /\ h.last = n
    BY <1>2, <2>2 DEF Keeps, ScannedHandlers
  <2> HIDE DEF h
  <2>4. handler[c].scanned # handler[c].hash => n - handler[c].first >= 2
    BY <1>2, <1>3, <1>5, <2>2
  <2>5. h.scanned # h.hash => h.last - h.first >= 2
    BY <2>3, <2>4 DEF Keeps
  <2>6. handler[c].first <= h.last /\ h.last <= EditsNow(c)
    BY <1>2, <2>2, <2>3
  <2>7. QED
    BY <1>1, <2>1, <2>3, <2>5, <2>6, GoesOnInv
<1>6. QED
  BY <1>4, <1>5

\* Both gates decide on a scan as the rules that match call for.
LEMMA ScanDecides ==
    ASSUME NEW x
    PROVE  /\ JudgeDecide(RunFindings(MatchesIn[x], {})) = DecisionFor(MatchesIn[x])
           /\ GoDecide(BundleResults(RunFindings(MatchesIn[x], {}))) = DecisionFor(MatchesIn[x])
           /\ DecisionFor(MatchesIn[x]) \in Decisions
<1>1. GoDecide(BundleResults(RunFindings(MatchesIn[x], {}))) \in Decisions
  BY DecisionsTyped
<1>2. QED
  BY <1>1, GatesDecideOnFailures

LEMMA AnswerInv ==
    ASSUME IInv, NEW c \in Clients, NEW decision, NEW by \in {"reference", "go"},
           Answer(c, decision, by), handler[c].at \in Scanned \ {"executing"},
           handler[c].hash = handler[c].candidate.source,
           decision = DecisionFor(MatchesIn[handler[c].scanned]),
           judged => by = "go"
    PROVE  IInv'
<1> DEFINE n == handler[c].last - handler[c].first
           v == [candidate |-> handler[c].candidate, source |-> handler[c].hash,
                 scanned |-> handler[c].scanned, meanwhile |-> n,
                 decision |-> decision, by |-> by]
<1>1. /\ judged' = judged /\ version' = version /\ edits' = edits
      /\ gatekeeper' = gatekeeper /\ restarts' = restarts /\ losses' = losses
      /\ proposals' = proposals /\ candidates' = candidates
      /\ scenario' = scenario /\ since' = since
      /\ proposal' = proposal /\ candidate' = candidate /\ epoch' = epoch
      /\ step' = [step EXCEPT ![c] = "done"]
      /\ verdicts' = verdicts \union {v} /\ unsigned' = unsigned /\ Enter(c, Idle)
  BY DEF Answer, Return, GoTo, world, server
<1>2. /\ handler' \in [Clients -> Handlers] /\ handler'[c] = Idle
      /\ \A d \in Clients \ {c} : handler'[d] = handler[d]
  BY <1>1, EnterTyped, IdleTyped DEF IInv
<1>3. /\ step' \in [Clients -> Steps] /\ step'[c] = "done"
      /\ \A d \in Clients \ {c} : step'[d] = step[d]
  BY <1>1 DEF IInv, TypeOK, Steps
<1>4. /\ handler[c] \in ScannedHandlers /\ ReadsAgree(c)
      /\ EditsNow(c) \in 0..MaxEdits /\ handler[c].first \in Nat /\ handler[c].last \in Nat
      /\ handler[c].first <= handler[c].last /\ handler[c].last <= EditsNow(c)
  BY ScannedClient
<1>5. n \in 0..MaxEdits
  BY <1>4, RemediationAssumption
<1>6. handler[c].scanned # handler[c].hash => n >= 2
  BY <1>4 DEF ReadsAgree
<1> HIDE DEF n
<1>7. /\ v.candidate = handler[c].candidate /\ v.source = handler[c].hash
      /\ v.scanned = handler[c].scanned /\ v.meanwhile = n
      /\ v.decision = decision /\ v.by = by
  OBVIOUS
<1>8. v \in [candidate : Candidates, source : Sources, scanned : Sources,
             meanwhile : 0..MaxEdits, decision : Decisions, by : {"reference", "go"}]
  <2>1. decision \in Decisions
    BY ScanDecides
  <2>2. QED
    BY <1>4, <1>5, <2>1 DEF ScannedHandlers
<1> HIDE DEF v
<1>9. TypeOK'
  BY <1>1, <1>2, <1>3, <1>8 DEF IInv, TypeOK
<1>10. ClientInv(c)'
  <2>1. handler'[c].at = "idle" /\ ClientInv(c)
    BY <1>2, IdleTyped DEF IInv
  <2>2. WaitsFor(c)' /\ StuckWithReason(c)'
    BY <1>3, <2>1 DEF WaitsFor, StuckWithReason, Reverifying
  <2>3. since'[c] <= EditsNow(c)'
    BY <1>1, <2>1 DEF ClientInv, ReadsInOrder, EditsNow
  <2>4. ReadsInOrder(c)' /\ ReadsAgree(c)'
    BY <2>1, <2>3 DEF ReadsInOrder, ReadsAgree, BetweenHashes, Hashed, Scanned, Reverifying
  <2>5. GivenBefore(c)'
    BY <1>1, <2>1 DEF ClientInv, GivenBefore
  <2>6. QED
    BY <2>2, <2>4, <2>5 DEF ClientInv
<1>11. \A d \in Clients : ClientInv(d)'
  BY <1>1, <1>2, <1>3, <1>9, <1>10, OthersStand
<1>12. VerdictIsAboutTheCandidate'
  BY <1>1, <1>6, <1>7 DEF IInv, VerdictIsAboutTheCandidate
<1>13. JudgedVerdictsAreTheGatekeepers'
  BY <1>1, <1>7 DEF IInv, JudgedVerdictsAreTheGatekeepers
<1>14. KnownUntilRestart'
  BY <1>1, MemoryStays
<1>15. QED
  BY <1>9, <1>11, <1>12, <1>13, <1>14 DEF IInv

LEMMA ReverifyCompareInv ==
    ASSUME IInv, NEW c \in Clients, ReverifyCompare(c)
    PROVE  IInv'
<1>1. handler[c].at = "comparing" /\ handler[c].at \in Scanned \ {"executing"}
  BY DEF ReverifyCompare, Scanned, Hashed, Reverifying
<1>2. /\ handler[c] \in ScannedHandlers
      /\ since[c] \in Nat /\ EditsNow(c) \in Nat
      /\ handler[c].first \in Nat /\ handler[c].last \in Nat /\ handler[c].last \in 0..MaxEdits
      /\ since[c] <= handler[c].first /\ handler[c].first <= handler[c].last
      /\ handler[c].last <= EditsNow(c) /\ handler[c].first <= EditsNow(c)
      /\ handler[c].candidate.source = proposal[c].target
      /\ handler[c].first = since[c] => handler[c].hash = proposal[c].target
      /\ ReadsAgree(c)
  BY <1>1, ScannedClient DEF ScannedHandlers
<1>3. /\ handler[c].findings = RunFindings(MatchesIn[handler[c].scanned], {})
      /\ handler[c].scanned # handler[c].hash => handler[c].last - handler[c].first >= 2
  BY <1>1, <1>2 DEF ReadsAgree
<1>4. CASE handler[c].hash # handler[c].candidate.source
  <2>1. EditsNow(c) > since[c]
    BY <1>2, <1>4
  <2>2. Refer(c, "stuck")
    BY <1>4 DEF ReverifyCompare, Fail
  <2>3. QED
    BY <2>1, <2>2, ReferInv DEF Steps
<1>5. CASE handler[c].hash = handler[c].candidate.source /\ judged
  <2> DEFINE h == [handler[c] EXCEPT !.at = "signing"]
  <2>1. Internal(c, h)
    BY <1>5 DEF ReverifyCompare
  <2>2. Keeps(h, handler[c]) /\ h.at = "signing" /\ h.last = handler[c].last
    BY <1>2, GoesToPlace
  <2> HIDE DEF h
  <2>3. /\ h.scanned # h.hash => h.last - h.first >= 2
        /\ h.hash = h.candidate.source
        /\ handler[c].first <= h.last /\ h.last <= EditsNow(c)
    BY <1>2, <1>3, <1>5, <2>2 DEF Keeps
  <2>4. QED
    BY <1>1, <1>5, <2>1, <2>2, <2>3, GoesOnInv
<1>6. CASE handler[c].hash = handler[c].candidate.source /\ ~judged
  <2>1. Answer(c, JudgeDecide(handler[c].findings), "reference")
    BY <1>6 DEF ReverifyCompare
  <2>2. JudgeDecide(handler[c].findings) = DecisionFor(MatchesIn[handler[c].scanned])
    BY <1>3, ScanDecides
  <2>3. QED
    BY <1>1, <1>6, <2>1, <2>2, AnswerInv
<1>7. QED
  BY <1>4, <1>5, <1>6

LEMMA ReverifySignInv ==
    ASSUME IInv, NEW c \in Clients, ReverifySign(c)
    PROVE  IInv'
<1>1. handler[c].at = "signing" /\ handler[c].at \in Scanned
  BY DEF ReverifySign, Scanned, Hashed, Reverifying
<1>2. /\ handler[c] \in ScannedHandlers /\ handler[c].last \in 0..MaxEdits
      /\ handler[c].first <= handler[c].last /\ handler[c].last <= EditsNow(c)
      /\ ReadsAgree(c)
  BY <1>1, ScannedClient DEF ScannedHandlers
<1>3. /\ judged /\ handler[c].hash = handler[c].candidate.source
      /\ handler[c].scanned # handler[c].hash => handler[c].last - handler[c].first >= 2
  BY <1>1, <1>2 DEF ReadsAgree
<1>4. CASE Internal(c, [handler[c] EXCEPT !.at = "judging"])
  <2> DEFINE h == [handler[c] EXCEPT !.at = "judging"]
  <2>1. Internal(c, h)
    BY <1>4
  <2>2. Keeps(h, handler[c]) /\ h.at = "judging" /\ h.last = handler[c].last
    BY <1>2, GoesToPlace
  <2> HIDE DEF h
  <2>3. /\ h.scanned # h.hash => h.last - h.first >= 2
        /\ h.hash = h.candidate.source
        /\ handler[c].first <= h.last /\ h.last <= EditsNow(c)
    BY <1>2, <1>3, <2>2 DEF Keeps
  <2>4. QED
    BY <1>1, <1>3, <2>1, <2>2, <2>3, GoesOnInv
<1>5. CASE LeaveAt(c, "stuck") /\ unsigned' = unsigned \union {c}
  <2>1. unsigned \subseteq unsigned' /\ unsigned' \subseteq Clients /\ c \in unsigned'
    BY <1>5 DEF IInv, TypeOK
  <2>2. QED
    BY <1>3, <1>5, <2>1, LeaveInv DEF Steps
<1>6. QED
  BY <1>4, <1>5 DEF ReverifySign

LEMMA ReverifyJudgeInv ==
    ASSUME IInv, NEW c \in Clients, ReverifyJudge(c)
    PROVE  IInv'
<1>1. handler[c].at = "judging" /\ handler[c].at \in Scanned \ {"executing"}
  BY DEF ReverifyJudge, GatekeeperAnswers, GatekeeperFails, Scanned, Hashed, Reverifying
<1>2. step[c] = "reverify" /\ ReadsAgree(c)
  BY <1>1, ScannedClient
<1>3. /\ handler[c].findings = RunFindings(MatchesIn[handler[c].scanned], {})
      /\ handler[c].hash = handler[c].candidate.source
  BY <1>1, <1>2 DEF ReadsAgree
<1>4. CASE GatekeeperAnswers(c)
  <2>1. Answer(c, GoDecide(BundleResults(handler[c].findings)), "go")
    BY <1>4 DEF GatekeeperAnswers
  <2>2. GoDecide(BundleResults(handler[c].findings)) = DecisionFor(MatchesIn[handler[c].scanned])
    BY <1>3, ScanDecides
  <2>3. QED
    BY <1>1, <1>3, <2>1, <2>2, AnswerInv
<1>5. CASE GatekeeperFails(c)
  BY <1>2, <1>5, ReferInv DEF GatekeeperFails, Steps
<1>6. QED
  BY <1>4, <1>5 DEF ReverifyJudge

-----------------------------------------------------------------------------
(* What happens to server and clients.                                     *)

LEMMA LostInv ==
    ASSUME IInv, NEW c \in Clients, Lost(c)
    PROVE  IInv'
<1>1. /\ judged' = judged /\ version' = version /\ edits' = edits
      /\ gatekeeper' = gatekeeper
      /\ restarts' = restarts /\ losses' = losses + 1 /\ losses < MaxLosses
      /\ step' = step /\ scenario' = scenario /\ since' = since
      /\ proposal' = proposal /\ candidate' = candidate /\ epoch' = epoch
      /\ verdicts' = verdicts /\ unsigned' = unsigned /\ Enter(c, Idle)
  BY DEF Lost, Return, clients, history
<1>2. /\ handler' \in [Clients -> Handlers] /\ handler'[c] = Idle
      /\ \A d \in Clients \ {c} : handler'[d] = handler[d]
  BY <1>1, EnterTyped, IdleTyped DEF IInv
<1>3. /\ proposals \subseteq proposals' /\ candidates \subseteq candidates'
      /\ proposals' \subseteq Proposals /\ candidates' \subseteq Candidates
  <2>1. ClientInv(c) /\ scenario[c] \in Scenarios /\ handler[c] \in Handlers
    BY DEF IInv, TypeOK
  <2>2. handler[c].at = "proposing" =>
            [scenario |-> scenario[c], target |-> handler[c].target] \in Proposals
    BY <2>1, HandlerKinds DEF Proposals
  <2>3. handler[c].at = "rebuilding" =>
            [proposal |-> proposal[c], source |-> proposal[c].target] \in Candidates
    BY <2>1 DEF ClientInv, WaitsFor, Candidates, Proposals
  <2>4. proposals \subseteq proposals' /\ candidates \subseteq candidates'
    BY DEF Lost
  <2>5. proposals' \subseteq Proposals
    BY <2>2 DEF Lost, IInv, TypeOK
  <2>6. candidates' \subseteq Candidates
    BY <2>3 DEF Lost, IInv, TypeOK
  <2>7. QED
    BY <2>4, <2>5, <2>6
<1>4. losses' \in 0..MaxLosses
  BY <1>1, RemediationAssumption DEF IInv, TypeOK
<1>5. TypeOK'
  BY <1>1, <1>2, <1>3, <1>4 DEF IInv, TypeOK
<1>6. (\A s \in Scenarios : Stands(s)) /\ restarts <= restarts'
  BY <1>1, RemediationAssumption DEF IInv, TypeOK, Stands
<1>7. \A d \in Clients : ClientInv(d)'
  BY <1>1, <1>2, <1>5, <1>6, BystanderInv
<1>8. KnownUntilRestart'
  BY <1>1, <1>3, MemoryStays
<1>9. QED
  BY <1>1, <1>5, <1>7, <1>8, VerdictsStay DEF IInv

\* After a restart nothing that was given is said to be known.
LEMMA RestartInv ==
    ASSUME IInv, Restart
    PROVE  IInv'
<1>1. /\ judged' = judged /\ version' = version /\ edits' = edits /\ gatekeeper' = "up"
      /\ restarts' = restarts + 1 /\ restarts < MaxRestarts /\ losses' = losses
      /\ proposals' = {} /\ candidates' = {}
      /\ step' = step /\ scenario' = scenario /\ since' = since
      /\ proposal' = proposal /\ candidate' = candidate /\ epoch' = epoch
      /\ verdicts' = verdicts /\ unsigned' = unsigned
      /\ handler' = [c \in Clients |-> Idle]
  BY DEF Restart, clients, history
<1>2. restarts \in Nat /\ restarts' \in 0..MaxRestarts /\ restarts < restarts'
  BY <1>1, RemediationAssumption DEF IInv, TypeOK
<1>3. TypeOK'
  BY <1>1, <1>2, IdleTyped DEF IInv, TypeOK
<1>4. (\A s \in Scenarios : Stands(s)) /\ restarts <= restarts'
  BY <1>1, <1>2, RemediationAssumption DEF IInv, TypeOK, Stands
<1>5. \A d \in Clients : ClientInv(d)'
  BY <1>1, <1>3, <1>4, BystanderInv
<1>6. KnownUntilRestart'
  <2>1. \A c \in Clients : epoch[c].proposal # restarts' /\ epoch[c].candidate # restarts'
    BY <1>2, RemediationAssumption DEF IInv, TypeOK, ClientInv, GivenBefore
  <2>2. QED
    BY <1>1, <2>1 DEF KnownUntilRestart
<1>7. QED
  BY <1>1, <1>3, <1>5, <1>6, VerdictsStay DEF IInv

LEMMA EditTurns ==
    ASSUME TypeOK, NEW s \in Scenarios, Edit(s)
    PROVE  /\ version' \in [Scenarios -> Versions] /\ edits' \in [Scenarios -> 0..MaxEdits]
           /\ \A r \in Scenarios : Stands(r) \/ Turns(r)
<1>1. PICK v \in Versions \ {version[s]} : version' = [version EXCEPT ![s] = v]
  BY DEF Edit
<1>2. edits' = [edits EXCEPT ![s] = @ + 1] /\ edits[s] < MaxEdits
  BY DEF Edit
<1>3. version' \in [Scenarios -> Versions] /\ edits' \in [Scenarios -> 0..MaxEdits]
  BY <1>1, <1>2, RemediationAssumption DEF TypeOK
<1>4. Turns(s) /\ \A r \in Scenarios \ {s} : Stands(r)
  BY <1>1, <1>2 DEF TypeOK, Turns, Stands
<1>5. QED
  BY <1>3, <1>4

\* The Gatekeeper dies, a fixture is edited, or nothing happens.
LEMMA OutsideInv ==
    ASSUME IInv, GatekeeperDies \/ (\E s \in Edited : Edit(s)) \/ UNCHANGED vars
    PROVE  IInv'
<1>1. /\ judged' = judged /\ restarts' = restarts /\ losses' = losses
      /\ proposals' = proposals /\ candidates' = candidates /\ handler' = handler
      /\ step' = step /\ scenario' = scenario /\ since' = since
      /\ proposal' = proposal /\ candidate' = candidate /\ epoch' = epoch
      /\ verdicts' = verdicts /\ unsigned' = unsigned
  BY DEF GatekeeperDies, Edit, vars, world, server, clients, history
<1>2. gatekeeper' \in {"up", "down"}
  BY DEF GatekeeperDies, Edit, vars, world, IInv, TypeOK
<1>3. /\ version' \in [Scenarios -> Versions] /\ edits' \in [Scenarios -> 0..MaxEdits]
      /\ \A r \in Scenarios : Stands(r) \/ Turns(r)
  <2>1. CASE \E s \in Edited : Edit(s)
    <3>1. PICK s \in Edited : Edit(s)
      BY <2>1
    <3>2. s \in Scenarios
      BY RemediationAssumption
    <3>3. QED
      BY <3>1, <3>2, EditTurns DEF IInv
  <2>2. CASE version' = version /\ edits' = edits
    BY <2>2 DEF IInv, TypeOK, Stands
  <2>3. QED
    BY <2>1, <2>2 DEF GatekeeperDies, vars, world
<1>4. TypeOK'
  BY <1>1, <1>2, <1>3 DEF IInv, TypeOK
<1>5. restarts <= restarts'
  BY <1>1, RemediationAssumption DEF IInv, TypeOK
<1>6. \A d \in Clients : ClientInv(d)'
  BY <1>1, <1>3, <1>4, <1>5, BystanderInv
<1>7. KnownUntilRestart'
  BY <1>1, MemoryStays
<1>8. QED
  BY <1>1, <1>4, <1>6, <1>7, VerdictsStay DEF IInv

LEMMA NextInv == IInv /\ [Next]_vars => IInv'
<1> SUFFICES ASSUME IInv, [Next]_vars PROVE IInv'
  OBVIOUS
<1>1. ASSUME NEW c \in Clients, Serve(c)
      PROVE  IInv'
  BY <1>1, ProposeReadInv, ProposeStoreInv, RebuildLookupInv, RebuildStoreInv,
     ReverifyLookupInv, ReverifyHashInv, ReverifyScanInv, ReverifyExecuteInv,
     ReverifyCompareInv, ReverifySignInv, ReverifyJudgeInv DEF Serve
<1>2. ASSUME NEW c \in Clients, Lost(c)
      PROVE  IInv'
  BY <1>2, LostInv
<1>3. CASE Restart
  BY <1>3, RestartInv
<1>4. CASE GatekeeperDies \/ (\E s \in Edited : Edit(s)) \/ UNCHANGED vars
  BY <1>4, OutsideInv
<1>5. QED
  BY <1>1, <1>2, <1>3, <1>4 DEF Next

LEMMA RemediationInvariant == Spec => []IInv
BY InitInv, NextInv, PTL DEF Spec

-----------------------------------------------------------------------------
(* The theorems.                                                           *)

\* The dictionaries, the handlers and the clients have their types at every step
\* (remediation_service.py:69-200).
THEOREM RemediationTypeCorrect == Spec => []TypeOK
<1>1. IInv => TypeOK
  BY DEF IInv
<1>2. QED
  BY <1>1, RemediationInvariant, PTL

\* A verdict names the source that was rebuilt and says what the rules that match
\* the scanned content call for; the two are the same content unless the fixture was
\* edited at least twice between the handler's hashes, whatever other edits there
\* are (remediation_service.py:160-164, demo_runtime.py:57-62, demo.py:33-35).
THEOREM VerdictTheorem == Spec => []VerdictIsAboutTheCandidate
<1>1. IInv => VerdictIsAboutTheCandidate
  BY DEF IInv
<1>2. QED
  BY <1>1, RemediationInvariant, PTL

\* In judged mode no verdict but the Gatekeeper's is returned
\* (remediation_service.py:169-197).
THEOREM JudgedTheorem == Spec => []JudgedVerdictsAreTheGatekeepers
<1>1. IInv => JudgedVerdictsAreTheGatekeepers
  BY DEF IInv
<1>2. QED
  BY <1>1, RemediationInvariant, PTL

\* What a client was given is known until a restart, whatever other clients do
\* (remediation_service.py:69, 93, 123, 145).
THEOREM MemoryTheorem == Spec => []KnownUntilRestart
<1>1. IInv => KnownUntilRestart
  BY DEF IInv
<1>2. QED
  BY <1>1, RemediationInvariant, PTL

\* No client is left without a next_action unless the fixture was edited after it
\* proposed or, in judged mode, its evidence could not be signed
\* (remediation_service.py:112, 162, 170-173; demo.py:35).
THEOREM StuckTheorem == Spec => []StuckOnlyOnChange
<1>1. IInv => StuckOnlyOnChange
  BY DEF IInv, ClientInv, StuckWithReason, StuckOnlyOnChange, EditsNow
<1>2. QED
  BY <1>1, RemediationInvariant, PTL
-----------------------------------------------------------------------------
(* Progress: what ClientsFinish rests on besides fairness.                 *)

\* The steps a request under way has left, and the calls that come after it.
StepsOfRequest(at) ==
    CASE at = "proposing" -> 10
      [] at = "rebuilding" -> 8
      [] at = "hashing" -> 6
      [] at = "scanning" -> 5
      [] at = "executing" -> 4
      [] at = "comparing" -> 3
      [] at = "signing" -> 2
      [] at = "judging" -> 1

\* Those of a client between two requests: what the server does not know any more
\* has to be made again first.
ToRebuild(c) == IF proposal[c] \in proposals THEN 0 ELSE 3

ToReverify(c) == IF candidate[c] \in candidates THEN 0 ELSE 3 + ToRebuild(c)

StepsOfClient(s, toRebuild, toReverify) ==
    CASE s = "propose" -> 11
      [] s = "rebuild" -> 9 + toRebuild
      [] s = "reverify" -> 7 + toReverify
      [] OTHER -> 0

StepsFrom(at, s, toRebuild, toReverify) ==
    IF at = "idle" THEN StepsOfClient(s, toRebuild, toReverify) ELSE StepsOfRequest(at)

StepsNow(c) == StepsFrom(handler[c].at, step[c], ToRebuild(c), ToReverify(c))

\* With what the restarts and the losses to come may cost.
StepsLeft(c) == 14 * (MaxRestarts - restarts) + 13 * (MaxLosses - losses) + StepsNow(c)

\* Nobody takes a client back, and its own steps take it on.
GoesForward(c) ==
    /\ StepsLeft(c)' <= StepsLeft(c)
    /\ Serve(c) => StepsLeft(c)' < StepsLeft(c)

\* The one thing that sends a client round in circles is a judgement that fails: it
\* looks its candidate up once more.
GoesRound(c) == GatekeeperFails(c) /\ StepsLeft(c)' <= StepsLeft(c) + 12

Places == Reverifying \union {"idle", "proposing", "rebuilding"}

LEMMA StepsFromTyped ==
    ASSUME NEW at \in Places, NEW s \in Steps, NEW b \in 0..3, NEW v \in 0..6
    PROVE  /\ StepsFrom(at, s, b, v) \in 0..13
           /\ StepsFrom(at, s, b, v) = 0 => s \in {"done", "stuck"}
<1>1. CASE at = "idle"
  <2>1. StepsFrom(at, s, b, v) = StepsOfClient(s, b, v)
    BY <1>1 DEF StepsFrom
  <2>2. /\ StepsOfClient(s, b, v) \in 0..13
        /\ StepsOfClient(s, b, v) = 0 => s \in {"done", "stuck"}
    BY DEF StepsOfClient, Steps
  <2>3. QED
    BY <2>1, <2>2
<1>2. CASE at # "idle"
  <2>1. StepsFrom(at, s, b, v) = StepsOfRequest(at)
    BY <1>2 DEF StepsFrom
  <2>2. StepsOfRequest(at) \in 1..10
    BY <1>2 DEF StepsOfRequest, Places, Reverifying
  <2>3. QED
    BY <2>1, <2>2
<1>3. QED
  BY <1>1, <1>2

LEMMA StepsTyped ==
    TypeOK => \A c \in Clients :
        /\ handler[c].at \in Places /\ step[c] \in Steps
        /\ ToRebuild(c) \in 0..3 /\ ToReverify(c) \in 0..6
        /\ MaxRestarts - restarts \in Nat /\ MaxLosses - losses \in Nat
<1> SUFFICES ASSUME TypeOK, NEW c \in Clients
             PROVE  /\ handler[c].at \in Places /\ step[c] \in Steps
                    /\ ToRebuild(c) \in 0..3 /\ ToReverify(c) \in 0..6
                    /\ MaxRestarts - restarts \in Nat /\ MaxLosses - losses \in Nat
  OBVIOUS
<1>1. handler[c].at \in Places
  <2>1. handler[c] \in Handlers
    BY DEF TypeOK
  <2>2. QED
    BY <2>1 DEF Handlers, Idle, Reverifying, Places
<1>2. step[c] \in Steps
  BY DEF TypeOK
<1>3. ToRebuild(c) \in 0..3 /\ ToReverify(c) \in 0..6
  BY DEF ToRebuild, ToReverify
<1>4. MaxRestarts - restarts \in Nat /\ MaxLosses - losses \in Nat
  BY RemediationAssumption DEF TypeOK
<1>5. QED
  BY <1>1, <1>2, <1>3, <1>4

\* Steps are a number, and none are left only for a client that is through.
LEMMA StepsLeftTyped ==
    ASSUME TypeOK, NEW c \in Clients
    PROVE  StepsLeft(c) \in Nat /\ (StepsLeft(c) = 0 => step[c] \in {"done", "stuck"})
<1> DEFINE more == MaxRestarts - restarts
           lost == MaxLosses - losses
<1>1. more \in Nat /\ lost \in Nat
  BY StepsTyped
<1>2. StepsNow(c) \in 0..13 /\ (StepsNow(c) = 0 => step[c] \in {"done", "stuck"})
  BY StepsTyped, StepsFromTyped DEF StepsNow
<1>3. StepsLeft(c) = 14 * more + 13 * lost + StepsNow(c)
  BY DEF StepsLeft
<1> HIDE DEF more, lost
<1>4. QED
  BY <1>1, <1>2, <1>3

\* The same of the next state.
LEMMA StepsTypedNext ==
    ASSUME TypeOK', NEW c \in Clients
    PROVE  StepsNow(c)' \in 0..13
<1>1. handler'[c].at \in Places /\ step'[c] \in Steps
  <2>1. handler'[c] \in Handlers /\ step'[c] \in Steps
    BY DEF TypeOK
  <2>2. QED
    BY <2>1 DEF Handlers, Idle, Reverifying, Places
<1>2. ToRebuild(c)' \in 0..3 /\ ToReverify(c)' \in 0..6
  BY DEF ToRebuild, ToReverify
<1>3. QED
  BY <1>1, <1>2, StepsFromTyped DEF StepsNow

\* A step that costs no restart and no loss.
LEMMA FewerNow ==
    ASSUME TypeOK, TypeOK', NEW c \in Clients, restarts' = restarts, losses' = losses
    PROVE  /\ StepsNow(c)' <= StepsNow(c) => StepsLeft(c)' <= StepsLeft(c)
           /\ StepsNow(c)' < StepsNow(c) => StepsLeft(c)' < StepsLeft(c)
<1> DEFINE spent == 14 * (MaxRestarts - restarts) + 13 * (MaxLosses - losses)
<1>1. spent \in Int
  BY RemediationAssumption DEF TypeOK
<1>2. StepsNow(c) \in Int /\ StepsNow(c)' \in Int
  <2>1. StepsNow(c) \in 0..13
    BY StepsTyped, StepsFromTyped DEF StepsNow
  <2>2. StepsNow(c)' \in 0..13
    BY StepsTypedNext
  <2>3. QED
    BY <2>1, <2>2
<1>3. StepsLeft(c) = spent + StepsNow(c) /\ StepsLeft(c)' = spent + StepsNow(c)'
  BY DEF StepsLeft
<1> HIDE DEF spent
<1>4. QED
  BY <1>1, <1>2, <1>3

\* What the steps come to at each place: of a client between its calls,
LEMMA StepsAtRest ==
    ASSUME NEW b, NEW v
    PROVE  /\ StepsFrom("idle", "propose", b, v) = 11
           /\ StepsFrom("idle", "rebuild", b, v) = 9 + b
           /\ StepsFrom("idle", "reverify", b, v) = 7 + v
           /\ StepsFrom("idle", "done", b, v) = 0
           /\ StepsFrom("idle", "stuck", b, v) = 0
BY DEF StepsFrom, StepsOfClient

\* and of one whose request is at work.
LEMMA StepsAt ==
    ASSUME NEW s, NEW b, NEW v
    PROVE  /\ StepsFrom("proposing", s, b, v) = 10 /\ StepsFrom("rebuilding", s, b, v) = 8
           /\ StepsFrom("hashing", s, b, v) = 6 /\ StepsFrom("scanning", s, b, v) = 5
           /\ StepsFrom("executing", s, b, v) = 4 /\ StepsFrom("comparing", s, b, v) = 3
           /\ StepsFrom("signing", s, b, v) = 2 /\ StepsFrom("judging", s, b, v) = 1
BY DEF StepsFrom, StepsOfRequest

\* The dictionaries of the server only grow between restarts.
LEMMA OthersGoOn ==
    ASSUME TypeOK, NEW d \in Clients,
           handler'[d] = handler[d], step'[d] = step[d],
           proposal'[d] = proposal[d], candidate'[d] = candidate[d],
           proposals \subseteq proposals', candidates \subseteq candidates'
    PROVE  StepsNow(d)' <= StepsNow(d)
<1>1. ToRebuild(d)' <= ToRebuild(d) /\ ToReverify(d)' <= ToReverify(d)
  BY DEF ToRebuild, ToReverify
<1>2. ASSUME NEW at \in Places, NEW s \in Steps, NEW b \in 0..3, NEW v \in 0..6,
             NEW x \in 0..3, NEW y \in 0..6, x <= b, y <= v
      PROVE  StepsFrom(at, s, x, y) <= StepsFrom(at, s, b, v)
  <2>1. CASE at = "idle"
    <3>1. StepsOfClient(s, x, y) <= StepsOfClient(s, b, v)
      BY <1>2 DEF StepsOfClient, Steps
    <3>2. QED
      BY <2>1, <3>1 DEF StepsFrom
  <2>2. CASE at # "idle"
    <3>1. StepsFrom(at, s, x, y) = StepsFrom(at, s, b, v)
      BY <2>2 DEF StepsFrom
    <3>2. StepsFrom(at, s, b, v) \in 0..13
      BY StepsFromTyped
    <3>3. QED
      BY <3>1, <3>2
  <2>3. QED
    BY <2>1, <2>2
<1>3. /\ handler[d].at \in Places /\ step[d] \in Steps
      /\ ToRebuild(d) \in 0..3 /\ ToReverify(d) \in 0..6
      /\ ToRebuild(d)' \in 0..3 /\ ToReverify(d)' \in 0..6
  <2>1. ToRebuild(d)' \in 0..3 /\ ToReverify(d)' \in 0..6
    BY DEF ToRebuild, ToReverify
  <2>2. QED
    BY <2>1, StepsTyped
<1>4. StepsFrom(handler[d].at, step[d], ToRebuild(d)', ToReverify(d)')
        <= StepsFrom(handler[d].at, step[d], ToRebuild(d), ToReverify(d))
  BY <1>1, <1>2, <1>3
<1>5. QED
  BY <1>4 DEF StepsNow

\* A client is sent to the call that comes next, or left.
LEMMA LeaveGoesOn ==
    ASSUME TypeOK, NEW c \in Clients, NEW s \in Steps, LeaveAt(c, s)
    PROVE  /\ StepsNow(c)' = StepsFrom("idle", s, ToRebuild(c), ToReverify(c))
           /\ \A d \in Clients \ {c} : handler'[d] = handler[d] /\ step'[d] = step[d]
<1>1. handler'[c].at = "idle" /\ \A d \in Clients \ {c} : handler'[d] = handler[d]
  BY IdleTyped, EnterTyped DEF LeaveAt, Return
<1>2. step'[c] = s /\ \A d \in Clients \ {c} : step'[d] = step[d]
  BY DEF LeaveAt, GoTo, TypeOK
<1>3. ToRebuild(c)' = ToRebuild(c) /\ ToReverify(c)' = ToReverify(c)
  BY DEF LeaveAt, server, ToRebuild, ToReverify
<1>4. QED
  BY <1>1, <1>2, <1>3 DEF StepsNow

\* A step inside a handler.
LEMMA InternalGoesOn ==
    ASSUME TypeOK, NEW c \in Clients, NEW h, Internal(c, h)
    PROVE  /\ StepsNow(c)' = StepsFrom(h.at, step[c], ToRebuild(c), ToReverify(c))
           /\ \A d \in Clients \ {c} : handler'[d] = handler[d] /\ step'[d] = step[d]
<1>1. handler'[c] = h /\ \A d \in Clients \ {c} : handler'[d] = handler[d]
  BY DEF Internal, Enter, TypeOK
<1>2. step' = step
  BY DEF Internal, clients
<1>3. ToRebuild(c)' = ToRebuild(c) /\ ToReverify(c)' = ToReverify(c)
  BY DEF Internal, server, clients, ToRebuild, ToReverify
<1>4. QED
  BY <1>1, <1>2, <1>3 DEF StepsNow

\* The kinds of steps a request makes: it sends the client elsewhere, goes on
\* inside, or gives an answer; or it stores something.
Turned(c) ==
    \/ \E s \in Steps : LeaveAt(c, s)
    \/ \E h : Internal(c, h)
    \/ \E decision, by : Answer(c, decision, by)

LEMMA ServeKinds ==
    ASSUME NEW c \in Clients, Serve(c)
    PROVE  ProposeRead(c) \/ ProposeStore(c) \/ (RebuildStore(c) /\ ~Fail(c)) \/ Turned(c)
<1>1. Steps = {"propose", "rebuild", "reverify", "done", "stuck"}
  BY DEF Steps
<1>2. ASSUME NEW s \in Steps PROVE Refer(c, s) => Turned(c)
  BY DEF Refer, Turned
<1>3. CASE RebuildLookup(c)
  <2>1. Refer(c, "propose") \/ Internal(c, [at |-> "rebuilding"])
    BY <1>3 DEF RebuildLookup, Internal
  <2>2. QED
    BY <1>1, <1>2, <2>1 DEF Turned
<1>4. CASE ReverifyLookup(c)
  <2>1. Refer(c, "rebuild") \/ Internal(c, [at |-> "hashing", candidate |-> candidate[c]])
    BY <1>4 DEF ReverifyLookup, Internal
  <2>2. QED
    BY <1>1, <1>2, <2>1 DEF Turned
<1>5. CASE ReverifyHash(c)
  BY <1>5 DEF ReverifyHash, Turned
<1>6. CASE ReverifyScan(c)
  BY <1>6 DEF ReverifyScan, Turned
<1>7. CASE ReverifyExecute(c)
  BY <1>1, <1>2, <1>7 DEF ReverifyExecute, Fail, Turned
<1>8. CASE ReverifyCompare(c)
  BY <1>1, <1>2, <1>8 DEF ReverifyCompare, Fail, Turned
<1>9. CASE ReverifySign(c)
  BY <1>1, <1>9 DEF ReverifySign, Turned
<1>10. CASE ReverifyJudge(c)
  BY <1>1, <1>2, <1>10 DEF ReverifyJudge, GatekeeperAnswers, GatekeeperFails, Turned
<1>11. Fail(c) => Turned(c)
  BY <1>1, <1>2 DEF Fail
<1>12. QED
  BY <1>3, <1>4, <1>5, <1>6, <1>7, <1>8, <1>9, <1>10, <1>11 DEF Serve

\* What a request of one client leaves alone.
LEMMA ServeAlone ==
    ASSUME TypeOK, NEW c \in Clients, Serve(c)
    PROVE  /\ restarts' = restarts /\ losses' = losses
           /\ proposals \subseteq proposals' /\ candidates \subseteq candidates'
           /\ \A d \in Clients \ {c} :
                 /\ handler'[d] = handler[d] /\ step'[d] = step[d]
                 /\ proposal'[d] = proposal[d] /\ candidate'[d] = candidate[d]
<1> DEFINE Alone ==
      /\ restarts' = restarts /\ losses' = losses
      /\ proposals \subseteq proposals' /\ candidates \subseteq candidates'
      /\ \A d \in Clients \ {c} :
            /\ handler'[d] = handler[d] /\ step'[d] = step[d]
            /\ proposal'[d] = proposal[d] /\ candidate'[d] = candidate[d]
<1>1. ASSUME NEW s \in Steps, LeaveAt(c, s) PROVE Alone
  BY <1>1, LeaveGoesOn DEF LeaveAt, world, server
<1>2. ASSUME NEW h, Internal(c, h) PROVE Alone
  BY <1>2, InternalGoesOn DEF Internal, world, server, clients
<1>3. ASSUME NEW decision, NEW by, Answer(c, decision, by) PROVE Alone
  BY <1>3 DEF Answer, Return, Enter, GoTo, world, server, TypeOK
<1>4. ASSUME ProposeRead(c) PROVE Alone
  BY <1>4 DEF ProposeRead, Enter, world, server, TypeOK
<1>5. ASSUME ProposeStore(c) PROVE Alone
  BY <1>5 DEF ProposeStore, Return, Enter, GoTo, world, TypeOK
<1>6. ASSUME RebuildStore(c), ~Fail(c) PROVE Alone
  BY <1>6 DEF RebuildStore, Return, Enter, GoTo, world, TypeOK
<1> HIDE DEF Alone
<1>7. ASSUME Turned(c) PROVE Alone
  BY <1>1, <1>2, <1>3, <1>7 DEF Turned
<1>8. Alone
  BY <1>4, <1>5, <1>6, <1>7, ServeKinds
<1>9. QED
  BY <1>8 DEF Alone

\* A request takes its client on, unless its judgement fails.
LEMMA ServeGoesOn ==
    ASSUME IInv, NEW c \in Clients, Serve(c), ~GatekeeperFails(c)
    PROVE  StepsNow(c)' < StepsNow(c)
<1> DEFINE b == ToRebuild(c)
           v == ToReverify(c)
<1>1. TypeOK /\ WaitsFor(c)
  BY DEF IInv, ClientInv
<1>2. b \in 0..3 /\ v \in 0..6
  BY <1>1, StepsTyped
<1>3. StepsNow(c) = StepsFrom(handler[c].at, step[c], b, v)
  BY DEF StepsNow
<1>4. Idle.at = "idle" /\ {"propose", "rebuild", "reverify", "stuck"} \subseteq Steps
  BY DEF Idle, Steps
<1>5. /\ proposal[c] \notin proposals => b = 3
      /\ candidate[c] \notin candidates => v = 3 + b
  BY DEF ToRebuild, ToReverify
<1> HIDE DEF b, v
<1>6. ASSUME NEW s \in Steps, LeaveAt(c, s)
      PROVE  StepsNow(c)' = StepsFrom("idle", s, b, v)
  BY <1>1, <1>6, LeaveGoesOn DEF b, v
<1>7. ASSUME NEW h, Internal(c, h)
      PROVE  StepsNow(c)' = StepsFrom(h.at, step[c], b, v)
  BY <1>1, <1>7, InternalGoesOn DEF b, v
<1>8. ASSUME Fail(c) PROVE StepsNow(c)' = 0
  BY <1>4, <1>6, <1>8, StepsAtRest DEF Fail, Refer
<1>9. CASE ProposeRead(c)
  <2>1. StepsNow(c) = 11
    <3>1. handler[c].at = "idle" /\ step[c] = "propose"
      BY <1>4, <1>9 DEF ProposeRead
    <3>2. QED
      BY <1>3, <3>1, StepsAtRest
  <2>2. handler'[c].at = "proposing"
    BY <1>1, <1>9 DEF ProposeRead, Enter, TypeOK
  <2>3. StepsNow(c)' = 10
    BY <2>2, StepsAt DEF StepsNow
  <2>4. QED
    BY <2>1, <2>3
<1>10. CASE ProposeStore(c)
  <2>1. StepsNow(c) = 10
    <3>1. handler[c].at = "proposing"
      BY <1>10 DEF ProposeStore
    <3>2. QED
      BY <1>3, <3>1, StepsAt
  <2>2. handler'[c].at = "idle" /\ step'[c] = "rebuild"
    BY <1>1, <1>4, <1>10 DEF ProposeStore, Return, Enter, GoTo, TypeOK
  <2>3. proposal'[c] \in proposals'
    BY <1>1, <1>10 DEF ProposeStore, TypeOK
  <2>4. StepsNow(c)' = 9
    BY <2>2, <2>3, StepsAtRest DEF StepsNow, ToRebuild
  <2>5. QED
    BY <2>1, <2>4
<1>11. CASE RebuildLookup(c)
  <2>1. StepsNow(c) = 9 + b
    <3>1. handler[c].at = "idle" /\ step[c] = "rebuild"
      BY <1>4, <1>11 DEF RebuildLookup
    <3>2. QED
      BY <1>3, <3>1, StepsAtRest
  <2>2. CASE proposal[c] \notin proposals
    <3>1. LeaveAt(c, "propose")
      BY <1>11, <2>2 DEF RebuildLookup, Refer
    <3>2. StepsNow(c)' = 11
      BY <1>4, <1>6, <3>1, StepsAtRest
    <3>3. QED
      BY <1>5, <2>1, <2>2, <3>2
  <2>3. CASE proposal[c] \in proposals
    <3>1. Internal(c, [at |-> "rebuilding"])
      BY <1>11, <2>3 DEF RebuildLookup, Internal
    <3>2. StepsNow(c)' = 8
      BY <1>7, <3>1, StepsAt
    <3>3. QED
      BY <1>2, <2>1, <3>2
  <2>4. QED
    BY <2>2, <2>3
<1>12. CASE RebuildStore(c)
  <2>1. StepsNow(c) = 8
    <3>1. handler[c].at = "rebuilding"
      BY <1>12 DEF RebuildStore
    <3>2. QED
      BY <1>3, <3>1, StepsAt
  <2>2. CASE ~Fail(c)
    <3>1. handler'[c].at = "idle" /\ step'[c] = "reverify"
      BY <1>1, <1>4, <1>12, <2>2 DEF RebuildStore, Return, Enter, GoTo, TypeOK
    <3>2. candidate'[c] \in candidates'
      BY <1>1, <1>12, <2>2 DEF RebuildStore, TypeOK
    <3>3. ToReverify(c)' = 0
      BY <3>2 DEF ToReverify
    <3>4. StepsNow(c)' = StepsFrom("idle", "reverify", ToRebuild(c)', 0)
      BY <3>1, <3>3 DEF StepsNow
    <3>5. QED
      BY <2>1, <3>4, StepsAtRest
  <2>3. QED
    BY <1>8, <2>1, <2>2
<1>13. CASE ReverifyLookup(c)
  <2>1. StepsNow(c) = 7 + v
    <3>1. handler[c].at = "idle" /\ step[c] = "reverify"
      BY <1>4, <1>13 DEF ReverifyLookup
    <3>2. QED
      BY <1>3, <3>1, StepsAtRest
  <2>2. CASE candidate[c] \notin candidates
    <3>1. LeaveAt(c, "rebuild")
      BY <1>13, <2>2 DEF ReverifyLookup, Refer
    <3>2. StepsNow(c)' = 9 + b
      BY <1>4, <1>6, <3>1, StepsAtRest
    <3>3. QED
      BY <1>2, <1>5, <2>1, <2>2, <3>2
  <2>3. CASE candidate[c] \in candidates
    <3>1. Internal(c, [at |-> "hashing", candidate |-> candidate[c]])
      BY <1>13, <2>3 DEF ReverifyLookup, Internal
    <3>2. StepsNow(c)' = 6
      BY <1>7, <3>1, StepsAt
    <3>3. QED
      BY <1>2, <2>1, <3>2
  <2>4. QED
    BY <2>2, <2>3
<1>14. CASE ReverifyHash(c)
  <2>1. StepsNow(c) = 6 /\ StepsNow(c)' = 5
    BY <1>3, <1>7, <1>14, StepsAt DEF ReverifyHash
  <2>2. QED
    BY <2>1
<1>15. CASE ReverifyScan(c)
  <2>1. StepsNow(c) = 5 /\ StepsNow(c)' = 4
    BY <1>3, <1>7, <1>15, StepsAt DEF ReverifyScan
  <2>2. QED
    BY <2>1
<1>16. CASE ReverifyExecute(c)
  <2>1. StepsNow(c) = 4
    <3>1. handler[c].at = "executing"
      BY <1>16 DEF ReverifyExecute
    <3>2. QED
      BY <1>3, <3>1, StepsAt
  <2>2. CASE ~Fail(c)
    <3> DEFINE h == [handler[c] EXCEPT !.at = "comparing", !.last = edits[scenario[c]]]
    <3>1. h.at = "comparing"
      <4>1. handler[c].at \in Scanned
        BY <1>16 DEF ReverifyExecute, Scanned, Hashed, Reverifying
      <4>2. handler[c] \in ScannedHandlers
        BY <4>1, ScannedClient
      <4>3. QED
        BY <4>2 DEF ScannedHandlers
    <3>2. Internal(c, h)
      BY <1>16, <2>2 DEF ReverifyExecute
    <3> HIDE DEF h
    <3>3. StepsNow(c)' = 3
      BY <1>7, <3>1, <3>2, StepsAt
    <3>4. QED
      BY <2>1, <3>3
  <2>3. QED
    BY <1>8, <2>1, <2>2
<1>17. ASSUME NEW decision, NEW by, Answer(c, decision, by) PROVE StepsNow(c)' = 0
  <2>1. handler'[c].at = "idle" /\ step'[c] = "done"
    BY <1>1, <1>4, <1>17 DEF Answer, Return, Enter, GoTo, TypeOK
  <2>2. QED
    BY <2>1, StepsAtRest DEF StepsNow
<1>18. CASE ReverifyCompare(c)
  <2>1. StepsNow(c) = 3
    <3>1. handler[c].at = "comparing"
      BY <1>18 DEF ReverifyCompare
    <3>2. QED
      BY <1>3, <3>1, StepsAt
  <2>2. CASE Internal(c, [handler[c] EXCEPT !.at = "signing"])
    <3> DEFINE h == [handler[c] EXCEPT !.at = "signing"]
    <3>1. h.at = "signing"
      <4>1. handler[c].at \in Scanned
        BY <1>18 DEF ReverifyCompare, Scanned, Hashed, Reverifying
      <4>2. handler[c] \in ScannedHandlers
        BY <4>1, ScannedClient
      <4>3. QED
        BY <4>2 DEF ScannedHandlers
    <3>2. Internal(c, h)
      BY <2>2
    <3> HIDE DEF h
    <3>3. StepsNow(c)' = 2
      BY <1>7, <3>1, <3>2, StepsAt
    <3>4. QED
      BY <2>1, <3>3
  <2>3. QED
    BY <1>8, <1>17, <1>18, <2>1, <2>2 DEF ReverifyCompare
<1>19. CASE ReverifySign(c)
  <2>1. StepsNow(c) = 2
    <3>1. handler[c].at = "signing"
      BY <1>19 DEF ReverifySign
    <3>2. QED
      BY <1>3, <3>1, StepsAt
  <2>2. CASE Internal(c, [handler[c] EXCEPT !.at = "judging"])
    <3> DEFINE h == [handler[c] EXCEPT !.at = "judging"]
    <3>1. h.at = "judging"
      <4>1. handler[c].at \in Scanned
        BY <1>19 DEF ReverifySign, Scanned, Hashed, Reverifying
      <4>2. handler[c] \in ScannedHandlers
        BY <4>1, ScannedClient
      <4>3. QED
        BY <4>2 DEF ScannedHandlers
    <3>2. Internal(c, h)
      BY <2>2
    <3> HIDE DEF h
    <3>3. StepsNow(c)' = 1
      BY <1>7, <3>1, <3>2, StepsAt
    <3>4. QED
      BY <2>1, <3>3
  <2>3. CASE LeaveAt(c, "stuck")
    <3>1. StepsNow(c)' = 0
      BY <1>4, <1>6, <2>3, StepsAtRest
    <3>2. QED
      BY <2>1, <3>1
  <2>4. QED
    BY <1>19, <2>2, <2>3 DEF ReverifySign
<1>20. CASE ReverifyJudge(c)
  <2>1. handler[c].at = "judging" /\ GatekeeperAnswers(c)
    BY <1>20 DEF ReverifyJudge, GatekeeperAnswers
  <2>2. StepsNow(c) = 1
    BY <1>3, <2>1, StepsAt
  <2>3. StepsNow(c)' = 0
    BY <1>17, <2>1 DEF GatekeeperAnswers
  <2>4. QED
    BY <2>2, <2>3
<1>21. QED
  BY <1>9, <1>10, <1>11, <1>12, <1>13, <1>14, <1>15, <1>16, <1>18, <1>19, <1>20 DEF Serve

\* A lost response costs less than a loss is counted for, a restart less than a
\* restart.
LEMMA MishapsAreCounted ==
    ASSUME TypeOK, TypeOK', NEW d \in Clients,
           \/ restarts' = restarts + 1 /\ losses' = losses
           \/ restarts' = restarts /\ losses' = losses + 1 /\ StepsNow(d)' <= StepsNow(d) + 12
    PROVE  StepsLeft(d)' < StepsLeft(d)
<1> DEFINE R == restarts
           L == losses
           n == StepsNow(d)
           m == StepsNow(d)'
<1>1. n \in 0..13
  BY StepsTyped, StepsFromTyped DEF StepsNow
<1>2. m \in 0..13
  BY StepsTypedNext
<1>3. MaxRestarts \in Int /\ MaxLosses \in Int /\ R \in Int /\ L \in Int
  BY RemediationAssumption DEF TypeOK
<1>4. /\ StepsLeft(d) = 14 * (MaxRestarts - R) + 13 * (MaxLosses - L) + n
      /\ StepsLeft(d)' = 14 * (MaxRestarts - restarts') + 13 * (MaxLosses - losses') + m
  BY DEF StepsLeft
<1> HIDE DEF n, m
<1>5. CASE restarts' = R + 1 /\ losses' = L
  <2>1. StepsLeft(d)' = 14 * (MaxRestarts - (R + 1)) + 13 * (MaxLosses - L) + m
    BY <1>4, <1>5
  <2> HIDE DEF R, L
  <2>2. QED
    BY <1>1, <1>2, <1>3, <1>4, <2>1
<1>6. CASE restarts' = R /\ losses' = L + 1 /\ m <= n + 12
  <2>1. StepsLeft(d)' = 14 * (MaxRestarts - R) + 13 * (MaxLosses - (L + 1)) + m
    BY <1>4, <1>6
  <2> HIDE DEF R, L
  <2>2. QED
    BY <1>1, <1>2, <1>3, <1>4, <1>6, <2>1
<1>7. QED
  BY <1>5, <1>6 DEF n, m

LEMMA LostGoesOn ==
    ASSUME IInv, TypeOK', NEW c \in Clients, Lost(c), NEW d \in Clients
    PROVE  StepsLeft(d)' < StepsLeft(d)
<1>1. TypeOK /\ WaitsFor(c)
  BY DEF IInv, ClientInv
<1>2. /\ restarts' = restarts /\ losses' = losses + 1
      /\ step' = step /\ proposal' = proposal /\ candidate' = candidate
      /\ proposals \subseteq proposals' /\ candidates \subseteq candidates'
  BY DEF Lost, clients
<1>3. handler'[c].at = "idle" /\ \A e \in Clients \ {c} : handler'[e] = handler[e]
  BY <1>1, EnterTyped, IdleTyped DEF Lost, Return
<1>4. CASE d = c
  <2>1. StepsNow(c)' \in 0..13
    BY StepsTypedNext
  <2>2. StepsNow(c) \in 1..10
    <3>1. handler[c].at # "idle" /\ handler[c].at \in Places
      <4>1. handler[c] \in Handlers /\ handler[c] # Idle
        BY <1>1 DEF Lost, TypeOK
      <4>2. QED
        BY <4>1 DEF Handlers, Idle, Reverifying, Places
    <3>2. StepsNow(c) = StepsOfRequest(handler[c].at)
      BY <3>1 DEF StepsNow, StepsFrom
    <3>3. QED
      BY <3>1, <3>2 DEF StepsOfRequest, Places, Reverifying
  <2>3. StepsNow(c)' <= StepsNow(c) + 12
    BY <2>1, <2>2
  <2>4. QED
    BY <1>1, <1>2, <1>4, <2>3, MishapsAreCounted
<1>5. CASE d # c
  <2>1. StepsNow(d)' <= StepsNow(d)
    BY <1>1, <1>2, <1>3, <1>5, OthersGoOn
  <2>2. StepsNow(d) \in 0..13
    BY <1>1, StepsTyped, StepsFromTyped DEF StepsNow
  <2>3. StepsNow(d)' \in 0..13
    BY StepsTypedNext
  <2>4. StepsNow(d)' <= StepsNow(d) + 12
    BY <2>1, <2>2, <2>3
  <2>5. QED
    BY <1>1, <1>2, <2>4, MishapsAreCounted
<1>6. QED
  BY <1>4, <1>5

\* A judgement that fails sends its client, and nobody else, round once more.
LEMMA FailureGoesRound ==
    ASSUME IInv, TypeOK', NEW c \in Clients, GatekeeperFails(c)
    PROVE  GoesRound(c)
<1>1. TypeOK
  BY DEF IInv
<1>2. StepsNow(c) = 1
  <2>1. handler[c].at = "judging"
    BY DEF GatekeeperFails
  <2>2. QED
    BY <2>1, StepsAt DEF StepsNow
<1>3. StepsNow(c)' \in 0..13
  BY StepsTypedNext
<1>4. restarts' = restarts /\ losses' = losses
  BY DEF GatekeeperFails, Refer, LeaveAt, world
<1> DEFINE spent == 14 * (MaxRestarts - restarts) + 13 * (MaxLosses - losses)
<1>5. spent \in Int
  BY <1>1, RemediationAssumption DEF TypeOK
<1>6. StepsLeft(c) = spent + StepsNow(c) /\ StepsLeft(c)' = spent + StepsNow(c)'
  BY <1>4 DEF StepsLeft
<1> HIDE DEF spent
<1>7. StepsLeft(c)' <= StepsLeft(c) + 12
  BY <1>2, <1>3, <1>5, <1>6
<1>8. QED
  BY <1>7 DEF GoesRound

\* No other step takes a client back, whoever makes it.
LEMMA NobodyGoesBack ==
    ASSUME IInv, TypeOK', [Next]_vars, NEW d \in Clients, ~GatekeeperFails(d)
    PROVE  StepsLeft(d)' <= StepsLeft(d)
<1>1. TypeOK /\ StepsLeft(d) \in Nat
  BY StepsLeftTyped DEF IInv
<1>2. StepsLeft(d)' < StepsLeft(d) => StepsLeft(d)' <= StepsLeft(d)
  <2>1. StepsNow(d)' \in 0..13
    BY StepsTypedNext
  <2>2. /\ restarts' \in Int /\ losses' \in Int
        /\ MaxRestarts \in Int /\ MaxLosses \in Int
    BY RemediationAssumption DEF TypeOK
  <2>3. StepsLeft(d)' = 14 * (MaxRestarts - restarts') + 13 * (MaxLosses - losses')
                          + StepsNow(d)'
    BY DEF StepsLeft
  <2>4. StepsLeft(d)' \in Int
    BY <2>1, <2>2, <2>3
  <2>5. QED
    BY <1>1, <2>4
<1>3. ASSUME NEW c \in Clients, Serve(c) PROVE StepsLeft(d)' <= StepsLeft(d)
  <2>1. restarts' = restarts /\ losses' = losses
    BY <1>1, <1>3, ServeAlone
  <2>2. CASE d = c
    BY <1>1, <1>2, <1>3, <2>1, <2>2, ServeGoesOn, FewerNow
  <2>3. CASE d # c
    <3>1. StepsNow(d)' <= StepsNow(d)
      BY <1>1, <1>3, <2>3, ServeAlone, OthersGoOn
    <3>2. QED
      BY <1>1, <2>1, <3>1, FewerNow
  <2>4. QED
    BY <2>2, <2>3
<1>4. ASSUME NEW c \in Clients, Lost(c) PROVE StepsLeft(d)' <= StepsLeft(d)
  BY <1>2, <1>4, LostGoesOn
<1>5. CASE Restart
  BY <1>1, <1>2, <1>5, MishapsAreCounted DEF Restart
<1>6. CASE GatekeeperDies \/ (\E s \in Edited : Edit(s)) \/ UNCHANGED vars
  <2>1. /\ restarts' = restarts /\ losses' = losses
        /\ proposals' = proposals /\ candidates' = candidates /\ handler' = handler
        /\ step' = step /\ proposal' = proposal /\ candidate' = candidate
    BY <1>6 DEF GatekeeperDies, Edit, vars, world, server, clients
  <2>2. StepsNow(d)' <= StepsNow(d)
    BY <1>1, <2>1, OthersGoOn
  <2>3. QED
    BY <1>1, <2>1, <2>2, FewerNow
<1>7. QED
  BY <1>3, <1>4, <1>5, <1>6 DEF Next

\* Whatever happens to the server and whatever other clients do, no client is ever
\* taken back and each step of its own requests takes it on, but for a judgement that
\* fails, of a Gatekeeper that is gone, late or rejects its evidence: that takes its
\* client, and no other, back by twelve steps at most.  When no step is left a client
\* has its verdict or is without advice: after 11 steps, 14 for each restart, 13 for
\* each lost response and 13 for each failed judgement at most
\* (remediation_service.py:69-200, the next_action of each error).
THEOREM ClientsGoForward ==
    Spec => /\ [](\A c \in Clients :
                     /\ StepsLeft(c) \in Nat
                     /\ StepsLeft(c) = 0 => step[c] \in {"done", "stuck"})
            /\ [][\A c \in Clients : GoesRound(c) \/ GoesForward(c)]_vars
<1>1. IInv => \A c \in Clients : /\ StepsLeft(c) \in Nat
                                 /\ StepsLeft(c) = 0 => step[c] \in {"done", "stuck"}
  BY StepsLeftTyped DEF IInv
<1>2. ASSUME IInv, [Next]_vars, NEW c \in Clients
      PROVE  GoesRound(c) \/ GoesForward(c)
  <2>1. TypeOK /\ TypeOK'
    BY <1>2, NextInv DEF IInv
  <2>2. CASE GatekeeperFails(c)
    BY <1>2, <2>1, <2>2, FailureGoesRound
  <2>3. CASE ~GatekeeperFails(c)
    <3>1. StepsLeft(c)' <= StepsLeft(c)
      BY <1>2, <2>1, <2>3, NobodyGoesBack
    <3>2. ASSUME Serve(c) PROVE StepsLeft(c)' < StepsLeft(c)
      BY <1>2, <2>1, <2>3, <3>2, ServeAlone, ServeGoesOn, FewerNow
    <3>3. QED
      BY <3>1, <3>2 DEF GoesForward
  <2>4. QED
    BY <2>2, <2>3
<1>3. IInv /\ [Next]_vars => [\A c \in Clients : GoesRound(c) \/ GoesForward(c)]_vars
  BY <1>2
<1>4. QED
  BY <1>1, <1>3, RemediationInvariant, PTL DEF Spec
=============================================================================
