-------------------------- MODULE WebMCPRemediation --------------------------
(***************************************************************************)
(* The bounded remediation of the WebMCP demo: a client has a proposal     *)
(* made, a candidate rebuilt from it and the candidate re-verified.  The   *)
(* server keeps proposals and candidates in memory and runs each request   *)
(* in a thread of its own; in judged mode the verdict is the Gatekeeper's, *)
(* a process beside it.  The server may restart at any time, a response    *)
(* may be lost, and the fixtures may be edited under a running server.     *)
(*                                                                         *)
(* Identifiers are hashes of contents, so a proposal or a candidate is its *)
(* own identifier.  Digests a client passes are those it was given: one    *)
(* that differs is refused before anything changes.                        *)
(***************************************************************************)
EXTENDS Evidence, Naturals

CONSTANTS
    Clients,
    Scenarios,       \* package-owned demo releases
    Versions,        \* contents a fixed fixture may have
    Shipped,         \* the one each has when the server starts
    Edited,          \* the scenarios whose fixture is edited under it
    MatchesIn,       \* the platform rules each of them matches
    MaxEdits,        \* bound on the edits of a fixture
    MaxRestarts,     \* bound on restarts of the container
    MaxLosses,       \* bound on lost responses
    None

\* A content of a fixed fixture, standing for its SHA-256.
Sources == Scenarios \X Versions

ASSUME RemediationAssumption ==
    /\ MaxEdits \in Nat /\ MaxRestarts \in Nat /\ MaxLosses \in Nat
    /\ Shipped \in [Scenarios -> Versions] /\ Edited \subseteq Scenarios
    /\ MatchesIn \in [Sources -> SUBSET PlatformChecks]

Proposals == [scenario : Scenarios, target : Sources]

Candidates == [proposal : Proposals, source : Sources]

Steps == {"propose", "rebuild", "reverify", "done", "stuck"}

\* Where the handler of a client's request stands, and what it has read; `first`
\* and `last` are history: the edits made before the fixture was first and last
\* hashed.
Idle == [at |-> "idle"]

Handlers ==
    {Idle}
      \union [at : {"proposing"}, target : Sources]
      \union [at : {"rebuilding"}]
      \union [at : {"hashing"}, candidate : Candidates]
      \union [at : {"scanning"}, candidate : Candidates, hash : Sources, first : 0..MaxEdits]
      \union [at : {"executing", "comparing", "signing", "judging"},
              candidate : Candidates, hash : Sources, scanned : Sources,
              findings : SUBSET Findings, first : 0..MaxEdits, last : 0..MaxEdits]

VARIABLES
    judged,      \* RELEASE_SENTINEL_WEBMCP_JUDGED_MODE
    version,     \* the present content of each fixed fixture
    edits,       \* how often each was edited
    gatekeeper,  \* whether the Gatekeeper process is reachable
    restarts, losses,
    proposals, candidates,   \* the adapter's dictionaries
    handler,     \* of each client
    step,        \* the call each client makes next
    scenario,    \* the demo release it works on
    since,       \* history: the edits of its fixture before it last proposed
    proposal, candidate,     \* what it was given
    epoch,       \* history: the restarts before it was given them
    verdicts,    \* history: every verdict that was returned
    unsigned     \* history: the clients whose evidence could not be signed

server == <<proposals, candidates>>
clients == <<step, scenario, since, proposal, candidate, epoch>>
world == <<judged, version, edits, gatekeeper, restarts, losses>>
history == <<verdicts, unsigned>>
vars == <<world, server, handler, clients, history>>

TypeOK ==
    /\ judged \in BOOLEAN /\ gatekeeper \in {"up", "down"}
    /\ version \in [Scenarios -> Versions] /\ edits \in [Scenarios -> 0..MaxEdits]
    /\ restarts \in 0..MaxRestarts /\ losses \in 0..MaxLosses
    /\ proposals \subseteq Proposals /\ candidates \subseteq Candidates
    /\ handler \in [Clients -> Handlers]
    /\ step \in [Clients -> Steps] /\ scenario \in [Clients -> Scenarios]
    /\ since \in [Clients -> 0..MaxEdits]
    /\ proposal \in [Clients -> Proposals \union {None}]
    /\ candidate \in [Clients -> Candidates \union {None}]
    /\ epoch \in [Clients -> [proposal : 0..MaxRestarts, candidate : 0..MaxRestarts]]
    /\ verdicts \subseteq [candidate : Candidates, source : Sources, scanned : Sources,
                           meanwhile : 0..MaxEdits, decision : Decisions,
                           by : {"reference", "go"}]
    /\ unsigned \subseteq Clients

Init ==
    /\ judged \in BOOLEAN /\ gatekeeper = "up"
    /\ version = Shipped /\ edits = [s \in Scenarios |-> 0]
    /\ restarts = 0 /\ losses = 0
    /\ proposals = {} /\ candidates = {}
    /\ handler = [c \in Clients |-> Idle]
    /\ step = [c \in Clients |-> "propose"]
    /\ scenario \in [Clients -> Scenarios]
    /\ since = [c \in Clients |-> 0]
    /\ proposal = [c \in Clients |-> None] /\ candidate = [c \in Clients |-> None]
    /\ epoch = [c \in Clients |-> [proposal |-> 0, candidate |-> 0]]
    /\ verdicts = {} /\ unsigned = {}

\* The hash of the fixture a scenario is repaired with, as it is now.
SourceNow(s) == <<s, version[s]>>

Enter(c, h) == handler' = [handler EXCEPT ![c] = h]

Return(c) == Enter(c, Idle)

GoTo(c, s) == step' = [step EXCEPT ![c] = s]

\* The request came to nothing, and s is what the client is left with.
LeaveAt(c, s) ==
    /\ Return(c) /\ GoTo(c, s)
    /\ UNCHANGED <<world, server, scenario, since, proposal, candidate, epoch, verdicts>>

\* The client does what next_action says: make the call it names.
Refer(c, s) == LeaveAt(c, s) /\ UNCHANGED unsigned

\* An error without a next_action, or an exception no handler maps.
Fail(c) == Refer(c, "stuck")

----------------------------------------------------------------------------
(* propose_remediation                                                     *)

ProposeRead(c) ==
    /\ step[c] = "propose" /\ handler[c] = Idle
    /\ Enter(c, [at |-> "proposing", target |-> SourceNow(scenario[c])])
    /\ since' = [since EXCEPT ![c] = edits[scenario[c]]]
    /\ UNCHANGED <<world, server, step, scenario, proposal, candidate, epoch, history>>

ProposeStore(c) ==
    /\ handler[c].at = "proposing"
    /\ LET p == [scenario |-> scenario[c], target |-> handler[c].target]
       IN  /\ proposals' = proposals \union {p}
           /\ proposal' = [proposal EXCEPT ![c] = p]
    /\ epoch' = [epoch EXCEPT ![c].proposal = restarts]
    /\ Return(c) /\ GoTo(c, "rebuild")
    /\ UNCHANGED <<world, candidates, scenario, since, candidate, history>>

----------------------------------------------------------------------------
(* rebuild_candidate                                                       *)

\* A bug: the client is told to rebuild again, from a proposal nobody has.
RebuildLookupAgain(c) ==
    /\ step[c] = "rebuild" /\ handler[c] = Idle
    /\ IF proposal[c] \notin proposals
       THEN Refer(c, "rebuild")
       ELSE /\ Enter(c, [at |-> "rebuilding"])
            /\ UNCHANGED <<world, server, clients, history>>

RebuildLookup(c) ==
    /\ step[c] = "rebuild" /\ handler[c] = Idle
    /\ IF proposal[c] \notin proposals
       THEN Refer(c, "propose")
       ELSE /\ Enter(c, [at |-> "rebuilding"])
            /\ UNCHANGED <<world, server, clients, history>>

\* A bug: the adapter remembers one candidate.
RebuildStoreLast(c) ==
    /\ handler[c].at = "rebuilding"
    /\ LET k == [proposal |-> proposal[c], source |-> proposal[c].target]
       IN  candidates' = {k} /\ candidate' = [candidate EXCEPT ![c] = k]
    /\ epoch' = [epoch EXCEPT ![c].candidate = restarts]
    /\ Return(c) /\ GoTo(c, "reverify")
    /\ UNCHANGED <<world, proposals, scenario, since, proposal, history>>

\* TARGET_FIXTURE_MISMATCH, or a candidate.
RebuildStore(c) ==
    /\ handler[c].at = "rebuilding"
    /\ IF SourceNow(scenario[c]) # proposal[c].target
       THEN Fail(c)
       ELSE /\ LET k == [proposal |-> proposal[c], source |-> proposal[c].target]
               IN  /\ candidates' = candidates \union {k}
                   /\ candidate' = [candidate EXCEPT ![c] = k]
            /\ epoch' = [epoch EXCEPT ![c].candidate = restarts]
            /\ Return(c) /\ GoTo(c, "reverify")
            /\ UNCHANGED <<world, proposals, scenario, since, proposal, history>>

----------------------------------------------------------------------------
(* reverify_candidate: the fixture is hashed, scanned, hashed again by the *)
(* executor, and its first hash compared with the candidate's.             *)

ReverifyLookup(c) ==
    /\ step[c] = "reverify" /\ handler[c] = Idle
    /\ IF candidate[c] \notin candidates
       THEN Refer(c, "rebuild")
       ELSE /\ Enter(c, [at |-> "hashing", candidate |-> candidate[c]])
            /\ UNCHANGED <<world, server, clients, history>>

Internal(c, h) == Enter(c, h) /\ UNCHANGED <<world, server, clients, history>>

ReverifyHash(c) ==
    /\ handler[c].at = "hashing"
    /\ Internal(c, [at |-> "scanning", candidate |-> handler[c].candidate,
                    hash |-> SourceNow(scenario[c]), first |-> edits[scenario[c]]])

\* The fixed fixtures' commands are preset to pass: what can fail is a rule.
ReverifyScan(c) ==
    /\ handler[c].at = "scanning"
    /\ LET content == SourceNow(scenario[c])
       IN  Internal(c, [at |-> "executing", candidate |-> handler[c].candidate,
                        hash |-> handler[c].hash, scanned |-> content,
                        findings |-> RunFindings(MatchesIn[content], {}),
                        first |-> handler[c].first, last |-> handler[c].first])

\* A bug: the executor takes the fixture as it finds it.
ReverifyExecuteUnpinned(c) ==
    /\ handler[c].at = "executing"
    /\ Internal(c, [handler[c] EXCEPT !.at = "comparing", !.last = edits[scenario[c]]])

\* The demo executor accepts no content but the one that was hashed.
ReverifyExecute(c) ==
    /\ handler[c].at = "executing"
    /\ IF SourceNow(scenario[c]) # handler[c].hash
       THEN Fail(c)
       ELSE Internal(c, [handler[c] EXCEPT !.at = "comparing", !.last = edits[scenario[c]]])

\* The verdict goes to the client.
Answer(c, decision, by) ==
    /\ verdicts' = verdicts \union
          {[candidate |-> handler[c].candidate, source |-> handler[c].hash,
            scanned |-> handler[c].scanned, meanwhile |-> handler[c].last - handler[c].first,
            decision |-> decision, by |-> by]}
    /\ Return(c) /\ GoTo(c, "done")
    /\ UNCHANGED <<world, server, scenario, since, proposal, candidate, epoch, unsigned>>

\* SOURCE_CONTEXT_MISMATCH, the reference gate's verdict, or on to
\* the Gatekeeper.
ReverifyCompare(c) ==
    /\ handler[c].at = "comparing"
    /\ IF handler[c].hash # handler[c].candidate.source
       THEN Fail(c)
       ELSE IF judged
       THEN Internal(c, [handler[c] EXCEPT !.at = "signing"])
       ELSE Answer(c, JudgeDecide(handler[c].findings), "reference")

\* The evidence is signed by an openssl process, which may be missing, fail or take
\* too long, with a key file that may be gone: an exception no handler maps.
ReverifySign(c) ==
    /\ handler[c].at = "signing"
    /\ \/ Internal(c, [handler[c] EXCEPT !.at = "judging"])
       \/ LeaveAt(c, "stuck") /\ unsigned' = unsigned \union {c}

\* The Gatekeeper accepts the signed evidence and decides.
GatekeeperAnswers(c) ==
    /\ handler[c].at = "judging" /\ gatekeeper = "up"
    /\ Answer(c, GoDecide(BundleResults(handler[c].findings)), "go")

\* It is gone, too slow, or rejects the evidence: a 503 whose next_action is to
\* call again.
GatekeeperFails(c) ==
    /\ handler[c].at = "judging"
    /\ Refer(c, "reverify")

\* A bug: without the Gatekeeper the reference gate's verdict will do.
ReverifyJudgeFallsBack(c) ==
    \/ GatekeeperAnswers(c)
    \/ handler[c].at = "judging" /\ Answer(c, JudgeDecide(handler[c].findings), "reference")

\* A bug: no answer is taken for one.
ReverifyJudgeTakesFailure(c) ==
    \/ GatekeeperAnswers(c)
    \/ handler[c].at = "judging" /\ Answer(c, "UNAVAILABLE", "go")

\* A bug: the 503 has no next_action.
ReverifyJudgeFails(c) ==
    \/ GatekeeperAnswers(c)
    \/ handler[c].at = "judging" /\ Fail(c)

ReverifyJudge(c) == GatekeeperAnswers(c) \/ GatekeeperFails(c)

----------------------------------------------------------------------------
(* What happens to them.                                                   *)

\* A response is lost, after the handler has stored what it had to: the client
\* makes the same call again.
Lost(c) ==
    /\ losses < MaxLosses /\ losses' = losses + 1
    /\ handler[c] # Idle
    /\ proposals' = proposals \union
          {[scenario |-> scenario[c], target |-> h.target] :
              h \in {x \in {handler[c]} : x.at = "proposing"}}
    /\ candidates' = candidates \union
          {[proposal |-> p, source |-> p.target] :
              p \in {x \in {proposal[c]} :
                        handler[c].at = "rebuilding" /\ SourceNow(scenario[c]) = x.target}}
    /\ Return(c)
    /\ UNCHANGED <<judged, version, edits, gatekeeper, restarts, clients, history>>

\* The container starts again, with its Gatekeeper: memory and requests are gone.
Restart ==
    /\ restarts < MaxRestarts /\ restarts' = restarts + 1
    /\ proposals' = {} /\ candidates' = {}
    /\ handler' = [c \in Clients |-> Idle]
    /\ gatekeeper' = "up"
    /\ UNCHANGED <<judged, version, edits, losses, clients, history>>

\* The Gatekeeper process ends: nothing but a restart starts it again.
GatekeeperDies ==
    /\ judged /\ gatekeeper = "up" /\ gatekeeper' = "down"
    /\ UNCHANGED <<judged, version, edits, restarts, losses, server, handler, clients, history>>

\* A fixture's content is changed, or changed back.
Edit(s) ==
    /\ edits[s] < MaxEdits
    /\ edits' = [edits EXCEPT ![s] = @ + 1]
    /\ \E v \in Versions \ {version[s]} : version' = [version EXCEPT ![s] = v]
    /\ UNCHANGED <<judged, gatekeeper, restarts, losses, server, handler, clients, history>>

Serve(c) ==
    \/ ProposeRead(c) \/ ProposeStore(c)
    \/ RebuildLookup(c) \/ RebuildStore(c)
    \/ ReverifyLookup(c) \/ ReverifyHash(c) \/ ReverifyScan(c) \/ ReverifyExecute(c)
    \/ ReverifyCompare(c) \/ ReverifySign(c) \/ ReverifyJudge(c)

Next ==
    \/ \E c \in Clients : Serve(c) \/ Lost(c)
    \/ Restart \/ GatekeeperDies
    \/ \E s \in Edited : Edit(s)

\* Handlers are computations, processes and one HTTP call with timeouts, and a
\* client goes on as long as it is told what to call.  A Gatekeeper that is asked
\* again and again answers in the end, unless it is gone: next_action says to call
\* until it can be reached.
Spec ==
    /\ Init /\ [][Next]_vars
    /\ \A c \in Clients : WF_vars(Serve(c)) /\ SF_vars(GatekeeperAnswers(c))

----------------------------------------------------------------------------
(* Properties.                                                             *)

\* A verdict is about the candidate it was asked for: the source it names is the
\* one that was rebuilt, and it says what the rules that match the content that was
\* scanned call for, whoever gave it.  That content is the source it names, unless
\* the fixture was changed and changed back between its two hashes, which nobody
\* notices (remediation_service.py 160-164; demo_runtime.py 57-62; demo.py 33-35).
VerdictIsAboutTheCandidate ==
    \A v \in verdicts :
        /\ v.source = v.candidate.source
        /\ v.decision = DecisionFor(MatchesIn[v.scanned])
        /\ v.scanned # v.source => v.meanwhile >= 2

\* In judged mode no verdict is returned that the Gatekeeper did not give
\* (remediation_service.py 169-197: "failed closed").
JudgedVerdictsAreTheGatekeepers ==
    judged => \A v \in verdicts : v.by = "go"

\* What a client was given is known to the server until it restarts, whatever
\* other clients do at the same time (remediation_service.py 69, 93, 123, 145).
KnownUntilRestart ==
    \A c \in Clients :
        /\ proposal[c] # None /\ epoch[c].proposal = restarts => proposal[c] \in proposals
        /\ candidate[c] # None /\ epoch[c].candidate = restarts => candidate[c] \in candidates

\* A client is left without a next_action only when the fixture was edited after
\* it proposed (remediation_service.py 112, 162; demo.py 35) or its evidence could
\* not be signed (170-173, outside the try): restarts, losses and a Gatekeeper that
\* is gone, late or rejects the evidence are all recoverable.
StuckOnlyOnChange ==
    \A c \in Clients :
        step[c] = "stuck" => edits[scenario[c]] > since[c] \/ (judged /\ c \in unsigned)

\* A client that follows next_action is through in the end, with a verdict or for
\* one of the reasons above: however many restarts, losses and refusals there are,
\* as long as they end and the Gatekeeper is there to ask.
ClientsFinish ==
    \A c \in Clients :
        (step[c] = "propose") ~> (step[c] \in {"done", "stuck"} \/ gatekeeper = "down")
=============================================================================
