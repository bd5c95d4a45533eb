---------------------------- MODULE ArenaBrowser ----------------------------
(***************************************************************************)
(* The Arena page: what a visitor is shown of a remediation.  Buttons and  *)
(* the guided demo call the same server and write to the same state, and a *)
(* response is rendered when it arrives, whatever was rendered since its   *)
(* request was sent.  The page cannot tell one response from another; the  *)
(* human checkpoint compares hashes instead.                               *)
(*                                                                         *)
(* JavaScript runs to the next await without interruption, so an action is *)
(* the code between two awaits.  The server is seen from here: it answers  *)
(* with what the fixtures are at that moment, or with an error.            *)
(***************************************************************************)
EXTENDS Naturals, Sequences

CONSTANTS
    Scenarios,    \* the releases the visitor can choose
    Clicks,       \* one for each request of the buttons that may be under way
    Edited,       \* the scenarios whose fixture is edited
    MaxVersion,   \* bound on the edits of a fixture
    NumAttacks,   \* the attacks of the catalog, none if it did not load
    None

ASSUME ArenaAssumption ==
    /\ MaxVersion \in Nat /\ NumAttacks \in Nat
    /\ Edited \subseteq Scenarios /\ "demo" \notin Clicks

\* A content of the fixture that repairs a scenario, standing for its hash.
Sources == Scenarios \X (0..MaxVersion)

Proposals == [scenario : Scenarios, target : Sources]

\* A candidate's old hash is that of its scenario's vulnerable fixture.
Candidates == [scenario : Scenarios, source : Sources]

\* What reverify_candidate returns: a proof identity and a verdict on a source.
Results == [proof : Scenarios, source : Sources]

\* What verify_proof returns.  It is sound if the evidence is intact, the
\* context bound and the authority deterministic.
Proofs == [proof : Scenarios, source : Sources, sound : BOOLEAN]

\* An attack of the suite, and what the demo's other requests return: of it the
\* page only looks whether a counterexample was found.
Attacks == [attack : 1..NumAttacks]

Reports == [escape : BOOLEAN]

\* request throws on any answer that is not ok, and when there is none.
Failed == [error |-> TRUE]

Tools == {"propose", "rebuild", "reverify", "verify"}

\* The tools only the guided demo is followed in calling.
DemoTools ==
    {"inspect_release", "inspect_trust_boundary", "run_attack",
     "compare_gate_revisions", "find_counterexamples", "minimize_counterexample"}

Requests ==
    [tool : Tools \union DemoTools,
     arg : {None} \union Scenarios \union Proposals \union Candidates \union Attacks,
     answer : {None, Failed} \union Proposals \union Candidates
                \union Results \union Proofs \union Reports]

\* null is neither a request nor an answer.
ASSUME NullAssumption ==
    None \notin Requests \union {Failed} \union Proposals \union Candidates
                   \union Results \union Proofs \union Reports

Statuses == {"UNVERIFIED BY HUMAN", "VERIFYING", "VERIFIED BY HUMAN", "VERIFICATION FAILED"}

\* The steps of the guided demo, by the tool each calls first.
GuidedSteps ==
    <<"inspect_release", "inspect_trust_boundary", "run_attack",
      "compare_gate_revisions", "find_counterexamples",
      "propose", "rebuild", "reverify", "verify">>

VARIABLES
    version,      \* the present content of each fixture
    proposal, candidate, reverify, humanProof,   \* the page's state
    rail,         \* the verdict the remediation rail shows
    card,         \* the human proof card
    request,      \* the requests under way, of the buttons and of the demo,
                  \* each with its answer once the server has given one
    guided        \* the guided demo

page == <<proposal, candidate, reverify, humanProof, rail, card>>
vars == <<version, page, request, guided>>

Slots == Clicks \union {"demo"}

TypeOK ==
    /\ version \in [Scenarios -> 0..MaxVersion]
    /\ proposal \in Proposals \union {None}
    /\ candidate \in Candidates \union {None}
    /\ reverify \in Results \union {None} /\ rail \in Results \union {None}
    /\ humanProof \in Proofs \union {None}
    /\ card \in [visible : BOOLEAN, old : Scenarios \union {None},
                 new : Sources \union {None}, verdict : Results \union {None},
                 status : Statuses]
    /\ \A i \in Slots : request[i] \in Requests \union {None}
    /\ guided \in [at : DOMAIN GuidedSteps, aborted : BOOLEAN,
                   phase : {"off", "pause", "waiting", "shown"}]

Hidden ==
    [visible |-> FALSE, old |-> None, new |-> None, verdict |-> None,
     status |-> "UNVERIFIED BY HUMAN"]

Init ==
    /\ version = [s \in Scenarios |-> 0]
    /\ proposal = None /\ candidate = None /\ reverify = None /\ humanProof = None
    /\ rail = None /\ card = Hidden
    /\ request = [i \in Slots |-> None]
    /\ guided = [at |-> 1, aborted |-> FALSE, phase |-> "off"]

SourceNow(s) == <<s, version[s]>>

----------------------------------------------------------------------------
(* The server's side of a request.                                         *)

Answers(r) ==
    {Failed} \union
    CASE r.tool = "propose"  -> {[scenario |-> r.arg, target |-> SourceNow(r.arg)]}
      [] r.tool = "rebuild"  -> {k \in {[scenario |-> r.arg.scenario, source |-> r.arg.target]} :
                                     k.source = SourceNow(k.scenario)}
      [] r.tool = "reverify" -> {x \in {[proof |-> r.arg.scenario, source |-> r.arg.source]} :
                                     x.source = SourceNow(x.proof)}
      \* An edit while the proof is recomputed leaves its context unbound.
      [] r.tool = "verify"   -> {[proof |-> r.arg, source |-> SourceNow(r.arg), sound |-> b] :
                                     b \in {TRUE, version[r.arg] = 0}}
      [] r.tool = "find_counterexamples" -> Reports
      [] OTHER -> {[escape |-> FALSE]}

Answer(i) ==
    /\ request[i] # None /\ request[i].answer = None
    /\ \E a \in Answers(request[i]) : request' = [request EXCEPT ![i].answer = a]
    /\ UNCHANGED <<version, page, guided>>

Edit(s) ==
    /\ s \in Edited /\ version[s] < MaxVersion
    /\ version' = [version EXCEPT ![s] = @ + 1]
    /\ UNCHANGED <<page, request, guided>>

----------------------------------------------------------------------------
(* Sending.                                                                *)

Send(i, tool, arg) ==
    request' = [request EXCEPT ![i] = [tool |-> tool, arg |-> arg, answer |-> None]]

\* The call of a step or button; the arguments are the state at this moment.
Call(i, tool) ==
    \/ /\ tool = "propose" /\ \E s \in Scenarios : Send(i, tool, s)
       /\ UNCHANGED page
    \/ /\ tool = "rebuild" /\ proposal # None /\ Send(i, tool, proposal)
       /\ UNCHANGED page
    \/ /\ tool = "reverify" /\ candidate # None /\ Send(i, tool, candidate)
       /\ UNCHANGED page
    \/ /\ tool = "verify" /\ reverify # None /\ candidate # None
       /\ Send(i, tool, reverify.proof)
       /\ card' = [card EXCEPT !.status = "VERIFYING"]
       /\ UNCHANGED <<proposal, candidate, reverify, humanProof, rail>>

\* Buttons stay enabled while a request of theirs is under way.
Click(i, tool) ==
    /\ request[i] = None
    /\ Call(i, tool)
    /\ UNCHANGED <<version, guided>>

----------------------------------------------------------------------------
(* Rendering: what is done when the answer arrives.                        *)

\* resetHumanProof.
HideCard == card' = Hidden /\ reverify' = None /\ humanProof' = None

RenderProposal(p) ==
    /\ proposal' = p /\ HideCard
    /\ UNCHANGED <<candidate, rail>>

RenderCandidate(k) ==
    /\ candidate' = k /\ HideCard
    /\ UNCHANGED <<proposal, rail>>

\* The card's hashes are the candidate's, its verdict the answer's.
RenderReverify(x) ==
    /\ reverify' = x /\ humanProof' = None /\ rail' = x
    /\ card' = [visible |-> TRUE, verdict |-> x, status |-> "UNVERIFIED BY HUMAN",
                old |-> IF candidate = None THEN None ELSE candidate.scenario,
                new |-> IF candidate = None THEN None ELSE candidate.source]
    /\ UNCHANGED <<proposal, candidate>>

Show(status) == card' = [card EXCEPT !.status = status]

\* A bug: the proof is compared with the verdict only.
CheckProofLoosely(x) ==
    /\ humanProof' = x
    /\ Show(IF reverify # None /\ x.sound /\ x.proof = reverify.proof
            THEN "VERIFIED BY HUMAN" ELSE "VERIFICATION FAILED")
    /\ UNCHANGED <<proposal, candidate, reverify, rail>>

\* The proof is compared with what the page holds now.  If the verdict was
\* cleared while the proof was awaited, reading it throws, and the failure is
\* shown on the hidden card.
CheckProof(x) ==
    LET rebuilt == x.source = candidate.source
        throws  == rebuilt /\ reverify = None
        matches == rebuilt /\ ~throws /\ x.source = reverify.source
    IN  /\ humanProof' = IF throws THEN humanProof ELSE x
        /\ Show(IF matches /\ x.sound THEN "VERIFIED BY HUMAN" ELSE "VERIFICATION FAILED")
        /\ UNCHANGED <<proposal, candidate, reverify, rail>>

\* A bug: nobody catches the error of the proof.
RenderErrorUncaught(tool) == UNCHANGED page

\* An error is shown by the human check and otherwise changes nothing.
RenderError(tool) ==
    IF tool = "verify"
    THEN Show("VERIFICATION FAILED") /\ UNCHANGED <<proposal, candidate, reverify, humanProof, rail>>
    ELSE UNCHANGED page

\* A bug: an error is rendered like an answer.
RenderAny(r) ==
    IF r.tool \in DemoTools THEN UNCHANGED page ELSE
    CASE r.tool = "propose"  -> RenderProposal(r.answer)
      [] r.tool = "rebuild"  -> RenderCandidate(r.answer)
      [] r.tool = "reverify" -> RenderReverify(r.answer)
      [] r.tool = "verify"   -> RenderError(r.tool)

\* What the demo's other tools report is shown on panels that are left out.
Render(r) ==
    IF r.answer = Failed
    THEN RenderError(r.tool)
    ELSE IF r.tool \in DemoTools
    THEN UNCHANGED page
    ELSE CASE r.tool = "propose"  -> RenderProposal(r.answer)
           [] r.tool = "rebuild"  -> RenderCandidate(r.answer)
           [] r.tool = "reverify" -> RenderReverify(r.answer)
           [] r.tool = "verify"   -> CheckProof(r.answer)

\* The request that is sent as soon as r is answered: the suite's next attack, and
\* the minimization of a counterexample that was found.
Following(r) ==
    IF r.answer # Failed /\ r.tool = "run_attack" /\ r.arg.attack < NumAttacks
    THEN [tool |-> "run_attack", arg |-> [attack |-> r.arg.attack + 1], answer |-> None]
    ELSE IF r.answer # Failed /\ r.tool = "find_counterexamples" /\ r.answer.escape
    THEN [tool |-> "minimize_counterexample", arg |-> None, answer |-> None]
    ELSE None

\* Neither looks whether the demo was stopped.
Deliver(i) ==
    /\ request[i] # None /\ request[i].answer # None
    /\ Render(request[i])
    /\ request' = [request EXCEPT ![i] = Following(request[i])]
    /\ guided' = IF i = "demo" /\ Following(request[i]) = None
                 THEN [guided EXCEPT !.phase = "shown"] ELSE guided
    /\ UNCHANGED version

----------------------------------------------------------------------------
(* The guided demo.                                                        *)

GuidedStart ==
    /\ guided.phase = "off"
    /\ guided' = [at |-> 1, aborted |-> FALSE, phase |-> "pause"]
    /\ UNCHANGED <<version, page, request>>

GuidedStop ==
    /\ guided.phase # "off" /\ ~guided.aborted
    /\ guided' = [guided EXCEPT !.aborted = TRUE]
    /\ UNCHANGED <<version, page, request>>

\* The first request of a step, or none if what it needs is not there.
GuidedSend(tool) ==
    \/ Call("demo", tool)
    \/ /\ tool \in DemoTools /\ (tool = "run_attack" => NumAttacks > 0)
       /\ Send("demo", tool, IF tool = "run_attack" THEN [attack |-> 1] ELSE None)
       /\ UNCHANGED page

GuidedCall ==
    LET tool == GuidedSteps[guided.at]
    IN  \/ GuidedSend(tool) /\ guided' = [guided EXCEPT !.phase = "waiting"]
        \/ /\ \/ tool = "run_attack" /\ NumAttacks = 0
              \/ tool = "rebuild" /\ proposal = None
              \/ tool = "reverify" /\ candidate = None
              \/ tool = "verify" /\ reverify = None
           /\ guided' = [guided EXCEPT !.phase = "shown"]
           /\ UNCHANGED <<page, request>>

\* A bug: the flag is not looked at after the pause.
GuidedRunOn ==
    /\ guided.phase = "pause" /\ GuidedCall /\ UNCHANGED version

\* After the pause in front of a step.
GuidedRun ==
    /\ guided.phase = "pause"
    /\ IF guided.aborted
       THEN guided' = [guided EXCEPT !.phase = "off"] /\ UNCHANGED <<page, request>>
       ELSE GuidedCall
    /\ UNCHANGED version

\* A bug: the last step is tried until it succeeds.
GuidedNextRetries ==
    /\ guided.phase = "shown"
    /\ guided' = IF guided.aborted \/ (guided.at = Len(GuidedSteps) /\ card.status = "VERIFIED BY HUMAN")
                 THEN [guided EXCEPT !.phase = "off"]
                 ELSE [guided EXCEPT !.phase = "pause",
                                     !.at = IF @ = Len(GuidedSteps) THEN @ ELSE @ + 1]
    /\ UNCHANGED <<version, page, request>>

\* After the pause behind it, whether or not the step failed.
GuidedNext ==
    /\ guided.phase = "shown"
    /\ guided' = IF guided.aborted \/ guided.at = Len(GuidedSteps)
                 THEN [guided EXCEPT !.phase = "off"]
                 ELSE [guided EXCEPT !.phase = "pause", !.at = @ + 1]
    /\ UNCHANGED <<version, page, request>>

Next ==
    \/ \E i \in Clicks, tool \in Tools : Click(i, tool)
    \/ \E i \in Slots : Answer(i) \/ Deliver(i)
    \/ GuidedStart \/ GuidedStop \/ GuidedRun \/ GuidedNext
    \/ \E s \in Scenarios : Edit(s)

\* A request is answered or fails, its promise settles, and timers fire.
Fairness ==
    /\ \A i \in Slots : WF_vars(Answer(i)) /\ WF_vars(Deliver(i))
    /\ WF_vars(GuidedRun \/ GuidedNext)

Spec == Init /\ [][Next]_vars /\ Fairness

----------------------------------------------------------------------------
(* Properties.                                                             *)

\* The card says VERIFIED BY HUMAN only while it shows one candidate, the fresh
\* verdict on it, and a sound proof of the same source was received: in whatever
\* order requests were sent and answered (arena.js 288-302; design 94-103).
VerifiedIsWhatIsShown ==
    card.status = "VERIFIED BY HUMAN" =>
        /\ card.visible /\ humanProof # None /\ humanProof.sound
        /\ card.new = candidate.source /\ card.old = candidate.scenario
        /\ card.verdict = reverify
        /\ humanProof.source = card.new /\ reverify.source = card.new

\* The requests a step has still to send, with the one under way.
RequestsLeft(r) ==
    IF r = None THEN 0
    ELSE CASE r.tool = "run_attack" -> 1 + NumAttacks - r.arg.attack
           [] r.tool = "find_counterexamples" -> 2
           [] OTHER -> 1

\* A demo that was stopped begins no step any more.  It may still send what is left
\* of the one it was stopped in, the other attacks of the suite or the
\* minimization, and that only becomes less (arena.js 375-388, 404-411, 479, 484).
StopStops ==
    [][guided.aborted => RequestsLeft(request'["demo"]) <= RequestsLeft(request["demo"])]_vars

\* A check under way comes to an end, shown as such, whatever is rendered in
\* the meantime (arena.js 285, 316-318).
CheckResolves == card.status = "VERIFYING" ~> card.status # "VERIFYING"

\* The demo ends and its button is back, whichever of its steps fail (arena.js
\* 485-490, 505-508).
GuidedEnds == guided.phase # "off" ~> guided.phase = "off"

\* What the demo tells the visitor of a rebuild, "the old verdict dies with the
\* old code ... Nothing is inherited" (arena.js 425-426): the rail shows no
\* verdict on a source other than the candidate's.
RailVerdictIsCurrent ==
    rail # None /\ candidate # None => rail.source = candidate.source

\* The card displays the new source and the "Gatekeeper verdict returned by fresh
\* verification" (design 84-89): of one and the same candidate.
CardShowsOneCandidate ==
    card.visible => card.new = card.verdict.source
=============================================================================
