------------------------------ MODULE Converge ------------------------------
(***************************************************************************)
(* converge.js: the rounds of /cross-check-loop. A session keeps a ledger  *)
(* of claims and a file of evidence for each; a round sends every active   *)
(* claim to a verifier of another vendor, writes the verdicts beside the   *)
(* ledger and then the ledger. The session processes what was not          *)
(* confirmed, writes fresh evidence, and runs the next round, or stops:    *)
(* converged, or escalated to a handoff.                                   *)
(*                                                                         *)
(* A round that is refused before any verifier is asked changes nothing    *)
(* and is not a step. Reading the ledger and linting it are one step.      *)
(***************************************************************************)
EXTENDS Naturals, Sequences, FiniteSets

CONSTANTS NClaims,       \* claims of the ledger, in its order
          Cap,           \* ROUND_CAP of the ledger's tier: 2 for T2, 1 for T3
          Rounders,      \* converge.js processes that may run at the same time
          Concurrency,   \* --concurrency
          Texts,         \* contents of an evidence file
          Echo,          \* one more: the text of a verdict
          NoText,
          Answers,       \* what the verifiers answer
          MidRound,      \* whether the session works on while a round is out
          PendingAgain,  \* whether it may put a judged claim back to "pending"
          MaxSlips,      \* bound: verdicts copied into an evidence file
          MaxHalts       \* bound: verifiers that fail or give no verdict, rounds killed

Claims == 1..NClaims

Verdicts == {"confirmed", "revised", "rejected"}
Uncertainties == {"confident", "needs-operational-data", "reasonable-disagreement"}

\* Unreadable: a verifier other than the bundled one may answer with a word that
\* is no verdict.
Unreadable == [verdict |-> "partial", uncertainty |-> "confident"]
AllAnswers == [verdict : Verdicts, uncertainty : Uncertainties] \cup {Unreadable}
NoAnswer == [verdict |-> "none", uncertainty |-> "confident"]

ASSUME ConvergeAssumption ==
  /\ NClaims \in Nat \ {0} /\ Cap \in {1, 2} /\ Concurrency \in Nat \ {0}
  /\ Echo \notin Texts /\ NoText \notin Texts /\ Echo # NoText
  /\ Answers \subseteq AllAnswers
  /\ MidRound \in BOOLEAN /\ PendingAgain \in BOOLEAN
  /\ MaxSlips \in Nat /\ MaxHalts \in Nat

VARIABLES ledger,    \* ledger.json
          evidence,  \* the claims' evidence files
          files,     \* verdicts/<claim>-r<round>.json: the answer, and the text it is about
          pc,        \* where each round is
          job,       \* its locals
          outcome,   \* what the session ended with
          slips, halts

vars == <<ledger, evidence, files, pc, job, outcome, slips, halts>>

Active == {"pending", "recheck"}
Done == {"settled", "blocked-on-test"}
LegalStates == Active \cup Done \cup {"needs-action", "escalate"}

Entry == [round : 1..Cap, answer : Answers, sha : Texts \cup {Echo}]
NoFile == [answer |-> NoAnswer, about |-> NoText]

In(l, states) == {c \in Claims : l.claims[c].state \in states}

Init ==
  /\ ledger = [round |-> 0, rounds |-> << >>,
               claims |-> [c \in Claims |-> [state |-> "pending", reason |-> FALSE,
                                             sha |-> NoText, history |-> << >>]]]
  /\ evidence \in [Claims -> Texts]
  /\ files = [c \in Claims |-> [n \in 1..Cap |-> NoFile]]
  /\ pc = [r \in Rounders |-> "idle"]
  /\ job = [r \in Rounders |-> << >>]
  /\ outcome = "none"
  /\ slips = 0 /\ halts = 0

-----------------------------------------------------------------------------
\* A round.

\* Mutated form: the digest is not compared with the one last judged.
PassesWithoutDigest(c) ==
  /\ evidence[c] # Echo
  /\ ledger.claims[c].state = "recheck" => ledger.claims[c].reason

\* The gates on an active claim: no verdict for evidence; a recheck has a reason
\* and other bytes than those it was last judged on.
PassesGates(c) ==
  /\ evidence[c] # Echo
  /\ ledger.claims[c].state = "recheck" => /\ ledger.claims[c].reason
                                           /\ evidence[c] # ledger.claims[c].sha

\* main() up to the first verifier: the cap, the lint, the digests.
Start(r) ==
  /\ pc[r] = "idle" /\ outcome = "none"
  /\ ledger.round + 1 <= Cap
  /\ In(ledger, {"escalate", "needs-action"}) = {}
  /\ In(ledger, Active) # {} /\ \A c \in In(ledger, Active) : PassesGates(c)
  /\ pc' = [pc EXCEPT ![r] = "verify"]
  /\ job' = [job EXCEPT ![r] = [l |-> ledger, todo |-> In(ledger, Active),
                                verified |-> In(ledger, Active), sha |-> evidence,
                                read |-> [c \in Claims |-> NoText],
                                answers |-> [c \in Claims |-> NoAnswer]]]
  /\ UNCHANGED <<ledger, evidence, files, outcome, slips, halts>>

\* The claims whose verify-cli is out.
Out(j) == {c \in j.verified : j.read[c] # NoText /\ j.answers[c] = NoAnswer}
First(S) == CHOOSE c \in S : \A d \in S : c <= d

\* pool(): verify-cli is spawned for the next claim, and reads its evidence file.
Ask(r) ==
  LET j == job[r]
      c == First(j.todo)
  IN /\ pc[r] = "verify" /\ j.todo # {}
     /\ Cardinality(Out(j)) < Concurrency
     /\ job' = [job EXCEPT ![r].todo = @ \ {c}, ![r].read[c] = evidence[c]]
     /\ UNCHANGED <<ledger, evidence, files, pc, outcome, slips, halts>>

\* A verifier answers, in any order.
Answer(r) ==
  /\ pc[r] = "verify"
  /\ \E c \in Out(job[r]), a \in Answers :
       /\ job' = [job EXCEPT ![r].answers[c] = a]
       /\ IF a = Unreadable THEN halts < MaxHalts /\ halts' = halts + 1 ELSE halts' = halts
  /\ UNCHANGED <<ledger, evidence, files, pc, outcome, slips>>

\* All have answered: the recording starts.
Collected(r) ==
  LET j == job[r]
  IN /\ pc[r] = "verify" /\ j.todo = {} /\ Out(j) = {}
     /\ pc' = [pc EXCEPT ![r] = "record"]
     /\ job' = [job EXCEPT ![r].todo = j.verified]
     /\ UNCHANGED <<ledger, evidence, files, outcome, slips, halts>>

\* The verdict and its uncertainty decide the claim's next state.
nextState(a) ==
  IF a.uncertainty = "reasonable-disagreement" \/ a.verdict # "confirmed" THEN "needs-action"
  ELSE IF a.uncertainty = "needs-operational-data" THEN "blocked-on-test"
  ELSE "settled"

\* Mutated form: the file is named by the last completed round.
RecordUnderLastRound(r) ==
  LET j == job[r]
      c == First(j.todo)
      n == IF j.l.round = 0 THEN 1 ELSE j.l.round
  IN /\ pc[r] = "record" /\ j.todo # {}
     /\ j.answers[c] # Unreadable
     /\ files' = [files EXCEPT ![c][n] = [answer |-> j.answers[c], about |-> j.read[c]]]
     /\ job' = [job EXCEPT ![r].todo = @ \ {c},
                           ![r].l.claims[c] =
                              [state   |-> nextState(j.answers[c]),
                               reason  |-> @.reason /\ @.state # "recheck",
                               sha     |-> j.sha[c],
                               history |-> Append(@.history,
                                             [round |-> j.l.round + 1, answer |-> j.answers[c],
                                              sha |-> j.sha[c]])]]
     /\ UNCHANGED <<ledger, evidence, pc, outcome, slips, halts>>

\* One claim's verdict: its file, and its entry in the copy of the ledger.
Record(r) ==
  LET j == job[r]
      c == First(j.todo)
      n == j.l.round + 1
  IN /\ pc[r] = "record" /\ j.todo # {}
     /\ j.answers[c] # Unreadable
     /\ files' = [files EXCEPT ![c][n] = [answer |-> j.answers[c], about |-> j.read[c]]]
     /\ job' = [job EXCEPT ![r].todo = @ \ {c},
                           ![r].l.claims[c] =
                              [state   |-> nextState(j.answers[c]),
                               reason  |-> @.reason /\ @.state # "recheck",
                               sha     |-> j.sha[c],
                               history |-> Append(@.history,
                                             [round |-> n, answer |-> j.answers[c],
                                              sha |-> j.sha[c]])]]
     /\ UNCHANGED <<ledger, evidence, pc, outcome, slips, halts>>

\* Mutated form: the round's record takes the place of the earlier ones.
WriteOnlyThisRound(r) ==
  LET j == job[r]
  IN /\ pc[r] = "record" /\ j.todo = {}
     /\ ledger' = [j.l EXCEPT !.round = @ + 1, !.rounds = << j.verified >>]
     /\ pc' = [pc EXCEPT ![r] = "idle"]
     /\ job' = [job EXCEPT ![r] = << >>]
     /\ UNCHANGED <<evidence, files, outcome, slips, halts>>

\* The ledger is replaced by the copy, with the round and its record.
WriteLedger(r) ==
  LET j == job[r]
  IN /\ pc[r] = "record" /\ j.todo = {}
     /\ ledger' = [j.l EXCEPT !.round = @ + 1, !.rounds = Append(@, j.verified)]
     /\ pc' = [pc EXCEPT ![r] = "idle"]
     /\ job' = [job EXCEPT ![r] = << >>]
     /\ UNCHANGED <<evidence, files, outcome, slips, halts>>

\* Nothing of the round is recorded, but the verdict files written before.
Stop(r) == /\ pc' = [pc EXCEPT ![r] = "idle"]
           /\ job' = [job EXCEPT ![r] = << >>]
           /\ UNCHANGED <<ledger, evidence, outcome, slips>>

Counted == halts < MaxHalts /\ halts' = halts + 1

\* A verifier fails: the others are killed.
HaltVerify(r) == /\ pc[r] = "verify" /\ Out(job[r]) # {}
                 /\ Stop(r) /\ Counted /\ UNCHANGED files

\* An answer that is no verdict is refused when it has its file.
HaltRecord(r) ==
  LET j == job[r]
      c == First(j.todo)
  IN /\ pc[r] = "record" /\ j.todo # {}
     /\ j.answers[c] = Unreadable
     /\ files' = [files EXCEPT ![c][j.l.round + 1] = [answer |-> Unreadable, about |-> j.read[c]]]
     /\ Stop(r) /\ UNCHANGED halts

Killed(r) == pc[r] # "idle" /\ Stop(r) /\ Counted /\ UNCHANGED files

-----------------------------------------------------------------------------
\* The session.

AtWork == outcome = "none" /\ (MidRound \/ \A r \in Rounders : pc[r] = "idle")

Set(c, state, reason) ==
  /\ ledger' = [ledger EXCEPT !.claims[c].state = state, !.claims[c].reason = reason]
  /\ UNCHANGED <<evidence, files, pc, job, outcome, slips, halts>>

\* What was not confirmed is corrected and checked again, or taken as it is, or
\* escalated.
Process(c) ==
  /\ AtWork /\ ledger.claims[c].state = "needs-action"
  /\ \/ Set(c, "recheck", TRUE)
     \/ Set(c, "settled", FALSE)
     \/ Set(c, "escalate", FALSE)
     \/ PendingAgain /\ Set(c, "pending", FALSE)

Finding(l) == l.rounds # << >> /\ \E c \in l.rounds[Len(l.rounds)] :
                 nextState(l.claims[c].history[Len(l.claims[c].history)].answer) = "needs-action"

\* A correction found in the last round disturbs a claim that was done.
Cascade(c) == /\ AtWork /\ ledger.claims[c].state \in Done
              /\ Finding(ledger)
              /\ Set(c, "recheck", TRUE)

Write(c, text) == /\ evidence' = [evidence EXCEPT ![c] = text]
                  /\ UNCHANGED <<ledger, files, pc, job, outcome, halts>>

\* Evidence that no round would take is written afresh.
Reground(c) == /\ AtWork /\ ledger.claims[c].state \in Active
               /\ evidence[c] = Echo \/ (ledger.claims[c].state = "recheck" /\ evidence[c] = ledger.claims[c].sha)
               /\ \E t \in Texts \ {ledger.claims[c].sha} : Write(c, t)
               /\ slips' = slips

\* A slip: a verdict is copied where an artifact should be.
CopyVerdict(c) == /\ AtWork /\ ledger.claims[c].state \in Active
                  /\ slips < MaxSlips /\ slips' = slips + 1
                  /\ \E n \in 1..Cap, d \in Claims : files[d][n] # NoFile
                  /\ Write(c, Echo)

\* Mutated form: the cap does not count.
proposalWithoutCap(l) ==
  IF In(l, {"escalate"}) # {} THEN "ESCALATE"
  ELSE IF In(l, Active \cup {"needs-action"}) # {} THEN "CONTINUE"
  ELSE "CONVERGENCE CANDIDATE"

\* Mutated form: a claim that was never judged does not count.
proposalOverPending(l) ==
  IF In(l, {"escalate"}) # {} \/ (l.round >= Cap /\ In(l, Active \cup {"needs-action"}) # {})
    THEN "ESCALATE"
  ELSE IF In(l, {"recheck", "needs-action"}) # {} THEN "CONTINUE"
  ELSE "CONVERGENCE CANDIDATE"

\* What the script proposes to a session that looks at the ledger.
proposal(l) ==
  IF In(l, {"escalate"}) # {} \/ (l.round >= Cap /\ In(l, Active \cup {"needs-action"}) # {})
    THEN "ESCALATE"
  ELSE IF In(l, Active \cup {"needs-action"}) # {} THEN "CONTINUE"
  ELSE "CONVERGENCE CANDIDATE"

\* The session follows the proposal and ends.
Dispose == /\ AtWork /\ proposal(ledger) # "CONTINUE"
           /\ outcome' = proposal(ledger)
           /\ UNCHANGED <<ledger, evidence, files, pc, job, slips, halts>>

-----------------------------------------------------------------------------
RoundStep(r) == \/ Ask(r) \/ Answer(r) \/ Collected(r) \/ Record(r) \/ WriteLedger(r)
                \/ HaltRecord(r)

Next == \/ \E r \in Rounders : Start(r) \/ RoundStep(r) \/ HaltVerify(r) \/ Killed(r)
        \/ \E c \in Claims : Process(c) \/ Cascade(c) \/ Reground(c) \/ CopyVerdict(c)
        \/ Dispose

Spec == Init /\ [][Next]_vars

\* A round runs on, and a session goes on with what is left to do.
FairSpec == /\ Spec
            /\ \A r \in Rounders : WF_vars(Start(r)) /\ WF_vars(RoundStep(r))
            /\ \A c \in Claims : WF_vars(Process(c)) /\ WF_vars(Reground(c))
            /\ WF_vars(Dispose)

-----------------------------------------------------------------------------
ClaimType == [state : LegalStates, reason : BOOLEAN, sha : Texts \cup {Echo, NoText},
              history : Seq(Entry)]

TypeOK ==
  /\ ledger.round \in 0..Cap /\ Len(ledger.rounds) = ledger.round
  /\ \A n \in DOMAIN ledger.rounds : ledger.rounds[n] \in (SUBSET Claims) \ {{}}
  /\ ledger.claims \in [Claims -> ClaimType]
  /\ evidence \in [Claims -> Texts \cup {Echo}]
  /\ files \in [Claims -> [1..Cap -> [answer : Answers \cup {NoAnswer},
                                      about : Texts \cup {Echo, NoText}]]]
  /\ pc \in [Rounders -> {"idle", "verify", "record"}]
  /\ outcome \in {"none", "ESCALATE", "CONVERGENCE CANDIDATE"}
  /\ slips \in 0..MaxSlips /\ halts \in 0..MaxHalts

Entries(c) == {ledger.claims[c].history[i] : i \in DOMAIN ledger.claims[c].history}

\* The ledger and the verdict files tell one story: every entry of a claim's history
\* has its file, with that answer, and the verifier gave it on the text whose digest
\* the entry holds; and the entry's round lists the claim. Also with halts and kills
\* between the files and the ledger (converge.js:416-441).
VerdictOnRecord ==
  \A c \in Claims :
    /\ \A h \in Entries(c) : files[c][h.round] = [answer |-> h.answer, about |-> h.sha]
    /\ {h.round : h \in Entries(c)} = {n \in DOMAIN ledger.rounds : c \in ledger.rounds[n]}

\* No verifier was ever given a verdict for evidence (converge.js:19-27).
NoEchoJudged == \A c \in Claims, n \in 1..Cap : files[c][n].about # Echo

\* Types, a ledger that agrees with the verdict files, and verdicts on evidence only.
Inv == TypeOK /\ VerdictOnRecord /\ NoEchoJudged

\* "Each re-checked claim's evidence_sha is enforced to have changed between rounds":
\* no claim is judged twice in a row on the same bytes (SKILL.md.template:198-199).
EachRoundOnFreshBytes ==
  \A c \in Claims : \A i \in 2..Len(ledger.claims[c].history) :
     ledger.claims[c].history[i].sha # ledger.claims[c].history[i - 1].sha

\* A session that stops as converged leaves every claim judged, and the last answer
\* on it is about the evidence that still lies beside the ledger: nothing was disturbed
\* after the round that judged it (SKILL.md.template:197-200).
ConvergedOnWhatWasJudged ==
  outcome = "CONVERGENCE CANDIDATE" =>
     \A c \in Claims : LET h == ledger.claims[c].history
                       IN h # << >> /\ h[Len(h)].sha = evidence[c]

\* A recorded round is never lost or rewritten, and none is recorded over a claim that
\* waits for the session: "a correction you have not processed cannot be re-verified
\* away" (converge.js:198-207, 438-441).
RoundsAreFinal ==
  [][/\ \A n \in DOMAIN ledger.rounds : n \in DOMAIN ledger'.rounds /\ ledger'.rounds[n] = ledger.rounds[n]
     /\ \A c \in Claims : Entries(c) \subseteq Entries(c)'
     /\ (\E c \in Claims : Entries(c)' # Entries(c)) => In(ledger, {"needs-action", "escalate"}) = {}]_vars

\* The loop comes to an end: converged, or escalated.
LoopEnds == <>(outcome # "none")
=============================================================================
