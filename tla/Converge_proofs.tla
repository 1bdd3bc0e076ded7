--------------------------- MODULE Converge_proofs ---------------------------
(***************************************************************************)
(* Proofs about Converge: its types for any rounds and sessions, and what  *)
(* the cross-check loop promises while the session waits for its round,    *)
(* for any claims, cap, evidence texts, answers, halts and kills.          *)
(***************************************************************************)
EXTENDS Converge, SequenceTheorems, FiniteSetTheorems, TLAPS

\* One converge.js at a time, a session that leaves the files alone while it runs,
\* and that asks for a judged claim again by "recheck" only, which is what the digest
\* gate looks at.
Disciplined == /\ \A r, q \in Rounders : r = q
               /\ MidRound = FALSE /\ PendingAgain = FALSE

-----------------------------------------------------------------------------
\* What the ledger and a round's locals hold.

RoundSets == (SUBSET Claims) \ {{}}
LedgerType == [round : 0..Cap, rounds : Seq(RoundSets), claims : [Claims -> ClaimType]]
FileType == [answer : Answers \cup {NoAnswer}, about : Texts \cup {Echo, NoText}]
JobType == [l : LedgerType, todo : SUBSET Claims, verified : RoundSets,
            sha : [Claims -> Texts \cup {Echo}],
            read : [Claims -> Texts \cup {Echo, NoText}],
            answers : [Claims -> Answers \cup {NoAnswer}]]

Typed == /\ ledger \in LedgerType /\ Len(ledger.rounds) = ledger.round
         /\ evidence \in [Claims -> Texts \cup {Echo}]
         /\ files \in [Claims -> [1..Cap -> FileType]]
         /\ pc \in [Rounders -> {"idle", "verify", "record"}]
         /\ job \in [Rounders -> JobType \cup {<< >>}]
         /\ outcome \in {"none", "ESCALATE", "CONVERGENCE CANDIDATE"}
         /\ slips \in 0..MaxSlips /\ halts \in 0..MaxHalts

\* A round under way: every claim that it took is asked about once, and has an answer
\* when the recording starts.
Fits(at, j) == at # "idle" =>
  /\ j \in JobType
  /\ j.l.round + 1 \in 1..Cap /\ Len(j.l.rounds) = j.l.round
  /\ j.todo \subseteq j.verified
  /\ at = "verify" => \A c \in j.verified \ j.todo : j.read[c] # NoText
  /\ at = "record" => \A c \in j.verified : j.answers[c] \in Answers

RoundFits(r) == Fits(pc[r], job[r])

Structure == Typed /\ \A r \in Rounders : RoundFits(r)

-----------------------------------------------------------------------------
\* What holds besides while the session waits for its round.

\* The digest of a claim is that of its last verdict, and its evidence stays as it was
\* judged until the claim is to be judged again; no two verdicts in a row share bytes.
ClaimSound(c) ==
  LET k == ledger.claims[c]
      h == k.history
  IN /\ k.state = "pending" <=> h = << >>
     /\ h # << >> => k.sha = h[Len(h)].sha
     /\ k.state \notin Active => k.sha = evidence[c]
     /\ \A i \in 2..Len(h) : h[i].sha # h[i - 1].sha

\* A claim that the round under way has recorded, or has not.
Recorded(c, j) ==
  LET n == ledger.round + 1
  IN /\ files[c][n] = [answer |-> j.answers[c], about |-> evidence[c]]
     /\ j.l.claims[c].state = nextState(j.answers[c])
     /\ j.l.claims[c].sha = evidence[c]
     /\ j.l.claims[c].history =
          Append(ledger.claims[c].history, [round |-> n, answer |-> j.answers[c], sha |-> evidence[c]])

\* The round works on the ledger and the evidence as they lie there.
Runs(at, j) ==
  /\ outcome = "none"
  /\ j.l.round = ledger.round /\ j.l.rounds = ledger.rounds
  /\ j.verified = In(ledger, Active) /\ In(ledger, {"escalate", "needs-action"}) = {}
  /\ \A c \in j.verified :
       /\ j.sha[c] = evidence[c] /\ evidence[c] # Echo
       /\ ledger.claims[c].state = "recheck" => evidence[c] # ledger.claims[c].sha
       /\ (at = "record" \/ c \notin j.todo) => j.read[c] = evidence[c]
  /\ \A c \in Claims : IF at = "record" /\ c \in j.verified \ j.todo
                          THEN Recorded(c, j) ELSE j.l.claims[c] = ledger.claims[c]

RoundSound(r) == pc[r] # "idle" => Runs(pc[r], job[r])

Sound == /\ \A c \in Claims : ClaimSound(c)
         /\ \A r \in Rounders : RoundSound(r)
         /\ VerdictOnRecord /\ NoEchoJudged /\ ConvergedOnWhatWasJudged

-----------------------------------------------------------------------------
\* The next claim in the ledger's order.

\* A set of numbers has a least one: its heads are finite sets and have a smallest
\* one among them.
LEMMA Least ==
  ASSUME NEW T \in SUBSET Claims, T # {}
  PROVE  First(T) \in T
<1> DEFINE Heads == {1..x : x \in T}
<1>1. NClaims \in Nat /\ T \subseteq 1..NClaims
  BY ConvergeAssumption DEF Claims
<1>2. Heads \subseteq FiniteSubsetsOf(1..NClaims) /\ Heads # {}
  <2>1. \A x \in T : IsFiniteSet(1..x) /\ (1..x) \subseteq 1..NClaims
    BY <1>1, FS_Interval
  <2>2. QED
    BY <2>1 DEF FiniteSubsetsOf
<1>3. PICK hd \in Heads : \A w \in Heads : ~ (<<w, hd>> \in StrictSubsetOrdering(1..NClaims))
  BY <1>2, FS_StrictSubsetOrderingWellFounded, WFMin
<1>4. PICK x \in T : hd = 1..x
  OBVIOUS
<1>5. ASSUME NEW y \in T, ~(x <= y) PROVE FALSE
  <2>1. x \in hd /\ x \notin 1..y
    BY <1>1, <1>4, <1>5
  <2>2. (1..y) \subseteq hd /\ (1..y) # hd
    BY <1>1, <1>4, <1>5, <2>1
  <2>3. 1..y \in Heads
    OBVIOUS
  <2>4. 1..y \in SUBSET (1..NClaims) /\ hd \in SUBSET (1..NClaims)
    BY <1>1, <1>4
  <2>5. <<1..y, hd>> \in StrictSubsetOrdering(1..NClaims)
    BY <2>2, <2>4 DEF StrictSubsetOrdering
  <2>6. QED
    BY <1>3, <2>3, <2>5
<1>6. QED
  BY <1>5 DEF First

-----------------------------------------------------------------------------
\* What each step does to a round's locals.

LEMMA JobOf ==
  ASSUME Structure, NEW r \in Rounders, pc[r] # "idle"
  PROVE  /\ job[r] \in JobType /\ pc[r] \in {"verify", "record"}
         /\ DOMAIN job = Rounders /\ DOMAIN pc = Rounders
         /\ job[r].l \in LedgerType /\ job[r].todo \subseteq job[r].verified
         /\ job[r].verified \subseteq Claims /\ job[r].verified \in RoundSets
         /\ job[r].l.round + 1 \in 1..Cap /\ Len(job[r].l.rounds) = job[r].l.round
  BY DEF Structure, Typed, RoundFits, Fits, JobType, RoundSets

\* A round's locals change, and no other's.
OnlyRound(r, to, j) ==
  /\ pc' = [pc EXCEPT ![r] = to]
  /\ job' = [job EXCEPT ![r] = j]

LEMMA AskIs ==
  ASSUME Structure, NEW r \in Rounders, Ask(r)
  PROVE  \E j \in JobType, c \in job[r].todo :
           /\ OnlyRound(r, "verify", j)
           /\ j.l = job[r].l /\ j.verified = job[r].verified /\ j.sha = job[r].sha
           /\ j.answers = job[r].answers /\ j.todo = job[r].todo \ {c}
           /\ j.read = [job[r].read EXCEPT ![c] = evidence[c]]
<1>1. pc[r] = "verify" /\ job[r].todo # {} /\ job[r].todo \subseteq Claims /\ job[r] \in JobType
  BY JobOf DEF Ask
<1>2. PICK c \in job[r].todo : c = First(job[r].todo)
  BY <1>1, Least
<1>3. job \in [Rounders -> JobType \cup {<< >>}] /\ pc \in [Rounders -> {"idle", "verify", "record"}]
      /\ evidence \in [Claims -> Texts \cup {Echo}]
  BY DEF Structure, Typed
<1> DEFINE j == [job[r] EXCEPT !.todo = @ \ {c}, !.read = [@ EXCEPT ![c] = evidence[c]]]
<1>4. /\ j \in JobType
      /\ j.l = job[r].l /\ j.verified = job[r].verified /\ j.sha = job[r].sha
      /\ j.answers = job[r].answers /\ j.todo = job[r].todo \ {c}
      /\ j.read = [job[r].read EXCEPT ![c] = evidence[c]]
  BY <1>1, <1>3 DEF JobType
<1>5. job' = [job EXCEPT ![r] = j]
  BY <1>1, <1>2, <1>3 DEF Ask, JobType
<1>6. pc' = [pc EXCEPT ![r] = "verify"]
  BY <1>1, <1>3 DEF Ask
<1> HIDE DEF j
<1>7. QED
  BY <1>4, <1>5, <1>6 DEF OnlyRound

LEMMA AnswerIs ==
  ASSUME Structure, NEW r \in Rounders, Answer(r)
  PROVE  \E j \in JobType, c \in Out(job[r]), a \in Answers :
           /\ OnlyRound(r, "verify", j)
           /\ j.l = job[r].l /\ j.verified = job[r].verified /\ j.sha = job[r].sha
           /\ j.read = job[r].read /\ j.todo = job[r].todo
           /\ j.answers = [job[r].answers EXCEPT ![c] = a]
<1>1. pc[r] = "verify" /\ job[r] \in JobType /\ job[r].verified \subseteq Claims
  BY JobOf DEF Answer
<1>2. PICK c \in Out(job[r]), a \in Answers : job' = [job EXCEPT ![r].answers[c] = a]
  BY DEF Answer
<1>3. job \in [Rounders -> JobType \cup {<< >>}] /\ pc \in [Rounders -> {"idle", "verify", "record"}]
  BY DEF Structure, Typed
<1> DEFINE j == [job[r] EXCEPT !.answers = [@ EXCEPT ![c] = a]]
<1>4. c \in Claims
  BY <1>1, <1>2 DEF Out
<1>5. /\ j \in JobType
      /\ j.l = job[r].l /\ j.verified = job[r].verified /\ j.sha = job[r].sha
      /\ j.read = job[r].read /\ j.todo = job[r].todo
      /\ j.answers = [job[r].answers EXCEPT ![c] = a]
  BY <1>1, <1>4 DEF JobType
<1>6. job' = [job EXCEPT ![r] = j]
  BY <1>1, <1>2, <1>3 DEF JobType
<1>7. pc' = [pc EXCEPT ![r] = "verify"]
  BY <1>1, <1>3 DEF Answer
<1>8. OnlyRound(r, "verify", j)
  BY <1>6, <1>7 DEF OnlyRound
<1> HIDE DEF j
<1>9. QED
  BY <1>2, <1>5, <1>8

LEMMA CollectedIs ==
  ASSUME Structure, NEW r \in Rounders, Collected(r)
  PROVE  \E j \in JobType :
           /\ OnlyRound(r, "record", j)
           /\ j.l = job[r].l /\ j.verified = job[r].verified /\ j.sha = job[r].sha
           /\ j.read = job[r].read /\ j.answers = job[r].answers /\ j.todo = job[r].verified
<1>1. pc[r] = "verify" /\ job[r] \in JobType /\ job[r].verified \subseteq Claims
  BY JobOf DEF Collected
<1>2. job \in [Rounders -> JobType \cup {<< >>}]
  BY DEF Structure, Typed
<1> DEFINE j == [job[r] EXCEPT !.todo = job[r].verified]
<1>3. /\ j \in JobType
      /\ j.l = job[r].l /\ j.verified = job[r].verified /\ j.sha = job[r].sha
      /\ j.read = job[r].read /\ j.answers = job[r].answers /\ j.todo = job[r].verified
  BY <1>1 DEF JobType
<1>4. OnlyRound(r, "record", j)
  BY <1>1, <1>2 DEF Collected, OnlyRound
<1> HIDE DEF j
<1>5. QED
  BY <1>3, <1>4

\* The verdict of a claim, in the copy of the ledger.
Judgement(j, c) ==
  [state   |-> nextState(j.answers[c]),
   reason  |-> j.l.claims[c].reason /\ j.l.claims[c].state # "recheck",
   sha     |-> j.sha[c],
   history |-> Append(j.l.claims[c].history,
                 [round |-> j.l.round + 1, answer |-> j.answers[c], sha |-> j.sha[c]])]

LEMMA NextStates ==
  \A a : nextState(a) \in {"needs-action", "blocked-on-test", "settled"}
  BY DEF nextState

LEMMA JudgementIs ==
  ASSUME NEW j \in JobType, NEW c \in Claims, j.answers[c] \in Answers, j.l.round + 1 \in 1..Cap
  PROVE  Judgement(j, c) \in ClaimType
<1>1. j.l \in LedgerType /\ j.l.claims[c] \in ClaimType /\ j.sha[c] \in Texts \cup {Echo}
  BY DEF JobType, LedgerType
<1>2. j.l.claims[c].history \in Seq(Entry)
  BY <1>1 DEF ClaimType
<1>3. [round |-> j.l.round + 1, answer |-> j.answers[c], sha |-> j.sha[c]] \in Entry
  BY <1>1 DEF Entry
<1>4. Append(j.l.claims[c].history,
             [round |-> j.l.round + 1, answer |-> j.answers[c], sha |-> j.sha[c]]) \in Seq(Entry)
  BY <1>2, <1>3, AppendProperties
<1>5. nextState(j.answers[c]) \in LegalStates
  BY NextStates DEF LegalStates, Active, Done
<1>6. (j.l.claims[c].reason /\ j.l.claims[c].state # "recheck") \in BOOLEAN
  OBVIOUS
<1>7. QED
  BY <1>1, <1>4, <1>5, <1>6 DEF Judgement, ClaimType

LEMMA RecordIs ==
  ASSUME Structure, NEW r \in Rounders, Record(r)
  PROVE  \E j \in JobType, c \in job[r].todo :
           /\ OnlyRound(r, "record", j)
           /\ job[r].answers[c] \in Answers
           /\ files' = [files EXCEPT ![c][job[r].l.round + 1] =
                          [answer |-> job[r].answers[c], about |-> job[r].read[c]]]
           /\ j.verified = job[r].verified /\ j.sha = job[r].sha
           /\ j.read = job[r].read /\ j.answers = job[r].answers /\ j.todo = job[r].todo \ {c}
           /\ j.l.round = job[r].l.round /\ j.l.rounds = job[r].l.rounds
           /\ j.l.claims = [job[r].l.claims EXCEPT ![c] = Judgement(job[r], c)]
<1>1. /\ pc[r] = "record" /\ job[r].todo # {} /\ job[r].todo \subseteq Claims
      /\ job[r].todo \subseteq job[r].verified
      /\ job[r] \in JobType /\ job[r].l \in LedgerType /\ job[r].l.round + 1 \in 1..Cap
  BY JobOf DEF Record
<1>2. PICK c \in job[r].todo : c = First(job[r].todo)
  BY <1>1, Least
<1>3. job[r].answers[c] \in Answers
  BY <1>1 DEF Structure, RoundFits, Fits
<1>4. job \in [Rounders -> JobType \cup {<< >>}] /\ pc \in [Rounders -> {"idle", "verify", "record"}]
  BY DEF Structure, Typed
<1>5. Judgement(job[r], c) \in ClaimType
  BY <1>1, <1>3, JudgementIs
<1> DEFINE l == [job[r].l EXCEPT !.claims = [@ EXCEPT ![c] = Judgement(job[r], c)]]
<1>6. /\ l \in LedgerType
      /\ l.round = job[r].l.round /\ l.rounds = job[r].l.rounds
      /\ l.claims = [job[r].l.claims EXCEPT ![c] = Judgement(job[r], c)]
  BY <1>1, <1>5 DEF LedgerType
<1>7. /\ job' = [job EXCEPT ![r] = [job[r] EXCEPT !.todo = @ \ {c}, !.l = l]]
      /\ files' = [files EXCEPT ![c][job[r].l.round + 1] =
                     [answer |-> job[r].answers[c], about |-> job[r].read[c]]]
  BY <1>1, <1>2, <1>4 DEF Record, Judgement, JobType, LedgerType
<1> HIDE DEF l
<1> DEFINE j == [job[r] EXCEPT !.todo = @ \ {c}, !.l = l]
<1>8. /\ j \in JobType /\ j.l = l
      /\ j.verified = job[r].verified /\ j.sha = job[r].sha
      /\ j.read = job[r].read /\ j.answers = job[r].answers /\ j.todo = job[r].todo \ {c}
  BY <1>1, <1>6 DEF JobType
<1>9. pc' = [pc EXCEPT ![r] = "record"]
  BY <1>1, <1>4 DEF Record
<1>10. OnlyRound(r, "record", j)
  BY <1>7, <1>9 DEF OnlyRound
<1> HIDE DEF j
<1>11. QED
  BY <1>3, <1>6, <1>7, <1>8, <1>10

LEMMA StartIs ==
  ASSUME Structure, NEW r \in Rounders, Start(r)
  PROVE  \E j \in JobType :
           /\ OnlyRound(r, "verify", j)
           /\ j.l = ledger /\ j.todo = j.verified /\ j.sha = evidence
           /\ j.verified = In(ledger, Active)
<1>1. ledger \in LedgerType /\ evidence \in [Claims -> Texts \cup {Echo}]
  BY DEF Structure, Typed
<1>2. In(ledger, Active) \in RoundSets
  <2>1. In(ledger, Active) \subseteq Claims
    BY DEF In
  <2>2. In(ledger, Active) # {}
    BY DEF Start
  <2>3. In(ledger, Active) \in SUBSET Claims /\ In(ledger, Active) \notin {{}}
    BY <2>1, <2>2
  <2>4. QED
    BY <2>3 DEF RoundSets
<1> DEFINE j == [l |-> ledger, todo |-> In(ledger, Active),
                 verified |-> In(ledger, Active), sha |-> evidence,
                 read |-> [c \in Claims |-> NoText],
                 answers |-> [c \in Claims |-> NoAnswer]]
<1>3. j \in JobType
  BY <1>1, <1>2 DEF JobType, RoundSets
<1>4. OnlyRound(r, "verify", j)
  BY DEF Start, OnlyRound
<1>5. QED
  BY <1>3, <1>4

-----------------------------------------------------------------------------
\* Types, for any rounds at the same time and any session.

\* A round that moves as it should leaves every round fitting.
LEMMA RoundMoves ==
  ASSUME Structure, NEW r \in Rounders, NEW to \in {"idle", "verify", "record"},
         NEW j \in JobType \cup {<< >>}, Fits(to, j), OnlyRound(r, to, j)
  PROVE  /\ pc' \in [Rounders -> {"idle", "verify", "record"}]
         /\ job' \in [Rounders -> JobType \cup {<< >>}]
         /\ \A q \in Rounders : RoundFits(q)'
<1>1. pc \in [Rounders -> {"idle", "verify", "record"}] /\ job \in [Rounders -> JobType \cup {<< >>}]
  BY DEF Structure, Typed
<1>2. \A q \in Rounders : IF q = r THEN pc'[q] = to /\ job'[q] = j
                                   ELSE pc'[q] = pc[q] /\ job'[q] = job[q]
  BY <1>1 DEF OnlyRound
<1>3. \A q \in Rounders : Fits(pc[q], job[q])
  BY DEF Structure, RoundFits
<1>4. \A q \in Rounders : Fits(pc'[q], job'[q])
  BY <1>2, <1>3
<1>5. QED
  BY <1>1, <1>4 DEF OnlyRound, RoundFits, Fits

LEMMA RoundsStay ==
  ASSUME Structure, UNCHANGED <<pc, job>>
  PROVE  /\ pc' \in [Rounders -> {"idle", "verify", "record"}]
         /\ job' \in [Rounders -> JobType \cup {<< >>}]
         /\ \A q \in Rounders : RoundFits(q)'
  BY DEF Structure, Typed, RoundFits, Fits

\* A round that ends, recorded or not.
LEMMA RoundEnds ==
  ASSUME Structure, NEW r \in Rounders, OnlyRound(r, "idle", << >>)
  PROVE  /\ pc' \in [Rounders -> {"idle", "verify", "record"}]
         /\ job' \in [Rounders -> JobType \cup {<< >>}]
         /\ \A q \in Rounders : RoundFits(q)'
<1>1. Fits("idle", << >>)
  BY DEF Fits
<1>2. QED
  BY <1>1, RoundMoves

LEMMA OneFile ==
  ASSUME Typed, NEW c \in Claims, NEW n \in 1..Cap, NEW f \in FileType,
         files' = [files EXCEPT ![c][n] = f]
  PROVE  files' \in [Claims -> [1..Cap -> FileType]]
  BY DEF Typed

LEMMA StartStructure ==
  ASSUME Structure, NEW r \in Rounders, Start(r)
  PROVE  Structure'
<1>1. PICK j \in JobType :
           /\ OnlyRound(r, "verify", j)
           /\ j.l = ledger /\ j.todo = j.verified /\ j.sha = evidence
           /\ j.verified = In(ledger, Active)
  BY StartIs
<1>2. ledger.round + 1 \in 1..Cap /\ Len(ledger.rounds) = ledger.round
  BY ConvergeAssumption DEF Start, Structure, Typed, LedgerType
<1>3. Fits("verify", j)
  BY <1>1, <1>2 DEF Fits
<1>4. /\ pc' \in [Rounders -> {"idle", "verify", "record"}]
      /\ job' \in [Rounders -> JobType \cup {<< >>}]
      /\ \A q \in Rounders : RoundFits(q)'
  BY <1>1, <1>3, RoundMoves
<1>5. QED
  BY <1>4 DEF Start, Structure, Typed

LEMMA AskStructure ==
  ASSUME Structure, NEW r \in Rounders, Ask(r)
  PROVE  Structure'
<1>1. PICK j \in JobType, c \in job[r].todo :
           /\ OnlyRound(r, "verify", j)
           /\ j.l = job[r].l /\ j.verified = job[r].verified /\ j.sha = job[r].sha
           /\ j.answers = job[r].answers /\ j.todo = job[r].todo \ {c}
           /\ j.read = [job[r].read EXCEPT ![c] = evidence[c]]
  BY AskIs
<1>2. Fits("verify", job[r])
  BY DEF Ask, Structure, RoundFits
<1>3. evidence \in [Claims -> Texts \cup {Echo}]
  BY DEF Structure, Typed
<1>4. job[r].verified \subseteq Claims /\ job[r].todo \subseteq job[r].verified
      /\ job[r].read \in [Claims -> Texts \cup {Echo, NoText}]
  BY <1>2 DEF Fits, JobType, RoundSets
<1>5. \A d \in j.verified \ j.todo : j.read[d] # NoText
  BY <1>1, <1>2, <1>3, <1>4, ConvergeAssumption DEF Fits
<1>6. Fits("verify", j)
  BY <1>1, <1>2, <1>5 DEF Fits
<1>7. /\ pc' \in [Rounders -> {"idle", "verify", "record"}]
      /\ job' \in [Rounders -> JobType \cup {<< >>}]
      /\ \A q \in Rounders : RoundFits(q)'
  BY <1>1, <1>6, RoundMoves
<1>8. QED
  BY <1>7 DEF Ask, Structure, Typed

LEMMA AnswerStructure ==
  ASSUME Structure, NEW r \in Rounders, Answer(r)
  PROVE  Structure'
<1>1. PICK j \in JobType, c \in Out(job[r]), a \in Answers :
           /\ OnlyRound(r, "verify", j)
           /\ j.l = job[r].l /\ j.verified = job[r].verified /\ j.sha = job[r].sha
           /\ j.read = job[r].read /\ j.todo = job[r].todo
           /\ j.answers = [job[r].answers EXCEPT ![c] = a]
  BY AnswerIs
<1>2. Fits("verify", job[r])
  BY DEF Answer, Structure, RoundFits
<1>3. Fits("verify", j)
  BY <1>1, <1>2 DEF Fits
<1>4. /\ pc' \in [Rounders -> {"idle", "verify", "record"}]
      /\ job' \in [Rounders -> JobType \cup {<< >>}]
      /\ \A q \in Rounders : RoundFits(q)'
  BY <1>1, <1>3, RoundMoves
<1>5. halts' \in 0..MaxHalts
  <2>1. halts' = halts \/ (halts < MaxHalts /\ halts' = halts + 1)
    BY DEF Answer
  <2>2. halts \in 0..MaxHalts /\ MaxHalts \in Nat
    BY ConvergeAssumption DEF Structure, Typed
  <2>3. QED
    BY <2>1, <2>2
<1>6. QED
  BY <1>4, <1>5 DEF Answer, Structure, Typed

LEMMA CollectedStructure ==
  ASSUME Structure, NEW r \in Rounders, Collected(r)
  PROVE  Structure'
<1>1. PICK j \in JobType :
           /\ OnlyRound(r, "record", j)
           /\ j.l = job[r].l /\ j.verified = job[r].verified /\ j.sha = job[r].sha
           /\ j.read = job[r].read /\ j.answers = job[r].answers /\ j.todo = job[r].verified
  BY CollectedIs
<1>2. Fits("verify", job[r]) /\ job[r].todo = {} /\ Out(job[r]) = {}
  BY DEF Collected, Structure, RoundFits
<1>3. \A c \in job[r].verified : job[r].answers[c] \in Answers
  BY <1>2 DEF Fits, Out, JobType, RoundSets
<1>4. Fits("record", j)
  BY <1>1, <1>2, <1>3 DEF Fits
<1>5. /\ pc' \in [Rounders -> {"idle", "verify", "record"}]
      /\ job' \in [Rounders -> JobType \cup {<< >>}]
      /\ \A q \in Rounders : RoundFits(q)'
  BY <1>1, <1>4, RoundMoves
<1>6. QED
  BY <1>5 DEF Collected, Structure, Typed

LEMMA RecordStructure ==
  ASSUME Structure, NEW r \in Rounders, Record(r)
  PROVE  Structure'
<1>1. PICK j \in JobType, c \in job[r].todo :
           /\ OnlyRound(r, "record", j)
           /\ job[r].answers[c] \in Answers
           /\ files' = [files EXCEPT ![c][job[r].l.round + 1] =
                          [answer |-> job[r].answers[c], about |-> job[r].read[c]]]
           /\ j.verified = job[r].verified /\ j.sha = job[r].sha
           /\ j.read = job[r].read /\ j.answers = job[r].answers /\ j.todo = job[r].todo \ {c}
           /\ j.l.round = job[r].l.round /\ j.l.rounds = job[r].l.rounds
           /\ j.l.claims = [job[r].l.claims EXCEPT ![c] = Judgement(job[r], c)]
  BY RecordIs
<1>2. Fits("record", job[r])
  BY DEF Record, Structure, RoundFits
<1>3. Fits("record", j)
  BY <1>1, <1>2 DEF Fits
<1>4. /\ pc' \in [Rounders -> {"idle", "verify", "record"}]
      /\ job' \in [Rounders -> JobType \cup {<< >>}]
      /\ \A q \in Rounders : RoundFits(q)'
  BY <1>1, <1>3, RoundMoves
<1>5. c \in Claims /\ job[r].read \in [Claims -> Texts \cup {Echo, NoText}]
      /\ job[r].l.round + 1 \in 1..Cap
  BY <1>2 DEF Fits, JobType, RoundSets
<1>6. [answer |-> job[r].answers[c], about |-> job[r].read[c]] \in FileType
  BY <1>1, <1>5 DEF FileType
<1>7. files' \in [Claims -> [1..Cap -> FileType]]
  BY <1>1, <1>5, <1>6, OneFile DEF Structure
<1>8. QED
  BY <1>4, <1>7 DEF Record, Structure, Typed

\* What the round's copy becomes as the ledger.
LEMMA WriteLedgerIs ==
  ASSUME Structure, NEW r \in Rounders, WriteLedger(r)
  PROVE  /\ OnlyRound(r, "idle", << >>)
         /\ ledger'.claims = job[r].l.claims
         /\ ledger'.round = job[r].l.round + 1
         /\ ledger'.rounds = Append(job[r].l.rounds, job[r].verified)
         /\ ledger' \in LedgerType /\ Len(ledger'.rounds) = ledger'.round
<1>1. /\ pc[r] = "record" /\ job[r] \in JobType /\ job[r].l \in LedgerType
      /\ job[r].l.round + 1 \in 1..Cap /\ job[r].verified \in RoundSets
      /\ Len(job[r].l.rounds) = job[r].l.round
  BY JobOf DEF WriteLedger, Structure, RoundFits, Fits
<1>2. job[r].l.rounds \in Seq(RoundSets) /\ Cap \in Nat
  BY <1>1, ConvergeAssumption DEF LedgerType
<1>3. /\ Append(job[r].l.rounds, job[r].verified) \in Seq(RoundSets)
      /\ Len(Append(job[r].l.rounds, job[r].verified)) = job[r].l.round + 1
  BY <1>1, <1>2, AppendProperties
<1>4. ledger' = [job[r].l EXCEPT !.round = @ + 1, !.rounds = Append(@, job[r].verified)]
  BY DEF WriteLedger
<1>5. /\ ledger'.claims = job[r].l.claims
      /\ ledger'.round = job[r].l.round + 1
      /\ ledger'.rounds = Append(job[r].l.rounds, job[r].verified)
  BY <1>1, <1>4 DEF LedgerType
<1>6. ledger' \in LedgerType
  <2>1. job[r].l.round + 1 \in 0..Cap
    BY <1>1, <1>2
  <2>2. QED
    BY <1>1, <1>3, <1>4, <2>1 DEF LedgerType
<1>7. OnlyRound(r, "idle", << >>)
  BY DEF WriteLedger, OnlyRound
<1>8. QED
  BY <1>3, <1>5, <1>6, <1>7

LEMMA WriteLedgerStructure ==
  ASSUME Structure, NEW r \in Rounders, WriteLedger(r)
  PROVE  Structure'
<1>1. OnlyRound(r, "idle", << >>) /\ ledger' \in LedgerType /\ Len(ledger'.rounds) = ledger'.round
  BY WriteLedgerIs
<1>2. /\ pc' \in [Rounders -> {"idle", "verify", "record"}]
      /\ job' \in [Rounders -> JobType \cup {<< >>}]
      /\ \A q \in Rounders : RoundFits(q)'
  BY <1>1, RoundEnds
<1>3. QED
  BY <1>1, <1>2 DEF WriteLedger, Structure, Typed

LEMMA HaltRecordIs ==
  ASSUME Structure, NEW r \in Rounders, HaltRecord(r)
  PROVE  /\ OnlyRound(r, "idle", << >>)
         /\ job[r].todo # {} /\ First(job[r].todo) \in job[r].todo
         /\ LET c == First(job[r].todo)
            IN files' = [files EXCEPT ![c][job[r].l.round + 1] =
                           [answer |-> job[r].answers[c], about |-> job[r].read[c]]]
<1>1. pc[r] = "record" /\ job[r].todo # {} /\ job[r].todo \subseteq Claims
  BY JobOf DEF HaltRecord
<1>2. First(job[r].todo) \in job[r].todo
  BY <1>1, Least
<1>3. QED
  BY <1>1, <1>2 DEF HaltRecord, Stop, OnlyRound

LEMMA HaltStructure ==
  ASSUME Structure, NEW r \in Rounders, HaltRecord(r) \/ HaltVerify(r) \/ Killed(r)
  PROVE  Structure'
<1>1. OnlyRound(r, "idle", << >>)
  BY DEF HaltRecord, HaltVerify, Killed, Stop, OnlyRound
<1>2. /\ pc' \in [Rounders -> {"idle", "verify", "record"}]
      /\ job' \in [Rounders -> JobType \cup {<< >>}]
      /\ \A q \in Rounders : RoundFits(q)'
  BY <1>1, RoundEnds
<1>3. UNCHANGED <<ledger, evidence, outcome, slips>>
  BY DEF HaltRecord, HaltVerify, Killed, Stop
<1>4. halts' \in 0..MaxHalts
  <2>1. halts' = halts \/ (halts < MaxHalts /\ halts' = halts + 1)
    BY DEF HaltRecord, HaltVerify, Killed, Counted
  <2>2. halts \in 0..MaxHalts /\ MaxHalts \in Nat
    BY ConvergeAssumption DEF Structure, Typed
  <2>3. QED
    BY <2>1, <2>2
<1>5. files' \in [Claims -> [1..Cap -> FileType]]
  <2>1. CASE HaltRecord(r)
    <3> DEFINE c == First(job[r].todo)
    <3>1. /\ c \in job[r].todo
          /\ files' = [files EXCEPT ![c][job[r].l.round + 1] =
                         [answer |-> job[r].answers[c], about |-> job[r].read[c]]]
      BY <2>1, HaltRecordIs
    <3>2. Fits("record", job[r])
      BY <2>1 DEF HaltRecord, Structure, RoundFits
    <3> HIDE DEF c
    <3>3. /\ c \in Claims /\ job[r].l.round + 1 \in 1..Cap
          /\ [answer |-> job[r].answers[c], about |-> job[r].read[c]] \in FileType
      BY <3>1, <3>2 DEF Fits, JobType, RoundSets, FileType
    <3>4. QED
      BY <3>1, <3>3, OneFile DEF Structure
  <2>2. CASE HaltVerify(r) \/ Killed(r)
    BY <2>2 DEF HaltVerify, Killed, Structure, Typed
  <2>3. QED
    BY <2>1, <2>2
<1>6. QED
  BY <1>2, <1>3, <1>4, <1>5 DEF Structure, Typed

\* The session's moves on one claim.
LEMMA SetIs ==
  ASSUME Structure, NEW c \in Claims, NEW state \in LegalStates, NEW reason \in BOOLEAN,
         Set(c, state, reason)
  PROVE  /\ ledger'.round = ledger.round /\ ledger'.rounds = ledger.rounds
         /\ ledger' \in LedgerType
         /\ ledger'.claims[c].state = state /\ ledger'.claims[c].reason = reason
         /\ ledger'.claims[c].sha = ledger.claims[c].sha
         /\ ledger'.claims[c].history = ledger.claims[c].history
         /\ \A d \in Claims \ {c} : ledger'.claims[d] = ledger.claims[d]
<1>1. ledger \in LedgerType /\ ledger.claims \in [Claims -> ClaimType] /\ ledger.claims[c] \in ClaimType
  BY DEF Structure, Typed, LedgerType
<1> DEFINE k == [ledger.claims[c] EXCEPT !.state = state, !.reason = reason]
<1>2. /\ k \in ClaimType /\ k.state = state /\ k.reason = reason
      /\ k.sha = ledger.claims[c].sha /\ k.history = ledger.claims[c].history
  BY <1>1 DEF ClaimType
<1>3. ledger' = [ledger EXCEPT !.claims = [@ EXCEPT ![c] = k]]
  BY <1>1 DEF Set, LedgerType, ClaimType
<1> HIDE DEF k
<1>4. ledger'.claims = [ledger.claims EXCEPT ![c] = k] /\ ledger' \in LedgerType
      /\ ledger'.round = ledger.round /\ ledger'.rounds = ledger.rounds
  BY <1>1, <1>2, <1>3 DEF LedgerType
<1>5. QED
  BY <1>1, <1>2, <1>4

LEMMA SetStructure ==
  ASSUME Structure, NEW c \in Claims, NEW state \in LegalStates, NEW reason \in BOOLEAN,
         Set(c, state, reason)
  PROVE  Structure'
<1>1. ledger' \in LedgerType /\ ledger'.round = ledger.round /\ ledger'.rounds = ledger.rounds
  BY SetIs
<1>2. UNCHANGED <<evidence, files, pc, job, outcome, slips, halts>>
  BY DEF Set
<1>3. QED
  BY <1>1, <1>2, RoundsStay DEF Structure, Typed

LEMMA WriteStructure ==
  ASSUME Structure, NEW c \in Claims, NEW t \in Texts \cup {Echo}, Write(c, t),
         slips' \in 0..MaxSlips
  PROVE  Structure'
<1>1. UNCHANGED <<ledger, files, pc, job, outcome, halts>>
      /\ evidence' = [evidence EXCEPT ![c] = t]
  BY DEF Write
<1>2. evidence' \in [Claims -> Texts \cup {Echo}]
  BY <1>1 DEF Structure, Typed
<1>3. QED
  BY <1>1, <1>2, RoundsStay DEF Structure, Typed

LEMMA SessionStructure ==
  ASSUME Structure, NEW c \in Claims, Process(c) \/ Cascade(c) \/ Reground(c) \/ CopyVerdict(c)
  PROVE  Structure'
<1>1. {"recheck", "settled", "escalate", "pending"} \subseteq LegalStates
  BY DEF LegalStates, Active, Done
<1>2. CASE Process(c) \/ Cascade(c)
  <2>1. PICK state \in LegalStates, reason \in BOOLEAN : Set(c, state, reason)
    BY <1>1, <1>2 DEF Process, Cascade
  <2>2. QED
    BY <2>1, SetStructure
<1>3. CASE Reground(c)
  <2>1. PICK t \in Texts : Write(c, t)
    BY <1>3 DEF Reground
  <2>2. slips' \in 0..MaxSlips
    BY <1>3 DEF Reground, Structure, Typed
  <2>3. QED
    BY <2>1, <2>2, WriteStructure
<1>4. CASE CopyVerdict(c)
  <2>1. Write(c, Echo) /\ slips' = slips + 1 /\ slips < MaxSlips
    BY <1>4 DEF CopyVerdict
  <2>2. slips' \in 0..MaxSlips
    <3>1. slips \in 0..MaxSlips /\ MaxSlips \in Nat
      BY ConvergeAssumption DEF Structure, Typed
    <3>2. QED
      BY <2>1, <3>1
  <2>3. QED
    BY <2>1, <2>2, WriteStructure
<1>5. QED
  BY <1>2, <1>3, <1>4

LEMMA DisposeStructure ==
  ASSUME Structure, Dispose
  PROVE  Structure'
<1>1. outcome' \in {"none", "ESCALATE", "CONVERGENCE CANDIDATE"}
  BY DEF Dispose, proposal
<1>2. UNCHANGED <<ledger, evidence, files, pc, job, slips, halts>>
  BY DEF Dispose
<1>3. QED
  BY <1>1, <1>2, RoundsStay DEF Structure, Typed

LEMMA InitStructure == Init => Structure
<1> SUFFICES ASSUME Init PROVE Structure
  OBVIOUS
<1>1. << >> \in Seq(RoundSets) /\ Len(<< >>) = 0 /\ << >> \in Seq(Entry)
  OBVIOUS
<1>2. Cap \in Nat /\ MaxSlips \in Nat /\ MaxHalts \in Nat
  BY ConvergeAssumption
<1>3. [state |-> "pending", reason |-> FALSE, sha |-> NoText, history |-> << >>] \in ClaimType
  BY <1>1 DEF ClaimType, LegalStates, Active
<1>4. ledger \in LedgerType /\ Len(ledger.rounds) = ledger.round
  BY <1>1, <1>2, <1>3 DEF Init, LedgerType
<1>5. files \in [Claims -> [1..Cap -> FileType]]
  BY DEF Init, NoFile, FileType
<1>6. evidence \in [Claims -> Texts \cup {Echo}]
  BY DEF Init
<1>7. /\ pc \in [Rounders -> {"idle", "verify", "record"}]
      /\ job \in [Rounders -> JobType \cup {<< >>}]
      /\ \A r \in Rounders : RoundFits(r)
  BY DEF Init, RoundFits, Fits
<1>8. /\ outcome \in {"none", "ESCALATE", "CONVERGENCE CANDIDATE"}
      /\ slips \in 0..MaxSlips /\ halts \in 0..MaxHalts
  BY <1>2 DEF Init
<1>9. QED
  BY <1>4, <1>5, <1>6, <1>7, <1>8 DEF Structure, Typed

LEMMA StructureStep == Structure /\ [Next]_vars => Structure'
<1> SUFFICES ASSUME Structure, [Next]_vars PROVE Structure'
  OBVIOUS
<1>1. ASSUME NEW r \in Rounders, Start(r) \/ RoundStep(r) \/ HaltVerify(r) \/ Killed(r)
      PROVE  Structure'
  BY <1>1, StartStructure, AskStructure, AnswerStructure, CollectedStructure, RecordStructure,
     WriteLedgerStructure, HaltStructure DEF RoundStep
<1>2. ASSUME NEW c \in Claims, Process(c) \/ Cascade(c) \/ Reground(c) \/ CopyVerdict(c)
      PROVE  Structure'
  BY <1>2, SessionStructure
<1>3. CASE UNCHANGED vars
  <2>1. UNCHANGED <<ledger, evidence, files, pc, job, outcome, slips, halts>>
    BY <1>3 DEF vars
  <2>2. QED
    BY <2>1, RoundsStay DEF Structure, Typed
<1>4. QED
  BY <1>1, <1>2, <1>3, DisposeStructure DEF Next

LEMMA StructureGivesTypes == Structure => TypeOK
<1> SUFFICES ASSUME Structure PROVE TypeOK
  OBVIOUS
<1>1. \A n \in DOMAIN ledger.rounds : ledger.rounds[n] \in RoundSets
  <2>1. ledger.rounds \in Seq(RoundSets)
    BY DEF Structure, Typed, LedgerType
  <2>2. QED
    BY <2>1, ElementOfSeq
<1>2. QED
  BY <1>1 DEF Structure, Typed, LedgerType, TypeOK, RoundSets, FileType

\* The ledger, the evidence, the verdict files and the rounds' places keep their types,
\* for any number of converge.js processes at once, any session, halts and kills; the
\* ledger has one record per round that it counts, and never more rounds than the cap.
THEOREM TypeCorrect == Spec => []TypeOK
<1>1. Spec => []Structure
  BY InitStructure, StructureStep, PTL DEF Spec
<1>2. QED
  BY <1>1, StructureGivesTypes, PTL

-----------------------------------------------------------------------------
\* The rounds of a session that waits for them.

\* The only round moves.
LEMMA RoundRuns ==
  ASSUME Disciplined, Structure, NEW r \in Rounders, NEW to \in {"idle", "verify", "record"},
         NEW j, OnlyRound(r, to, j), to # "idle" => Runs(to, j)'
  PROVE  \A q \in Rounders : RoundSound(q)'
<1>1. \A q \in Rounders : pc'[q] = to /\ job'[q] = j
  BY DEF Disciplined, OnlyRound, Structure, Typed
<1>2. QED
  BY <1>1 DEF RoundSound, Runs, Recorded, In

\* What a round does without writing leaves the ledger's own facts alone.
LEMMA RoundOnly ==
  ASSUME Disciplined, Structure, Sound, NEW r \in Rounders,
         NEW to \in {"idle", "verify", "record"}, NEW j,
         OnlyRound(r, to, j), to # "idle" => Runs(to, j)',
         UNCHANGED <<ledger, evidence, files, outcome>>
  PROVE  Sound'
<1>1. \A q \in Rounders : RoundSound(q)'
  BY RoundRuns
<1>2. (\A c \in Claims : ClaimSound(c))'
  BY DEF Sound, ClaimSound
<1>3. \A c \in Claims : Entries(c)' = Entries(c)
  BY DEF Entries
<1>4. VerdictOnRecord'
  BY <1>3 DEF Sound, VerdictOnRecord
<1>5. NoEchoJudged' /\ ConvergedOnWhatWasJudged'
  BY DEF Sound, NoEchoJudged, ConvergedOnWhatWasJudged
<1>6. QED
  BY <1>1, <1>2, <1>4, <1>5 DEF Sound

LEMMA StartSound ==
  ASSUME Disciplined, Structure, Sound, NEW r \in Rounders, Start(r)
  PROVE  Sound'
<1>1. PICK j \in JobType :
           /\ OnlyRound(r, "verify", j)
           /\ j.l = ledger /\ j.todo = j.verified /\ j.sha = evidence
           /\ j.verified = In(ledger, Active)
  BY StartIs
<1>2. /\ outcome = "none" /\ In(ledger, {"escalate", "needs-action"}) = {}
      /\ \A c \in In(ledger, Active) : PassesGates(c)
      /\ UNCHANGED <<ledger, evidence, files, outcome>>
  BY DEF Start
<1>3. Runs("verify", j)
  BY <1>1, <1>2 DEF Runs, PassesGates
<1>4. Runs("verify", j)'
  BY <1>2, <1>3 DEF Runs, Recorded, In
<1>5. QED
  BY <1>1, <1>2, <1>4, RoundOnly

\* Where the only round is.
LEMMA RunsNow ==
  ASSUME Structure, Sound, NEW r \in Rounders, pc[r] # "idle"
  PROVE  Runs(pc[r], job[r])
  BY DEF Sound, RoundSound

LEMMA AskSound ==
  ASSUME Disciplined, Structure, Sound, NEW r \in Rounders, Ask(r)
  PROVE  Sound'
<1>1. PICK j \in JobType, c \in job[r].todo :
           /\ OnlyRound(r, "verify", j)
           /\ j.l = job[r].l /\ j.verified = job[r].verified /\ j.sha = job[r].sha
           /\ j.answers = job[r].answers /\ j.todo = job[r].todo \ {c}
           /\ j.read = [job[r].read EXCEPT ![c] = evidence[c]]
  BY AskIs
<1>2. Runs("verify", job[r]) /\ UNCHANGED <<ledger, evidence, files, outcome>>
  BY RunsNow DEF Ask
<1>3. DOMAIN job[r].read = Claims /\ job[r].todo \subseteq Claims /\ job[r].verified \subseteq Claims
  BY JobOf DEF Ask, JobType
<1>4. Runs("verify", j)
  BY <1>1, <1>2, <1>3 DEF Runs
<1>5. Runs("verify", j)'
  BY <1>2, <1>4 DEF Runs, Recorded, In
<1>6. QED
  BY <1>1, <1>2, <1>5, RoundOnly

LEMMA AnswerSound ==
  ASSUME Disciplined, Structure, Sound, NEW r \in Rounders, Answer(r)
  PROVE  Sound'
<1>1. PICK j \in JobType, c \in Out(job[r]), a \in Answers :
           /\ OnlyRound(r, "verify", j)
           /\ j.l = job[r].l /\ j.verified = job[r].verified /\ j.sha = job[r].sha
           /\ j.read = job[r].read /\ j.todo = job[r].todo
           /\ j.answers = [job[r].answers EXCEPT ![c] = a]
  BY AnswerIs
<1>2. Runs("verify", job[r]) /\ UNCHANGED <<ledger, evidence, files, outcome>>
  BY RunsNow DEF Answer
<1>3. Runs("verify", j)
  BY <1>1, <1>2 DEF Runs
<1>4. Runs("verify", j)'
  BY <1>2, <1>3 DEF Runs, Recorded, In
<1>5. QED
  BY <1>1, <1>2, <1>4, RoundOnly

LEMMA CollectedSound ==
  ASSUME Disciplined, Structure, Sound, NEW r \in Rounders, Collected(r)
  PROVE  Sound'
<1>1. PICK j \in JobType :
           /\ OnlyRound(r, "record", j)
           /\ j.l = job[r].l /\ j.verified = job[r].verified /\ j.sha = job[r].sha
           /\ j.read = job[r].read /\ j.answers = job[r].answers /\ j.todo = job[r].verified
  BY CollectedIs
<1>2. Runs("verify", job[r]) /\ job[r].todo = {} /\ UNCHANGED <<ledger, evidence, files, outcome>>
  BY RunsNow DEF Collected
<1>3. Runs("record", j)
  BY <1>1, <1>2 DEF Runs
<1>4. Runs("record", j)'
  BY <1>2, <1>3 DEF Runs, Recorded, In
<1>5. QED
  BY <1>1, <1>2, <1>4, RoundOnly

LEMMA HaltSound ==
  ASSUME Disciplined, Structure, Sound, NEW r \in Rounders, HaltVerify(r) \/ Killed(r)
  PROVE  Sound'
<1>1. OnlyRound(r, "idle", << >>) /\ UNCHANGED <<ledger, evidence, files, outcome>>
  BY DEF HaltVerify, Killed, Stop, OnlyRound
<1>2. QED
  BY <1>1, RoundOnly

LEMMA RoundsAre ==
  ASSUME Structure
  PROVE  /\ ledger.round \in Nat /\ ledger.rounds \in Seq(RoundSets)
         /\ DOMAIN ledger.rounds = 1..ledger.round
<1>1. ledger \in LedgerType /\ Len(ledger.rounds) = ledger.round
  BY DEF Structure, Typed
<1>2. ledger.rounds \in Seq(RoundSets) /\ ledger.round \in 0..Cap /\ Cap \in Nat
  BY <1>1, ConvergeAssumption DEF LedgerType
<1>3. QED
  BY <1>1, <1>2

\* A verdict file of the round under way: no entry of the ledger has it for its own.
LEMMA NewFile ==
  ASSUME Structure, Sound, NEW c \in Claims, NEW n \in 1..Cap, n = ledger.round + 1,
         NEW f, f.about # Echo, files' = [files EXCEPT ![c][n] = f], UNCHANGED ledger
  PROVE  VerdictOnRecord' /\ NoEchoJudged'
<1>1. DOMAIN ledger.rounds = 1..ledger.round /\ ledger.round \in Nat
      /\ files \in [Claims -> [1..Cap -> FileType]]
  BY RoundsAre DEF Structure, Typed
<1>2. \A d \in Claims, m \in 1..Cap :
         files'[d][m] = IF d = c /\ m = n THEN f ELSE files[d][m]
  BY <1>1
<1>3. \A d \in Claims : \A h \in Entries(d) : h.round \in DOMAIN ledger.rounds
  BY DEF Sound, VerdictOnRecord
<1>4. \A d \in Claims : Entries(d)' = Entries(d)
  BY DEF Entries
<1>5. \A d \in Claims : \A h \in Entries(d) : files'[d][h.round] = files[d][h.round]
  BY <1>1, <1>3
<1>6. VerdictOnRecord'
  BY <1>4, <1>5 DEF Sound, VerdictOnRecord
<1>7. NoEchoJudged'
  BY <1>2 DEF Sound, NoEchoJudged
<1>8. QED
  BY <1>6, <1>7

LEMMA RecordSound ==
  ASSUME Disciplined, Structure, Sound, NEW r \in Rounders, Record(r)
  PROVE  Sound'
<1>1. PICK j \in JobType, c \in job[r].todo :
           /\ OnlyRound(r, "record", j)
           /\ job[r].answers[c] \in Answers
           /\ files' = [files EXCEPT ![c][job[r].l.round + 1] =
                          [answer |-> job[r].answers[c], about |-> job[r].read[c]]]
           /\ j.verified = job[r].verified /\ j.sha = job[r].sha
           /\ j.read = job[r].read /\ j.answers = job[r].answers /\ j.todo = job[r].todo \ {c}
           /\ j.l.round = job[r].l.round /\ j.l.rounds = job[r].l.rounds
           /\ j.l.claims = [job[r].l.claims EXCEPT ![c] = Judgement(job[r], c)]
  BY RecordIs
<1>2. Runs("record", job[r]) /\ UNCHANGED <<ledger, evidence, outcome>>
  BY RunsNow DEF Record
<1>3. /\ job[r] \in JobType /\ c \in Claims /\ c \in job[r].verified
      /\ job[r].l.round + 1 \in 1..Cap /\ DOMAIN job[r].l.claims = Claims
      /\ job[r].l.round = ledger.round
  BY <1>1, <1>2, JobOf DEF Record, JobType, LedgerType, Runs
<1> DEFINE n == ledger.round + 1
           f == [answer |-> job[r].answers[c], about |-> evidence[c]]
<1>4. job[r].read[c] = evidence[c] /\ job[r].sha[c] = evidence[c] /\ evidence[c] # Echo
      /\ job[r].l.claims[c] = ledger.claims[c]
  BY <1>1, <1>2, <1>3 DEF Runs
<1>5. n \in 1..Cap /\ files' = [files EXCEPT ![c][n] = f]
  BY <1>1, <1>3, <1>4
<1>6. VerdictOnRecord' /\ NoEchoJudged'
  <2>1. f.about # Echo /\ n = ledger.round + 1
    BY <1>4
  <2> HIDE DEF f, n
  <2>2. QED
    BY <1>2, <1>3, <1>5, <2>1, NewFile
<1>7. files \in [Claims -> [1..Cap -> FileType]]
  BY DEF Structure, Typed
<1>8. files'[c][n] = f /\ \A d \in Claims \ {c} : files'[d] = files[d]
  BY <1>3, <1>5, <1>7
<1>9. \A d \in Claims \ {c} : j.l.claims[d] = job[r].l.claims[d]
  BY <1>1, <1>3
<1>10. j.l.claims[c] = Judgement(job[r], c)
  BY <1>1, <1>3
<1>11. Recorded(c, j)'
  BY <1>1, <1>2, <1>3, <1>4, <1>8, <1>10 DEF Recorded, Judgement
<1>12. \A d \in Claims \ {c} : IF d \in job[r].verified \ job[r].todo
                               THEN Recorded(d, job[r]) ELSE job[r].l.claims[d] = ledger.claims[d]
  BY <1>2 DEF Runs
<1>13. \A d \in Claims \ {c} : d \in j.verified \ j.todo <=> d \in job[r].verified \ job[r].todo
  BY <1>1
<1>14. ASSUME NEW d \in Claims \ {c}, d \in j.verified \ j.todo
       PROVE  Recorded(d, j)'
  <2>1. Recorded(d, job[r])
    BY <1>12, <1>13, <1>14
  <2>2. QED
    BY <1>1, <1>2, <1>8, <1>9, <2>1 DEF Recorded
<1>15. ASSUME NEW d \in Claims \ {c}, d \notin j.verified \ j.todo
       PROVE  j.l.claims[d] = ledger'.claims[d]
  BY <1>2, <1>9, <1>12, <1>13, <1>15
<1>16. c \in j.verified \ j.todo
  BY <1>1, <1>3
<1>17. \A d \in Claims : IF d \in j.verified \ j.todo
                         THEN Recorded(d, j)' ELSE j.l.claims[d] = ledger'.claims[d]
  BY <1>11, <1>14, <1>15, <1>16
<1>18. /\ outcome' = "none" /\ j.l.round = ledger'.round /\ j.l.rounds = ledger'.rounds
       /\ j.verified = In(ledger', Active) /\ In(ledger', {"escalate", "needs-action"}) = {}
       /\ \A d \in j.verified :
            /\ j.sha[d] = evidence'[d] /\ evidence'[d] # Echo
            /\ ledger'.claims[d].state = "recheck" => evidence'[d] # ledger'.claims[d].sha
            /\ j.read[d] = evidence'[d]
  BY <1>1, <1>2 DEF Runs
<1>19. Runs("record", j)'
  BY <1>17, <1>18 DEF Runs
<1>20. \A q \in Rounders : RoundSound(q)'
  BY <1>1, <1>19, RoundRuns
<1>21. (\A d \in Claims : ClaimSound(d))'
  BY <1>2 DEF Sound, ClaimSound
<1>22. ConvergedOnWhatWasJudged'
  BY <1>18 DEF ConvergedOnWhatWasJudged
<1>23. QED
  BY <1>6, <1>20, <1>21, <1>22 DEF Sound

LEMMA HaltRecordSound ==
  ASSUME Disciplined, Structure, Sound, NEW r \in Rounders, HaltRecord(r)
  PROVE  Sound'
<1>1. PICK c \in job[r].todo :
        files' = [files EXCEPT ![c][job[r].l.round + 1] =
                    [answer |-> job[r].answers[c], about |-> job[r].read[c]]]
  BY HaltRecordIs
<1>2. /\ Runs("record", job[r]) /\ UNCHANGED <<ledger, evidence, outcome>>
      /\ OnlyRound(r, "idle", << >>)
  BY RunsNow, HaltRecordIs DEF HaltRecord, Stop
<1>3. /\ c \in Claims /\ c \in job[r].verified /\ job[r].l.round + 1 \in 1..Cap
      /\ job[r].l.round = ledger.round
  BY <1>1, <1>2, JobOf DEF HaltRecord, Runs
<1>4. job[r].read[c] = evidence[c] /\ evidence[c] # Echo /\ outcome = "none"
  BY <1>2, <1>3 DEF Runs
<1>5. VerdictOnRecord' /\ NoEchoJudged'
  <2> DEFINE n == ledger.round + 1
             f == [answer |-> job[r].answers[c], about |-> job[r].read[c]]
  <2>1. /\ f.about # Echo /\ n = ledger.round + 1 /\ n \in 1..Cap
        /\ files' = [files EXCEPT ![c][n] = f]
    BY <1>1, <1>3, <1>4
  <2> HIDE DEF f, n
  <2>2. QED
    BY <1>2, <1>3, <2>1, NewFile
<1>6. \A q \in Rounders : RoundSound(q)'
  BY <1>2, RoundRuns
<1>7. (\A d \in Claims : ClaimSound(d))'
  BY <1>2 DEF Sound, ClaimSound
<1>8. ConvergedOnWhatWasJudged'
  BY <1>2, <1>4 DEF ConvergedOnWhatWasJudged
<1>9. QED
  BY <1>5, <1>6, <1>7, <1>8 DEF Sound

\* What a recorded round makes of each claim.
LEMMA JudgedIs ==
  ASSUME Disciplined, Structure, Sound, NEW r \in Rounders, WriteLedger(r), NEW c \in Claims
  PROVE  IF c \in In(ledger, Active)
           THEN /\ Recorded(c, job[r]) /\ ledger'.claims[c] = job[r].l.claims[c]
                /\ evidence[c] # Echo
                /\ ledger.claims[c].state = "recheck" => evidence[c] # ledger.claims[c].sha
           ELSE ledger'.claims[c] = ledger.claims[c]
<1>1. Runs("record", job[r]) /\ job[r].todo = {}
  BY RunsNow DEF WriteLedger
<1>2. ledger'.claims = job[r].l.claims
  BY WriteLedgerIs
<1>3. QED
  BY <1>1, <1>2 DEF Runs

LEMMA HistoryIs ==
  ASSUME Structure, NEW c \in Claims
  PROVE  /\ ledger.claims[c] \in ClaimType /\ ledger.claims[c].history \in Seq(Entry)
         /\ DOMAIN ledger.claims[c].history = 1..Len(ledger.claims[c].history)
         /\ Len(ledger.claims[c].history) \in Nat
<1>1. ledger.claims[c] \in ClaimType
  BY DEF Structure, Typed, LedgerType
<1>2. ledger.claims[c].history \in Seq(Entry)
  BY <1>1 DEF ClaimType
<1>3. QED
  BY <1>1, <1>2

\* One more entry at the end of a history.
LEMMA OneMore ==
  ASSUME NEW S, NEW h \in Seq(S), NEW e, NEW g, g = Append(h, e)
  PROVE  /\ Len(g) = Len(h) + 1 /\ DOMAIN g = 1..Len(h) + 1 /\ Len(h) \in Nat
         /\ g # << >> /\ g[Len(g)] = e
         /\ \A i \in 1..Len(h) : g[i] = h[i]
         /\ {g[i] : i \in DOMAIN g} = {h[i] : i \in DOMAIN h} \cup {e}
<1>1. /\ Len(h) \in Nat /\ DOMAIN h = 1..Len(h)
      /\ h \in Seq(S \cup {e}) /\ e \in S \cup {e}
  BY SeqMonotonic
<1>2. /\ Len(g) = Len(h) + 1 /\ DOMAIN g = 1..Len(h) + 1
      /\ g[Len(h) + 1] = e /\ \A i \in 1..Len(h) : g[i] = h[i]
  BY <1>1, AppendProperties
<1>3. g # << >>
  BY <1>1, <1>2
<1>4. DOMAIN g = DOMAIN h \cup {Len(h) + 1}
  BY <1>1, <1>2
<1>5. {g[i] : i \in DOMAIN g} = {h[i] : i \in DOMAIN h} \cup {e}
  BY <1>1, <1>2, <1>4
<1>6. QED
  BY <1>1, <1>2, <1>3, <1>5

LEMMA JudgedClaimSound ==
  ASSUME Disciplined, Structure, Sound, NEW r \in Rounders, WriteLedger(r), NEW c \in Claims
  PROVE  ClaimSound(c)'
<1>1. ClaimSound(c) /\ evidence' = evidence
  BY DEF Sound, WriteLedger
<1>2. CASE c \notin In(ledger, Active)
  <2>1. ledger'.claims[c] = ledger.claims[c]
    BY <1>2, JudgedIs
  <2>2. QED
    BY <1>1, <2>1 DEF ClaimSound
<1>3. CASE c \in In(ledger, Active)
  <2> DEFINE h == ledger.claims[c].history
             g == ledger'.claims[c].history
  <2>1. /\ Recorded(c, job[r]) /\ ledger'.claims[c] = job[r].l.claims[c]
        /\ ledger.claims[c].state = "recheck" => evidence[c] # ledger.claims[c].sha
    BY <1>3, JudgedIs
  <2>2. PICK e : e.sha = evidence[c] /\ g = Append(h, e)
    BY <2>1 DEF Recorded
  <2>3. h \in Seq(Entry)
    BY HistoryIs
  <2>4. /\ ledger'.claims[c].sha = evidence[c]
        /\ ledger'.claims[c].state \in {"needs-action", "blocked-on-test", "settled"}
    BY <2>1, NextStates DEF Recorded
  <2>5. h # << >> => evidence[c] # h[Len(h)].sha
    BY <1>1, <1>3, <2>1 DEF ClaimSound, In, Active
  <2>6. \A i \in 2..Len(h) : h[i].sha # h[i - 1].sha
    BY <1>1 DEF ClaimSound
  <2> HIDE DEF h, g
  <2>7. /\ Len(g) = Len(h) + 1 /\ Len(h) \in Nat /\ g # << >> /\ g[Len(g)] = e
        /\ \A i \in 1..Len(h) : g[i] = h[i]
    BY <2>2, <2>3, OneMore
  <2>8. ASSUME NEW i \in 2..Len(g) PROVE g[i].sha # g[i - 1].sha
    <3>1. CASE i \in 2..Len(h)
      <4>1. g[i] = h[i] /\ g[i - 1] = h[i - 1]
        BY <2>7, <3>1
      <4>2. QED
        BY <2>6, <3>1, <4>1
    <3>2. CASE i = Len(h) + 1
      <4>1. Len(h) \in 1..Len(h) /\ i - 1 = Len(h) /\ h # << >>
        BY <2>3, <2>7, <3>2
      <4>2. QED
        BY <2>2, <2>5, <2>7, <3>2, <4>1
    <3>3. QED
      BY <2>7, <3>1, <3>2
  <2>9. QED
    BY <1>1, <2>2, <2>4, <2>7, <2>8 DEF ClaimSound, g, Active
<1>4. QED
  BY <1>2, <1>3

\* The entries of the claims, and the rounds that list them, grow by the round's own.
LEMMA JudgedEntries ==
  ASSUME Disciplined, Structure, Sound, NEW r \in Rounders, WriteLedger(r), NEW c \in Claims
  PROVE  IF c \in In(ledger, Active)
           THEN \E e : /\ Entries(c)' = Entries(c) \cup {e} /\ e.round = ledger.round + 1
                       /\ files[c][e.round] = [answer |-> e.answer, about |-> e.sha]
           ELSE Entries(c)' = Entries(c)
<1>1. CASE c \notin In(ledger, Active)
  <2>1. ledger'.claims[c] = ledger.claims[c]
    BY <1>1, JudgedIs
  <2>2. QED
    BY <1>1, <2>1 DEF Entries
<1>2. CASE c \in In(ledger, Active)
  <2> DEFINE h == ledger.claims[c].history
             g == ledger'.claims[c].history
             e == [round |-> ledger.round + 1, answer |-> job[r].answers[c], sha |-> evidence[c]]
  <2>1. Recorded(c, job[r]) /\ ledger'.claims[c] = job[r].l.claims[c]
    BY <1>2, JudgedIs
  <2>2. g = Append(h, e) /\ files[c][e.round] = [answer |-> e.answer, about |-> e.sha]
    BY <2>1 DEF Recorded
  <2>3. h \in Seq(Entry)
    BY HistoryIs
  <2>4. {g[i] : i \in DOMAIN g} = {h[i] : i \in DOMAIN h} \cup {e}
    <3> HIDE DEF h, g, e
    <3>1. QED
      BY <2>2, <2>3, OneMore
  <2>5. Entries(c)' = Entries(c) \cup {e}
    BY <2>4 DEF Entries
  <2>6. e.round = ledger.round + 1
    OBVIOUS
  <2> HIDE DEF e
  <2>7. QED
    BY <1>2, <2>2, <2>5, <2>6
<1>3. QED
  BY <1>1, <1>2

LEMMA RoundsGrow ==
  ASSUME Disciplined, Structure, Sound, NEW r \in Rounders, WriteLedger(r)
  PROVE  /\ DOMAIN ledger.rounds = 1..ledger.round /\ ledger.round \in Nat
         /\ DOMAIN ledger'.rounds = 1..ledger.round + 1
         /\ \A n \in 1..ledger.round : ledger'.rounds[n] = ledger.rounds[n]
         /\ ledger'.rounds[ledger.round + 1] = In(ledger, Active)
<1>1. /\ ledger.round \in Nat /\ ledger.rounds \in Seq(RoundSets)
      /\ DOMAIN ledger.rounds = 1..ledger.round
  BY RoundsAre
<1>2. Runs("record", job[r])
  BY RunsNow DEF WriteLedger
<1>3. ledger'.rounds = Append(ledger.rounds, In(ledger, Active))
  BY <1>2, WriteLedgerIs DEF Runs
<1>4. Len(ledger.rounds) = ledger.round
  BY DEF Structure, Typed
<1>5. QED
  BY <1>1, <1>3, <1>4, OneMore

LEMMA WriteLedgerSound ==
  ASSUME Disciplined, Structure, Sound, NEW r \in Rounders, WriteLedger(r)
  PROVE  Sound'
<1>1. OnlyRound(r, "idle", << >>) /\ UNCHANGED <<evidence, files, outcome>>
  BY WriteLedgerIs DEF WriteLedger
<1>2. \A q \in Rounders : RoundSound(q)'
  BY <1>1, RoundRuns
<1>3. (\A c \in Claims : ClaimSound(c))'
  BY JudgedClaimSound
<1>4. outcome = "none"
  BY RunsNow DEF WriteLedger, Runs
<1>5. NoEchoJudged' /\ ConvergedOnWhatWasJudged'
  BY <1>1, <1>4 DEF Sound, NoEchoJudged, ConvergedOnWhatWasJudged
<1>6. ASSUME NEW c \in Claims
      PROVE  /\ \A h \in Entries(c)' : files[c][h.round] = [answer |-> h.answer, about |-> h.sha]
             /\ {h.round : h \in Entries(c)'} = {n \in DOMAIN ledger'.rounds : c \in ledger'.rounds[n]}
  <2>1. /\ \A h \in Entries(c) : files[c][h.round] = [answer |-> h.answer, about |-> h.sha]
        /\ {h.round : h \in Entries(c)} = {n \in DOMAIN ledger.rounds : c \in ledger.rounds[n]}
    BY DEF Sound, VerdictOnRecord
  <2>2. /\ DOMAIN ledger.rounds = 1..ledger.round /\ ledger.round \in Nat
        /\ DOMAIN ledger'.rounds = 1..ledger.round + 1
        /\ \A n \in 1..ledger.round : ledger'.rounds[n] = ledger.rounds[n]
        /\ ledger'.rounds[ledger.round + 1] = In(ledger, Active)
    BY RoundsGrow
  <2>3. DOMAIN ledger'.rounds = DOMAIN ledger.rounds \cup {ledger.round + 1}
    BY <2>2
  <2>4. CASE c \in In(ledger, Active)
    <3>1. PICK e : /\ Entries(c)' = Entries(c) \cup {e} /\ e.round = ledger.round + 1
                   /\ files[c][e.round] = [answer |-> e.answer, about |-> e.sha]
      BY <2>4, JudgedEntries
    <3>2. {h.round : h \in Entries(c)'} = {h.round : h \in Entries(c)} \cup {ledger.round + 1}
      BY <3>1
    <3>3. {n \in DOMAIN ledger'.rounds : c \in ledger'.rounds[n]}
            = {n \in DOMAIN ledger.rounds : c \in ledger.rounds[n]} \cup {ledger.round + 1}
      BY <2>2, <2>3, <2>4
    <3>4. QED
      BY <2>1, <3>1, <3>2, <3>3
  <2>5. CASE c \notin In(ledger, Active)
    <3>1. Entries(c)' = Entries(c)
      BY <2>5, JudgedEntries
    <3>2. {n \in DOMAIN ledger'.rounds : c \in ledger'.rounds[n]}
            = {n \in DOMAIN ledger.rounds : c \in ledger.rounds[n]}
      BY <2>2, <2>3, <2>5
    <3>3. QED
      BY <2>1, <3>1, <3>2
  <2>6. QED
    BY <2>4, <2>5
<1>7. VerdictOnRecord'
  BY <1>1, <1>6 DEF VerdictOnRecord
<1>8. QED
  BY <1>2, <1>3, <1>5, <1>7 DEF Sound

-----------------------------------------------------------------------------
\* The session, between its rounds.

\* While the session is at work no round is under way, and its moves start none.
LEMMA NoRound ==
  ASSUME Disciplined, AtWork, UNCHANGED pc
  PROVE  outcome = "none" /\ \A q \in Rounders : RoundSound(q)'
  BY DEF Disciplined, AtWork, RoundSound

\* A move that changes no history and no verdict file.
LEMMA StoryStays ==
  ASSUME Structure, Sound, UNCHANGED files, ledger'.rounds = ledger.rounds,
         \A c \in Claims : ledger'.claims[c].history = ledger.claims[c].history
  PROVE  VerdictOnRecord' /\ NoEchoJudged'
<1>1. \A c \in Claims : Entries(c)' = Entries(c)
  BY DEF Entries
<1>2. VerdictOnRecord'
  BY <1>1 DEF Sound, VerdictOnRecord
<1>3. NoEchoJudged'
  BY DEF Sound, NoEchoJudged
<1>4. QED
  BY <1>2, <1>3

\* A claim that was judged takes another state, but never "pending"; it leaves the
\* judged ones only for one that is to be judged again.
LEMMA SetSound ==
  ASSUME Disciplined, Structure, Sound, AtWork, NEW c \in Claims,
         NEW state \in LegalStates \ {"pending"}, NEW reason \in BOOLEAN,
         Set(c, state, reason), ledger.claims[c].state \notin Active
  PROVE  Sound'
<1>1. /\ ledger'.rounds = ledger.rounds
      /\ ledger'.claims[c].state = state /\ ledger'.claims[c].sha = ledger.claims[c].sha
      /\ ledger'.claims[c].history = ledger.claims[c].history
      /\ \A d \in Claims \ {c} : ledger'.claims[d] = ledger.claims[d]
  BY SetIs
<1>2. UNCHANGED <<evidence, files, pc, outcome>>
  BY DEF Set
<1>3. outcome = "none" /\ \A q \in Rounders : RoundSound(q)'
  BY <1>2, NoRound
<1>4. VerdictOnRecord' /\ NoEchoJudged'
  BY <1>1, <1>2, StoryStays
<1>5. ASSUME NEW d \in Claims PROVE ClaimSound(d)'
  <2>1. ClaimSound(d)
    BY DEF Sound
  <2>2. QED
    BY <1>1, <1>2, <2>1 DEF ClaimSound, Active
<1>6. ConvergedOnWhatWasJudged'
  BY <1>2, <1>3 DEF ConvergedOnWhatWasJudged
<1>7. QED
  BY <1>3, <1>4, <1>5, <1>6 DEF Sound

\* The evidence of a claim that is to be judged is written anew.
LEMMA WriteSound ==
  ASSUME Disciplined, Structure, Sound, AtWork, NEW c \in Claims, NEW t,
         Write(c, t), ledger.claims[c].state \in Active
  PROVE  Sound'
<1>1. UNCHANGED <<ledger, files, pc, outcome>> /\ evidence' = [evidence EXCEPT ![c] = t]
  BY DEF Write
<1>2. outcome = "none" /\ \A q \in Rounders : RoundSound(q)'
  BY <1>1, NoRound
<1>3. VerdictOnRecord' /\ NoEchoJudged'
  BY <1>1, StoryStays
<1>4. evidence \in [Claims -> Texts \cup {Echo}]
  BY DEF Structure, Typed
<1>5. ASSUME NEW d \in Claims PROVE ClaimSound(d)'
  <2>1. ClaimSound(d)
    BY DEF Sound
  <2>2. d # c => evidence'[d] = evidence[d]
    BY <1>1, <1>4
  <2>3. QED
    BY <1>1, <2>1, <2>2 DEF ClaimSound
<1>6. ConvergedOnWhatWasJudged'
  BY <1>1, <1>2 DEF ConvergedOnWhatWasJudged
<1>7. QED
  BY <1>2, <1>3, <1>5, <1>6 DEF Sound

LEMMA SessionSound ==
  ASSUME Disciplined, Structure, Sound, NEW c \in Claims,
         Process(c) \/ Cascade(c) \/ Reground(c) \/ CopyVerdict(c)
  PROVE  Sound'
<1>1. {"recheck", "settled", "escalate"} \subseteq LegalStates \ {"pending"}
      /\ "needs-action" \notin Active /\ Done \cap Active = {}
  BY DEF LegalStates, Active, Done
<1>2. CASE Process(c) \/ Cascade(c)
  <2>1. PICK state \in LegalStates \ {"pending"}, reason \in BOOLEAN : Set(c, state, reason)
    BY <1>1, <1>2 DEF Disciplined, Process, Cascade
  <2>2. AtWork /\ ledger.claims[c].state \notin Active
    BY <1>1, <1>2 DEF Process, Cascade
  <2>3. QED
    BY <2>1, <2>2, SetSound
<1>3. CASE Reground(c) \/ CopyVerdict(c)
  <2>1. PICK t : Write(c, t)
    BY <1>3 DEF Reground, CopyVerdict
  <2>2. AtWork /\ ledger.claims[c].state \in Active
    BY <1>3 DEF Reground, CopyVerdict
  <2>3. QED
    BY <2>1, <2>2, WriteSound
<1>4. QED
  BY <1>2, <1>3

\* The session ends: as converged only when no claim is left to be judged.
LEMMA DisposeSound ==
  ASSUME Disciplined, Structure, Sound, Dispose
  PROVE  Sound'
<1>1. AtWork /\ UNCHANGED <<ledger, evidence, files, pc>> /\ outcome' = proposal(ledger)
      /\ proposal(ledger) # "CONTINUE"
  BY DEF Dispose
<1>2. \A q \in Rounders : RoundSound(q)'
  BY <1>1, NoRound
<1>3. VerdictOnRecord' /\ NoEchoJudged'
  BY <1>1, StoryStays
<1>4. (\A c \in Claims : ClaimSound(c))'
  BY <1>1 DEF Sound, ClaimSound
<1>5. ASSUME outcome' = "CONVERGENCE CANDIDATE", NEW c \in Claims
      PROVE  LET h == ledger.claims[c].history IN h # << >> /\ h[Len(h)].sha = evidence[c]
  <2>1. In(ledger, Active \cup {"needs-action"}) = {}
    BY <1>1, <1>5 DEF proposal
  <2>2. ledger.claims[c].state \notin Active
    BY <2>1 DEF In
  <2>3. ClaimSound(c)
    BY DEF Sound
  <2>4. QED
    BY <2>2, <2>3 DEF ClaimSound, Active
<1>6. ConvergedOnWhatWasJudged'
  BY <1>1, <1>5 DEF ConvergedOnWhatWasJudged
<1>7. QED
  BY <1>2, <1>3, <1>4, <1>6 DEF Sound

-----------------------------------------------------------------------------
\* The invariant of a session that waits, and what it gives.

Waiting == Structure /\ Sound

LEMMA InitSound == Init => Sound
<1> SUFFICES ASSUME Init PROVE Sound
  OBVIOUS
<1>1. \A c \in Claims : /\ ledger.claims[c].state = "pending" /\ ledger.claims[c].history = << >>
  BY DEF Init
<1>2. \A c \in Claims : Entries(c) = {}
  BY <1>1 DEF Entries
<1>3. VerdictOnRecord
  <2>1. ledger.rounds = << >>
    BY DEF Init
  <2>2. DOMAIN ledger.rounds = {}
    BY <2>1
  <2>3. QED
    BY <1>2, <2>2 DEF VerdictOnRecord
<1>4. NoEchoJudged
  BY ConvergeAssumption DEF Init, NoFile, NoEchoJudged
<1>5. ConvergedOnWhatWasJudged
  BY DEF Init, ConvergedOnWhatWasJudged
<1>6. \A c \in Claims : ClaimSound(c)
  <2>1. \A i \in 2..Len(<< >>) : FALSE
    OBVIOUS
  <2>2. QED
    BY <1>1, <2>1 DEF ClaimSound, Active
<1>7. \A r \in Rounders : RoundSound(r)
  BY DEF Init, RoundSound
<1>8. QED
  BY <1>3, <1>4, <1>5, <1>6, <1>7 DEF Sound

LEMMA WaitingStep ==
  ASSUME Disciplined
  PROVE  Waiting /\ [Next]_vars => Waiting'
<1> SUFFICES ASSUME Waiting, [Next]_vars PROVE Waiting'
  OBVIOUS
<1>1. Structure /\ Sound
  BY DEF Waiting
<1>2. Structure'
  BY <1>1, StructureStep
<1>3. ASSUME NEW r \in Rounders, Start(r) \/ RoundStep(r) \/ HaltVerify(r) \/ Killed(r)
      PROVE  Sound'
  BY <1>1, <1>3, StartSound, AskSound, AnswerSound, CollectedSound, RecordSound,
     WriteLedgerSound, HaltRecordSound, HaltSound DEF RoundStep
<1>4. ASSUME NEW c \in Claims, Process(c) \/ Cascade(c) \/ Reground(c) \/ CopyVerdict(c)
      PROVE  Sound'
  BY <1>1, <1>4, SessionSound
<1>5. ASSUME UNCHANGED vars PROVE Sound'
  <2>1. UNCHANGED <<ledger, evidence, files, pc, job, outcome>>
    BY <1>5 DEF vars
  <2>2. VerdictOnRecord' /\ NoEchoJudged'
    BY <1>1, <2>1, StoryStays
  <2>3. (\A c \in Claims : ClaimSound(c))' /\ ConvergedOnWhatWasJudged'
    BY <1>1, <2>1 DEF Sound, ClaimSound, ConvergedOnWhatWasJudged
  <2>4. \A q \in Rounders : RoundSound(q)'
    BY <1>1, <2>1 DEF Sound, RoundSound, Runs, Recorded, In
  <2>5. QED
    BY <2>2, <2>3, <2>4 DEF Sound
<1>6. Sound'
  BY <1>1, <1>3, <1>4, <1>5, DisposeSound DEF Next
<1>7. QED
  BY <1>2, <1>6 DEF Waiting

THEOREM WaitingHolds ==
  ASSUME Disciplined
  PROVE  Spec => []Waiting
<1>1. Init => Waiting
  BY InitStructure, InitSound DEF Waiting
<1>2. Waiting /\ [Next]_vars => Waiting'
  BY WaitingStep
<1>3. QED
  BY <1>1, <1>2, PTL DEF Spec

\* The types, the ledger's agreement with the verdict files and the absence of verdicts
\* among the evidence hold in every state of a session that waits for its rounds, with
\* verifiers that fail, rounds that are killed between the files and the ledger, and
\* verdicts copied into evidence files.
THEOREM InvHolds ==
  ASSUME Disciplined
  PROVE  Spec => []Inv
<1>1. Waiting => Inv
  BY StructureGivesTypes DEF Waiting, Sound, Inv
<1>2. QED
  BY <1>1, WaitingHolds, PTL

\* No claim is judged twice in a row on the same bytes, whatever the session processes,
\* disturbs or grounds again between the rounds.
THEOREM EachRoundOnFreshBytesHolds ==
  ASSUME Disciplined
  PROVE  Spec => []EachRoundOnFreshBytes
<1>1. Waiting => EachRoundOnFreshBytes
  BY DEF Waiting, Sound, ClaimSound, EachRoundOnFreshBytes
<1>2. QED
  BY <1>1, WaitingHolds, PTL

\* A session that stops as converged has a verdict on every claim, and the last one is
\* about the evidence that lies there.
THEOREM ConvergedOnWhatWasJudgedHolds ==
  ASSUME Disciplined
  PROVE  Spec => []ConvergedOnWhatWasJudged
<1>1. Waiting => ConvergedOnWhatWasJudged
  BY DEF Waiting, Sound
<1>2. QED
  BY <1>1, WaitingHolds, PTL

\* What RoundsAreFinal says of a step.
FinalStep ==
  /\ \A n \in DOMAIN ledger.rounds : n \in DOMAIN ledger'.rounds /\ ledger'.rounds[n] = ledger.rounds[n]
  /\ \A c \in Claims : Entries(c) \subseteq Entries(c)'
  /\ (\E c \in Claims : Entries(c)' # Entries(c)) => In(ledger, {"needs-action", "escalate"}) = {}

\* A step that leaves the rounds and the histories alone.
LEMMA NothingRecorded ==
  ASSUME ledger'.rounds = ledger.rounds,
         \A c \in Claims : ledger'.claims[c].history = ledger.claims[c].history
  PROVE  FinalStep
<1>1. \A c \in Claims : Entries(c)' = Entries(c)
  BY DEF Entries
<1>2. QED
  BY <1>1 DEF FinalStep

LEMMA EveryStepFinal ==
  ASSUME Disciplined
  PROVE  Waiting /\ [Next]_vars => FinalStep
<1> SUFFICES ASSUME Waiting, [Next]_vars PROVE FinalStep
  OBVIOUS
<1>1. Structure /\ Sound
  BY DEF Waiting
<1>2. ASSUME NEW r \in Rounders, WriteLedger(r) PROVE FinalStep
  <2>1. /\ DOMAIN ledger.rounds = 1..ledger.round /\ ledger.round \in Nat
        /\ DOMAIN ledger'.rounds = 1..ledger.round + 1
        /\ \A n \in 1..ledger.round : ledger'.rounds[n] = ledger.rounds[n]
    BY <1>1, <1>2, RoundsGrow
  <2>2. \A n \in DOMAIN ledger.rounds : n \in DOMAIN ledger'.rounds /\ ledger'.rounds[n] = ledger.rounds[n]
    BY <2>1
  <2>3. \A c \in Claims : Entries(c) \subseteq Entries(c)'
    BY <1>1, <1>2, JudgedEntries
  <2>4. In(ledger, {"needs-action", "escalate"}) = {}
    BY <1>1, <1>2, RunsNow DEF WriteLedger, Runs, In
  <2>5. QED
    BY <2>2, <2>3, <2>4 DEF FinalStep
<1>3. CASE UNCHANGED ledger
  BY <1>3, NothingRecorded
<1>4. ASSUME NEW c \in Claims, Process(c) \/ Cascade(c) PROVE FinalStep
  <2>1. {"recheck", "settled", "escalate", "pending"} \subseteq LegalStates
    BY DEF LegalStates, Active, Done
  <2>2. PICK state \in LegalStates, reason \in BOOLEAN : Set(c, state, reason)
    BY <1>4, <2>1 DEF Process, Cascade
  <2>3. /\ ledger'.rounds = ledger.rounds
        /\ ledger'.claims[c].history = ledger.claims[c].history
        /\ \A d \in Claims \ {c} : ledger'.claims[d] = ledger.claims[d]
    BY <1>1, <2>2, SetIs
  <2>4. QED
    BY <2>3, NothingRecorded
<1>5. ASSUME NEW r \in Rounders, Start(r) \/ RoundStep(r) \/ HaltVerify(r) \/ Killed(r)
      PROVE  FinalStep
  <2>1. WriteLedger(r) \/ UNCHANGED ledger
    BY <1>5 DEF RoundStep, Start, Ask, Answer, Collected, Record, HaltRecord, HaltVerify, Killed, Stop
  <2>2. QED
    BY <1>2, <1>3, <2>1
<1>6. ASSUME NEW c \in Claims, Reground(c) \/ CopyVerdict(c) PROVE FinalStep
  BY <1>3, <1>6 DEF Reground, CopyVerdict, Write
<1>7. Dispose \/ UNCHANGED vars => UNCHANGED ledger
  BY DEF Dispose, vars
<1>8. QED
  BY <1>3, <1>4, <1>5, <1>6, <1>7 DEF Next

\* No step loses or rewrites a recorded round or an entry, and a step that adds entries
\* finds no claim waiting for the session.
THEOREM RoundsAreFinalHolds ==
  ASSUME Disciplined
  PROVE  Spec => RoundsAreFinal
<1>1. Waiting /\ [Next]_vars => [FinalStep]_vars
  BY EveryStepFinal
<1>2. Spec => [][FinalStep]_vars
  BY <1>1, WaitingHolds, PTL DEF Spec
<1>3. QED
  BY <1>2 DEF RoundsAreFinal, FinalStep
=============================================================================
