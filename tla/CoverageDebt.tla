---------------------------- MODULE CoverageDebt ----------------------------
(***************************************************************************)
(* compile-v2.py's routing leg and its coverage debt. A plan may declare,  *)
(* for an event, the claims it routes; one leg per run asks a verifier     *)
(* whether the table accounts for every claim of the event, and what it    *)
(* leaves out is journaled as debt rows, which later plans clear.          *)
(*                                                                         *)
(* The journal is all the state there is: what is outstanding is computed  *)
(* from it, with reverted runs left out. run() and verify_run() hold the   *)
(* run lock, so that one pass at a time is under way; the driver's revert  *)
(* does not hold it. Which runs a revert may undo is CompileDriver's       *)
(* matter: here it is any of them.                                         *)
(***************************************************************************)
EXTENDS Naturals, Sequences, FiniteSets

CONSTANTS Events,     \* raw events
          Claims,     \* the load-bearing claims of an event
          Whole,      \* what a row is about that names no claim: the whole event
          Unrouted,   \* the routing of an event that a plan says nothing about
          Misnames,   \* may the verifier file a finding under another scoped event?
          MaxRuns,    \* bound: compile records
          MaxSeq      \* bound: records in the journal

ASSUME CoverageDebtAssumption ==
  /\ Whole \notin Claims /\ Misnames \in BOOLEAN
  /\ MaxRuns \in Nat /\ MaxSeq \in Nat
  /\ Unrouted \notin [homes : SUBSET Claims,
                      clears : SUBSET [record : Nat, event : Events, about : Claims \cup {Whole}],
                      all : BOOLEAN]

VARIABLES journal,  \* the records, by seq
          pass      \* what the holder of the run lock has under way

vars == <<journal, pass>>

Finding == [event : Events, about : Claims \cup {Whole}]
Row == [record : Nat, event : Events, about : Claims \cup {Whole}]

\* The routing of one event: the claims it gives a home (an owner in this run
\* or a deferral), the rows it says it clears, and whether it clears them all.
Entry == [homes : SUBSET Claims, clears : SUBSET Row, all : BOOLEAN]
Plans == [Events -> Entry \cup {Unrouted}]
Routed(plan) == {e \in Events : plan[e] # Unrouted}

Free == [step |-> "free"]

-----------------------------------------------------------------------------
\* Reading the journal.

Seqs(kind) == {s \in DOMAIN journal : journal[s].kind = kind}
Reverted == {journal[r].over : r \in Seqs("revert")}
Standing == Seqs("compile") \ Reverted
Scoped(s) == Routed(journal[s].routing)
Legs(s) == {r \in Seqs("verify") : journal[r].over = s}

\* coverage_debt_rows: every row recorded.
Rows == UNION {{[record |-> r, event |-> f.event, about |-> f.about] : f \in journal[r].findings}
                  : r \in Seqs("verify")}

\* cleared_debt_ids: a standing plan names the row.
Cleared(row) ==
  \E s \in Standing : \E e \in Scoped(s) : row \in journal[s].routing[e].clears

\* clears_all_seqs: a later standing plan routes the whole event again.
Rerouted(row) ==
  \E s \in Standing : /\ row.event \in Scoped(s)
                      /\ journal[s].routing[row.event].all
                      /\ s > row.record

\* Mutated form: the judgement of a run that was reverted counts too.
RejudgedByAny(row) ==
  /\ journal[row.record].over \in Reverted
  /\ \E s \in Seqs("compile") : /\ row.event \in Scoped(s)
                                /\ \E r \in Legs(s) : journal[r].answered
                                /\ s > journal[row.record].over

\* A row of a reverted run, when the leg of a later standing run has answered.
Rejudged(row) ==
  /\ journal[row.record].over \in Reverted
  /\ \E s \in Standing : /\ row.event \in Scoped(s)
                         /\ \E r \in Legs(s) : journal[r].answered
                         /\ s > journal[row.record].over

Outstanding == {row \in Rows : ~Cleared(row) /\ ~Rerouted(row) /\ ~Rejudged(row)}
OutstandingFor(e) == {row \in Outstanding : row.event = e}

-----------------------------------------------------------------------------
Init == journal = << >> /\ pass = Free

\* run() up to check_claim_routing: a plan may clear only rows that are
\* outstanding and recorded for the event it routes.
Routable(plan) ==
  \A e \in Routed(plan) : /\ plan[e].clears \subseteq OutstandingFor(e)
                          /\ plan[e].all => OutstandingFor(e) # {}

Check ==
  /\ pass = Free /\ Cardinality(Seqs("compile")) < MaxRuns
  /\ \E plan \in [Events -> [homes : SUBSET Claims, clears : SUBSET Outstanding, all : BOOLEAN]
                               \cup {Unrouted}] :
       /\ Routed(plan) # {} /\ Routable(plan)
       /\ pass' = [step |-> "run", plan |-> plan]
  /\ UNCHANGED journal

\* The rest of run(): the views are absorbed and the compile record carries the
\* routing that was checked.
Absorb ==
  /\ pass.step = "run" /\ Len(journal) < MaxSeq
  /\ journal' = Append(journal, [kind |-> "compile", routing |-> pass.plan])
  /\ pass' = Free

\* Mutated form: a leg that did not complete is asked again.
AskUnanswered(s) ==
  /\ pass = Free
  /\ s \in Standing
  /\ \A r \in Legs(s) : ~journal[r].answered
  /\ pass' = [step |-> "verify", over |-> s]
  /\ UNCHANGED journal

\* verify_run over a run that no routing leg has judged; the driver does not
\* start one over a run it knows to be reverted.
Ask(s) ==
  /\ pass = Free
  /\ s \in Standing
  /\ Legs(s) = {}
  /\ pass' = [step |-> "verify", over |-> s]
  /\ UNCHANGED journal

\* What the verifier should find: the claims that the run's table leaves out.
LeftOut(s) == {f \in [event : Scoped(s), about : Claims] : f.about \notin journal[s].routing[f.event].homes}

\* An answer names some of them: anchored when the quote is found in the event,
\* loose when it is not. A loose finding lands on a scoped event that the
\* answer names; one that names no scoped event lands on the first.
Answers(s) ==
  [label : {"confirmed", "revised", "none"}, attested : BOOLEAN,
   anchored : SUBSET LeftOut(s),
   loose : SUBSET IF Misnames THEN [event : Scoped(s), about : Claims] ELSE LeftOut(s)]

Names(findings, f) == f \in findings \/ (Misnames /\ \E g \in findings : g.about = f.about)

\* A verifier that can be attributed and that judges has named every claim left
\* out, now or in the answer it is asked to give again.
Honest(s, answer, before) ==
  answer.attested /\ answer.label # "none" =>
    \A f \in LeftOut(s) : Names(answer.anchored \cup answer.loose \cup before, f)

NamesNoGap(answer) == answer.label = "revised" /\ answer.anchored = {}

\* Mutated form: the second answer stands alone.
SecondAlone(first, answer, front) == answer.anchored \cup answer.loose

\* What the answers named: the loose findings of the first survive the second.
\* A first answer that named nothing at all is kept as one row of its words.
Gaps(first, answer, front) ==
  answer.anchored \cup answer.loose
    \cup IF ~NamesNoGap(first) THEN {}
         ELSE IF first.loose # {} THEN first.loose
         ELSE {[event |-> front, about |-> Whole]}

Judged(answer) == answer.attested /\ answer.label # "none"

WholeEvents(s) == [event : Scoped(s), about : {Whole}]

\* _routing_leg and the verify record: one answer, or two when the first is no
\* confirmation and quotes nothing that can be found. A leg that no attributed
\* verdict answered leaves a row for every scoped event.
Record ==
  /\ pass.step = "verify" /\ Len(journal) < MaxSeq
  /\ LET s == pass.over
     IN \E first \in Answers(s) : \E answer \in IF NamesNoGap(first) THEN Answers(s) ELSE {first} :
          /\ Honest(s, first, {})
          /\ Honest(s, answer, IF NamesNoGap(first) THEN first.loose ELSE {})
          /\ \E front \in Scoped(s) :
               journal' = Append(journal,
                 [kind |-> "verify", over |-> s, answered |-> Judged(answer),
                  findings |-> Gaps(first, answer, front)
                                 \cup IF Judged(answer) THEN {} ELSE WholeEvents(s)])
  /\ pass' = Free

\* The plan is refused later on, a backend raises, or the process is killed and
\* its lock broken: no record.
GiveUp ==
  /\ pass # Free
  /\ pass' = Free
  /\ UNCHANGED journal

\* The driver reverts a run: --run itself, or the operator while another pass
\* is under way. A revert that fails changes nothing that is read here.
Revert(s) ==
  /\ s \in Standing /\ Len(journal) < MaxSeq
  /\ journal' = Append(journal, [kind |-> "revert", over |-> s])
  /\ UNCHANGED pass

Next ==
  \/ Check \/ Absorb \/ Record \/ GiveUp
  \/ \E s \in Seqs("compile") : Ask(s) \/ Revert(s)

Spec == Init /\ [][Next]_vars

-----------------------------------------------------------------------------
\* Type invariant.
Records ==
  [kind : {"compile"}, routing : Plans]
    \cup [kind : {"verify"}, over : Nat, answered : BOOLEAN, findings : SUBSET Finding]
    \cup [kind : {"revert"}, over : Nat]

TypeOK ==
  /\ journal \in Seq(Records)
  /\ \/ pass = Free
     \/ pass \in [step : {"run"}, plan : Plans]
     \/ pass \in [step : {"verify"}, over : DOMAIN journal]

\* A run's routing is judged at most once, whatever became of the leg and of
\* the sessions that asked for it (_routing_leg_done).
JudgedOnce == \A q, r \in Seqs("verify") : journal[q].over = journal[r].over => q = r

Inv == TypeOK /\ JudgedOnce

\* What the newest standing routing of an event leaves out is never forgotten:
\* once its leg has been recorded, each claim of the event has a home in that
\* routing or an outstanding row that asks for it. Rows of older runs may be
\* cleared, by name, in bulk or by the new judgement, and come back when the run
\* that cleared them is reverted (outstanding_coverage_debt).
NewestOver(e, s) ==
  /\ s \in Standing /\ e \in Scoped(s)
  /\ \A q \in Standing : e \in Scoped(q) => q <= s

NothingForgotten ==
  \A s \in Standing : \A e \in Scoped(s) :
    NewestOver(e, s) /\ Legs(s) # {} =>
      \A c \in Claims : \/ c \in journal[s].routing[e].homes
                        \/ \E row \in OutstandingFor(e) : row.about \in {c, Whole}

\* A revert alone clears nothing: debt on record that is not outstanding has been
\* taken over, by a run that stands and came after the run that left it out.
DebtIsTakenOver ==
  \A row \in Rows \ Outstanding :
    \E s \in Standing : row.event \in Scoped(s) /\ s > journal[row.record].over

=============================================================================
