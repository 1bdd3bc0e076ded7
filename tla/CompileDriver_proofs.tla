------------------------ MODULE CompileDriver_proofs ------------------------
(***************************************************************************)
(* Proofs about CompileDriver: its types for any number of sessions, and   *)
(* for one driver invocation at a time what it promises of its runs, for   *)
(* any views, events, verdicts, bounds, and any interruption by a crash.   *)
(***************************************************************************)
EXTENDS CompileDriver, SequenceTheorems, FiniteSetTheorems, TLAPS

\* One driver invocation is active at a time.
OneAtATime == \A p, q \in Sessions : p = q

-----------------------------------------------------------------------------
\* What the records and the sessions' locals hold.

Subjects == Views \cup Events
Texts == UNION {[W -> Content] : W \in SUBSET Views}
LegSets == UNION {[L -> Verdicts] : L \in SUBSET Subjects}

Records ==
  [kind : {"compile"}, noops : SUBSET Events, before : Texts, wrote : Texts]
    \cup [kind : {"verify"}, over : Nat, legs : LegSets]
    \cup [kind : {"revert"}, over : Nat, status : {"reverted", "revert-failed"}]
    \cup [kind : {"adjudication"}, over : Nat, view : Subjects]
    \cup [kind : {"baseline-reset"}, views : SUBSET Views]

Jobs == [verb : AllVerbs \cup {"none"}, seq : Nat, todo : SUBSET Subjects, legs : LegSets,
         view : Subjects \cup {NoView}, text : Content, stamps : BOOLEAN]

Places == {"idle", "absorb", "verify", "leg", "verdict", "grade", "undo", "restore"}
InPass == {"leg", "verdict"}
Working == {"verify", "leg", "verdict", "grade", "undo", "restore"}

Typed == /\ journal \in Seq(Records)
         /\ head \in [Views -> Content] /\ tree \in [Views -> Content]
         /\ lock \in Sessions \cup {Nobody, Orphan}
         /\ pc \in [Sessions -> Places] /\ job \in [Sessions -> Jobs]
         /\ crashes \in 0..MaxCrashes

\* What a verify pass over a run can ask about.
Found(s) == Absorbed(s) \cup NoOps(s)

RunsFit == \A s \in Runs : /\ DOMAIN journal[s].before = Absorbed(s)
                           /\ \A v \in Absorbed(s) : journal[s].wrote[v].body = s

Later == Seqs("verify") \cup Seqs("revert") \cup Seqs("adjudication")

LaterFit ==
  /\ \A r \in Later : journal[r].over \in Runs /\ journal[r].over < r
  /\ \A r \in Seqs("verify") : DOMAIN journal[r].legs \subseteq Found(journal[r].over)
  /\ \A r \in Seqs("adjudication") : journal[r].view \in Found(journal[r].over)

JobFits(p) ==
  /\ pc[p] \in Working => job[p].seq \in Runs
  /\ pc[p] \in {"absorb", "verify"} => DOMAIN job[p].legs = {}
  /\ pc[p] \in InPass => job[p].todo \cup DOMAIN job[p].legs \subseteq Found(job[p].seq)
  /\ pc[p] = "verdict" => job[p].view \in job[p].todo

Structure == Typed /\ RunsFit /\ LaterFit /\ \A p \in Sessions : JobFits(p)

-----------------------------------------------------------------------------
\* What holds besides while one invocation is active at a time.

\* Only the newest run may be open, and none is while a new one is prepared.
OnlyNewestOpen == \A s \in Runs : Terminal(s) \/ \A q \in Runs : q <= s
NoneOpenAtAbsorb == \A p \in Sessions : pc[p] = "absorb" => \A s \in Runs : Terminal(s)

\* The runs whose text of a view is not undone. A view holds the text of the newest
\* of them, and each was written over the text of the one before it.
Writers(v) == {s \in Runs \ Reverted : v \in Absorbed(s)}

Stacked(v) ==
  /\ head[v].body \in Writers(v) \cup {0}
  /\ \A s \in Writers(v) :
       LET old == journal[s].before[v].body
       IN /\ s <= head[v].body
          /\ old < s /\ old \in Writers(v) \cup {0}
          /\ \A t \in Writers(v) : t < s => t <= old

\* Only stamps may be uncommitted.
BodiesCommitted ==
  /\ \A v \in Views : tree[v].body = head[v].body
  /\ \A p \in Sessions : (pc[p] = "verdict" /\ job[p].view \in Views)
                            => job[p].text.body = tree[job[p].view].body

\* A session works on a run that stands, a revert on one that it may undo.
WorkStands ==
  \A p \in Sessions : LET s == job[p].seq IN
    /\ pc[p] \in Working => s \notin Reverted
    /\ pc[p] = "undo" => ~Confirmed(s)
    /\ pc[p] = "restore" => MovedOn(s) = {} /\ ~FullyConfirmed(s)

\* A pass asks what the journal asks for, and the first pass is the run's own.
PassFits ==
  \A p \in Sessions : LET j == job[p] IN
    /\ pc[p] \in InPass => j.todo \cup DOMAIN j.legs = Asked(j.seq)
    /\ pc[p] \in {"verify", "leg", "verdict"} /\ j.verb = "run" => Covering(j.seq) = {}
    /\ pc[p] = "grade" => \A r \in Covering(j.seq) : journal[r].legs = j.legs

\* A view that was stamped for a run is not asked about again for that run.
StampIsLast ==
  \A r, q \in Seqs("verify") : \A v \in Views \cap DOMAIN journal[r].legs :
    (journal[q].over = journal[r].over /\ q < r /\ v \in DOMAIN journal[q].legs)
       => journal[q].legs[v] # "stamped"

\* An operator rules on legs that completed.
RulingsFollow == \A r \in Seqs("adjudication") : Judged(journal[r].over, journal[r].view)

\* What excuses a verified run from a leg on a view: the baseline advanced past it,
\* for no later run and for none that can still be reverted before it.
Excused(s, v) == \E q \in Stamps(v) : q > s /\ (q \in Resets(v) \/ journal[q].over < s)

Covered == \A s \in Runs \ Reverted : Terminal(s) =>
             /\ \A v \in Absorbed(s) : Judged(s, v) \/ Excused(s, v)
             /\ \A e \in NoOps(s) : Judged(s, e)

\* What the journal and the commits say to each other, and where the session is.
JournalSound == /\ OnlyNewestOpen /\ (\A v \in Views : Stacked(v))
                /\ StampIsLast /\ RulingsFollow /\ Covered
SessionSound == NoneOpenAtAbsorb /\ BodiesCommitted /\ WorkStands /\ PassFits

Alone == Structure /\ JournalSound /\ SessionSound

-----------------------------------------------------------------------------
\* The sets of functions of the records.

LEMMA TextsAre ==
  /\ \A W \in SUBSET Views : \A f : f \in [W -> Content] => f \in Texts
  /\ \A f \in Texts : DOMAIN f \subseteq Views /\ f \in [DOMAIN f -> Content]
<1>1. \A W \in SUBSET Views : \A f : f \in [W -> Content] => f \in Texts
  BY DEF Texts
<1>2. ASSUME NEW f \in Texts PROVE DOMAIN f \subseteq Views /\ f \in [DOMAIN f -> Content]
  <2>1. PICK W \in SUBSET Views : f \in [W -> Content]
    BY <1>2 DEF Texts
  <2>2. QED
    BY <2>1
<1>3. QED
  BY <1>1, <1>2

LEMMA LegSetsAre ==
  /\ \A L \in SUBSET Subjects : \A f : f \in [L -> Verdicts] => f \in LegSets
  /\ \A f \in LegSets : DOMAIN f \subseteq Subjects /\ f \in [DOMAIN f -> Verdicts]
<1>1. \A L \in SUBSET Subjects : \A f : f \in [L -> Verdicts] => f \in LegSets
  BY DEF LegSets
<1>2. ASSUME NEW f \in LegSets PROVE DOMAIN f \subseteq Subjects /\ f \in [DOMAIN f -> Verdicts]
  <2>1. PICK L \in SUBSET Subjects : f \in [L -> Verdicts]
    BY <1>2 DEF LegSets
  <2>2. QED
    BY <2>1
<1>3. QED
  BY <1>1, <1>2

\* What a record of each kind carries.
LEMMA RecordTypes ==
  ASSUME Typed
  PROVE  /\ Len(journal) \in Nat /\ DOMAIN journal = 1..Len(journal)
         /\ \A s \in DOMAIN journal : journal[s] \in Records
         /\ \A s \in Runs : /\ s \in DOMAIN journal
                            /\ NoOps(s) \subseteq Events /\ Absorbed(s) \subseteq Views
                            /\ journal[s].before \in Texts /\ journal[s].wrote \in Texts
         /\ \A r \in Seqs("verify") : /\ r \in DOMAIN journal
                                      /\ journal[r].over \in Nat /\ journal[r].legs \in LegSets
         /\ \A r \in Seqs("revert") : /\ r \in DOMAIN journal
                                      /\ journal[r].over \in Nat
                                      /\ journal[r].status \in {"reverted", "revert-failed"}
         /\ \A r \in Seqs("adjudication") : /\ r \in DOMAIN journal
                                            /\ journal[r].over \in Nat
                                            /\ journal[r].view \in Subjects
         /\ \A r \in Seqs("baseline-reset") : /\ r \in DOMAIN journal
                                              /\ journal[r].views \subseteq Views
<1>1. Len(journal) \in Nat /\ DOMAIN journal = 1..Len(journal)
  BY DEF Typed
<1>2. \A s \in DOMAIN journal : journal[s] \in Records
  BY DEF Typed
<1>3. ASSUME NEW s \in Runs
      PROVE  /\ s \in DOMAIN journal /\ NoOps(s) \subseteq Events /\ Absorbed(s) \subseteq Views
             /\ journal[s].before \in Texts /\ journal[s].wrote \in Texts
  <2>1. s \in DOMAIN journal /\ journal[s].kind = "compile"
    BY DEF Runs, Seqs
  <2>2. journal[s] \in [kind : {"compile"}, noops : SUBSET Events, before : Texts, wrote : Texts]
    BY <1>2, <2>1 DEF Records
  <2>3. QED
    BY <2>1, <2>2, TextsAre DEF NoOps, Absorbed
<1>4. QED
  BY <1>1, <1>2, <1>3 DEF Seqs, Records

-----------------------------------------------------------------------------
\* An append leaves every record where it is.
LEMMA Appended ==
  ASSUME Typed, NEW rec \in Records, Commit(rec)
  PROVE  /\ journal' \in Seq(Records)
         /\ Len(journal') = Len(journal) + 1
         /\ Len(journal) + 1 \notin DOMAIN journal
         /\ DOMAIN journal' = DOMAIN journal \cup {Len(journal) + 1}
         /\ journal'[Len(journal) + 1] = rec
         /\ \A s \in DOMAIN journal : journal'[s] = journal[s] /\ s \in Nat /\ s < Len(journal) + 1
         /\ \A kind : Seqs(kind)' = Seqs(kind) \cup {n \in {Len(journal) + 1} : rec.kind = kind}
<1>1. journal \in Seq(Records) /\ journal' = Append(journal, rec)
  BY DEF Typed, Commit
<1>2. /\ journal' \in Seq(Records)
      /\ Len(journal') = Len(journal) + 1
      /\ Len(journal) + 1 \notin DOMAIN journal
      /\ DOMAIN journal' = DOMAIN journal \cup {Len(journal) + 1}
      /\ journal'[Len(journal) + 1] = rec
      /\ \A s \in DOMAIN journal : journal'[s] = journal[s] /\ s \in Nat /\ s < Len(journal) + 1
  BY <1>1, AppendProperties
<1>3. QED
  BY <1>2 DEF Seqs

\* What the journal reads like after an append.
LEMMA ReadAfter ==
  ASSUME Typed, NEW rec \in Records, Commit(rec)
  PROVE  /\ \A s \in Runs : /\ Absorbed(s)' = Absorbed(s) /\ NoOps(s)' = NoOps(s)
                            /\ Found(s)' = Found(s)
         /\ \A r \in Seqs("verify") : Incomplete(r)' = Incomplete(r)
         /\ \A s : Covering(s)' = Covering(s) \cup
                     {n \in {Len(journal) + 1} : rec.kind = "verify" /\ rec.over = s}
         /\ Reverted' = Reverted \cup
              {rec.over : n \in {m \in {Len(journal) + 1} : /\ rec.kind = "revert"
                                                            /\ rec.status = "reverted"}}
         /\ \A v : Resets(v)' = Resets(v) \cup
                     {n \in {Len(journal) + 1} : rec.kind = "baseline-reset" /\ v \in rec.views}
         /\ \A v : Approvals(v)' = Approvals(v) \cup
                     {n \in {Len(journal) + 1} :
                        \/ rec.kind = "verify" /\ v \in DOMAIN rec.legs /\ rec.legs[v] = "stamped"
                        \/ rec.kind = "adjudication" /\ rec.view = v}
<1>1. \A s \in DOMAIN journal : journal'[s] = journal[s]
  BY Appended
<1>2. /\ Runs \subseteq DOMAIN journal /\ Seqs("verify") \subseteq DOMAIN journal
      /\ Seqs("revert") \subseteq DOMAIN journal /\ Seqs("adjudication") \subseteq DOMAIN journal
      /\ Seqs("baseline-reset") \subseteq DOMAIN journal
  BY DEF Runs, Seqs
<1>3. \A kind : Seqs(kind)' = Seqs(kind) \cup {n \in {Len(journal) + 1} : rec.kind = kind}
  BY Appended
<1>4. journal'[Len(journal) + 1] = rec
  BY Appended
<1>5. \A s \in Runs : Absorbed(s)' = Absorbed(s) /\ NoOps(s)' = NoOps(s) /\ Found(s)' = Found(s)
  BY <1>1, <1>2 DEF Absorbed, NoOps, Found
<1>6. \A r \in Seqs("verify") : Incomplete(r)' = Incomplete(r)
  BY <1>1, <1>2 DEF Incomplete
<1>7. \A s : Covering(s)' = Covering(s) \cup
               {n \in {Len(journal) + 1} : rec.kind = "verify" /\ rec.over = s}
  BY <1>1, <1>2, <1>3, <1>4 DEF Covering
<1>8. Reverted' = Reverted \cup
        {rec.over : n \in {m \in {Len(journal) + 1} : /\ rec.kind = "revert"
                                                      /\ rec.status = "reverted"}}
  BY <1>1, <1>2, <1>3, <1>4 DEF Reverted
<1>9. \A v : Resets(v)' = Resets(v) \cup
               {n \in {Len(journal) + 1} : rec.kind = "baseline-reset" /\ v \in rec.views}
  BY <1>1, <1>2, <1>3, <1>4 DEF Resets
<1>10. \A v : Approvals(v)' = Approvals(v) \cup
               {n \in {Len(journal) + 1} :
                  \/ rec.kind = "verify" /\ v \in DOMAIN rec.legs /\ rec.legs[v] = "stamped"
                  \/ rec.kind = "adjudication" /\ rec.view = v}
  BY <1>1, <1>2, <1>3, <1>4 DEF Approvals
<1>11. QED
  BY <1>5, <1>6, <1>7, <1>8, <1>9, <1>10

\* What was said of a run is not unsaid, and what was reverted stays so.
LEMMA SaidStays ==
  ASSUME Typed, NEW rec \in Records, Commit(rec)
  PROVE  /\ Runs \subseteq Runs' /\ Reverted \subseteq Reverted'
         /\ \A s : Covering(s) \subseteq Covering(s)'
         /\ \A s : Terminal(s) => Terminal(s)'
         /\ \A s, v : Judged(s, v) => Judged(s, v)'
<1>1. Runs \subseteq Runs'
  BY Appended DEF Runs
<1>2. Reverted \subseteq Reverted' /\ \A s : Covering(s) \subseteq Covering(s)'
  BY ReadAfter
<1>3. \A s : Covering(s) \subseteq Seqs("verify")
  BY DEF Covering
<1>4. \A s : Terminal(s) => Terminal(s)'
  BY <1>2, <1>3, ReadAfter DEF Terminal
<1>5. \A r \in Seqs("verify") : journal'[r] = journal[r]
  BY Appended DEF Seqs
<1>6. \A s, v : Judged(s, v) => Judged(s, v)'
  BY <1>2, <1>3, <1>5 DEF Judged
<1>7. QED
  BY <1>1, <1>2, <1>4, <1>6

-----------------------------------------------------------------------------
\* The sessions' locals.

LEMMA NoLegs == << >> \in LegSets /\ DOMAIN << >> = {}
<1>1. << >> \in [{} -> Verdicts] /\ DOMAIN << >> = {}
  OBVIOUS
<1>2. QED
  BY <1>1, LegSetsAre

LEMMA IdleIsAJob == Idle \in Jobs /\ DOMAIN Idle.legs = {}
  BY NoLegs DEF Idle, Jobs, Untouched, Content

\* A session moves alone.
LEMMA Moved ==
  ASSUME Typed, NEW p \in Sessions, NEW to \in Places, NEW locals \in Jobs, Goto(p, to, locals)
  PROVE  /\ pc' \in [Sessions -> Places] /\ job' \in [Sessions -> Jobs]
         /\ pc'[p] = to /\ job'[p] = locals
         /\ \A q \in Sessions \ {p} : pc'[q] = pc[q] /\ job'[q] = job[q]
  BY DEF Typed, Goto

\* A leg that is done leaves the rest of the pass as it was.
LEMMA LegDoneIs ==
  ASSUME NEW j \in Jobs, j.view \in Subjects, NEW verdict \in Verdicts
  PROVE  /\ LegDone(j, verdict) \in Jobs
         /\ LegDone(j, verdict).todo = j.todo \ {j.view}
         /\ LegDone(j, verdict).seq = j.seq
         /\ LegDone(j, verdict).verb = j.verb
         /\ DOMAIN LegDone(j, verdict).legs = DOMAIN j.legs \cup {j.view}
<1> DEFINE legs == [w \in DOMAIN j.legs \cup {j.view} |-> IF w = j.view THEN verdict ELSE j.legs[w]]
<1>1. j.legs \in LegSets
  BY DEF Jobs
<1>2. DOMAIN j.legs \subseteq Subjects /\ j.legs \in [DOMAIN j.legs -> Verdicts]
  BY <1>1, LegSetsAre
<1>3. legs \in [DOMAIN j.legs \cup {j.view} -> Verdicts]
  BY <1>2
<1>4. legs \in LegSets /\ DOMAIN legs = DOMAIN j.legs \cup {j.view}
  BY <1>2, <1>3, LegSetsAre
<1> HIDE DEF legs
<1>5. /\ LegDone(j, verdict) = [j EXCEPT !.todo = @ \ {j.view}, !.view = NoView,
                                         !.text = Untouched, !.legs = legs]
  BY DEF LegDone, legs
<1>6. j \in [verb : AllVerbs \cup {"none"}, seq : Nat, todo : SUBSET Subjects, legs : LegSets,
             view : Subjects \cup {NoView}, text : Content, stamps : BOOLEAN]
  BY DEF Jobs
<1>7. Untouched \in Content
  BY DEF Untouched, Content
<1>8. QED
  BY <1>4, <1>5, <1>6, <1>7 DEF Jobs

\* Runs and what they found stay, so a session that does not move still fits.
LEMMA OthersFit ==
  ASSUME Structure, Runs \subseteq Runs', \A s \in Runs : Found(s)' = Found(s),
         NEW p \in Sessions, \A q \in Sessions \ {p} : pc'[q] = pc[q] /\ job'[q] = job[q],
         JobFits(p)'
  PROVE  \A q \in Sessions : JobFits(q)'
<1>1. ASSUME NEW q \in Sessions \ {p} PROVE JobFits(q)'
  BY <1>1 DEF Structure, JobFits, Working, InPass
<1>2. QED
  BY <1>1

LEMMA FoundStays ==
  ASSUME Typed, UNCHANGED journal \/ \E rec \in Records : Commit(rec)
  PROVE  Runs \subseteq Runs' /\ \A s \in Runs : Found(s)' = Found(s)
<1>1. CASE UNCHANGED journal
  BY <1>1 DEF Runs, Seqs, Found, Absorbed, NoOps
<1>2. ASSUME NEW rec \in Records, Commit(rec)
      PROVE  Runs \subseteq Runs' /\ \A s \in Runs : Found(s)' = Found(s)
  BY <1>2, ReadAfter, SaidStays
<1>3. QED
  BY <1>1, <1>2

-----------------------------------------------------------------------------
\* The records that the actions commit.

LEMMA CompileRecordIs ==
  ASSUME Typed, NEW W \in SUBSET Views, NEW N \in SUBSET Events, NEW s \in Nat
  PROVE  CompileRecord(W, N, s) \in Records
<1>1. [v \in W |-> head[v]] \in Texts
  <2>1. [v \in W |-> head[v]] \in [W -> Content]
    BY DEF Typed
  <2>2. QED
    BY <2>1, TextsAre
<1>2. [v \in W |-> [tree[v] EXCEPT !.body = s]] \in Texts
  <2>1. [v \in W |-> [tree[v] EXCEPT !.body = s]] \in [W -> Content]
    BY DEF Typed, Content
  <2>2. QED
    BY <2>1, TextsAre
<1>3. QED
  BY <1>1, <1>2 DEF CompileRecord, Records

LEMMA OtherRecordsAre ==
  /\ \A s \in Nat : \A legs \in LegSets : VerifyRecord(s, legs) \in Records
  /\ \A s \in Nat : \A status \in {"reverted", "revert-failed"} :
       RevertRecord(s, status) \in Records
  /\ \A s \in Nat : \A v \in Subjects : Adjudication(s, v) \in Records
  /\ \A W \in SUBSET Views : BaselineReset(W) \in Records
  BY DEF VerifyRecord, RevertRecord, Adjudication, BaselineReset, Records

\* What a record must be to fit the records before it.
Fits(rec) ==
  /\ rec.kind = "compile" => /\ DOMAIN rec.before = DOMAIN rec.wrote
                             /\ \A v \in DOMAIN rec.wrote : rec.wrote[v].body = Len(journal) + 1
  /\ rec.kind \in {"verify", "revert", "adjudication"} => rec.over \in Runs
  /\ rec.kind = "verify" => DOMAIN rec.legs \subseteq Found(rec.over)
  /\ rec.kind = "adjudication" => rec.view \in Found(rec.over)

LEMMA RecordsFit ==
  ASSUME Typed, RunsFit, LaterFit, NEW rec \in Records, Commit(rec), Fits(rec)
  PROVE  RunsFit' /\ LaterFit'
<1>1. /\ \A kind : Seqs(kind)' = Seqs(kind) \cup {n \in {Len(journal) + 1} : rec.kind = kind}
      /\ \A s \in DOMAIN journal : journal'[s] = journal[s] /\ s \in Nat /\ s < Len(journal) + 1
      /\ journal'[Len(journal) + 1] = rec
  BY Appended
<1>2. \A kind : Seqs(kind) \subseteq DOMAIN journal
  BY DEF Seqs
<1>3. Runs \subseteq DOMAIN journal /\ Runs \subseteq Runs' /\ \A s \in Runs : Found(s)' = Found(s)
  BY <1>2, FoundStays DEF Runs
<1>4. RunsFit'
  <2>1. ASSUME NEW s \in Runs'
        PROVE  /\ DOMAIN journal'[s].before = DOMAIN journal'[s].wrote
               /\ \A v \in DOMAIN journal'[s].wrote : journal'[s].wrote[v].body = s
    <3>1. CASE s \in Runs
      BY <1>1, <1>3, <3>1 DEF RunsFit, Absorbed
    <3>2. CASE s \notin Runs
      <4>1. s = Len(journal) + 1 /\ rec.kind = "compile"
        BY <1>1, <2>1, <3>2 DEF Runs
      <4>2. QED
        BY <1>1, <4>1 DEF Fits
    <3>3. QED
      BY <3>1, <3>2
  <2>2. QED
    BY <2>1 DEF RunsFit, Absorbed
<1>5. ASSUME NEW r \in Later' PROVE journal'[r].over \in Runs' /\ journal'[r].over < r
  <2>1. CASE r \in Later
    BY <1>1, <1>2, <1>3, <2>1 DEF LaterFit, Later
  <2>2. CASE r \notin Later
    <3>1. r = Len(journal) + 1 /\ rec.kind \in {"verify", "revert", "adjudication"}
      BY <1>1, <1>5, <2>2 DEF Later
    <3>2. QED
      BY <1>1, <1>3, <3>1 DEF Fits
  <2>3. QED
    BY <2>1, <2>2
<1>6. ASSUME NEW r \in Seqs("verify")'
      PROVE  (DOMAIN journal[r].legs \subseteq Found(journal[r].over))'
  <2>1. CASE r \in Seqs("verify")
    BY <1>1, <1>2, <1>3, <2>1 DEF LaterFit, Later
  <2>2. CASE r \notin Seqs("verify")
    BY <1>1, <1>3, <1>6, <2>2 DEF Fits
  <2>3. QED
    BY <2>1, <2>2
<1>7. ASSUME NEW r \in Seqs("adjudication")' PROVE (journal[r].view \in Found(journal[r].over))'
  <2>1. CASE r \in Seqs("adjudication")
    BY <1>1, <1>2, <1>3, <2>1 DEF LaterFit, Later
  <2>2. CASE r \notin Seqs("adjudication")
    BY <1>1, <1>3, <1>7, <2>2 DEF Fits
  <2>3. QED
    BY <2>1, <2>2
<1>8. QED
  BY <1>4, <1>5, <1>6, <1>7 DEF LaterFit

\* Each action that writes to the journal commits one record that fits.

LEMMA AbsorbCommits ==
  ASSUME Structure, NEW p \in Sessions, Absorb(p)
  PROVE  \E W \in SUBSET Views, N \in SUBSET Events :
           LET rec == CompileRecord(W, N, Len(journal) + 1)
           IN /\ rec \in Records /\ Commit(rec) /\ Fits(rec)
              /\ tree' = [v \in Views |-> IF v \in W THEN [tree[v] EXCEPT !.body = Len(journal) + 1]
                                                     ELSE tree[v]]
              /\ head' = [v \in Views |-> IF v \in W THEN tree'[v] ELSE head[v]]
<1>1. Typed /\ Len(journal) + 1 \in Nat
  BY RecordTypes DEF Structure
<1>2. PICK W \in SUBSET Views, N \in SUBSET Events :
        /\ Commit(CompileRecord(W, N, Len(journal) + 1))
        /\ tree' = [v \in Views |-> IF v \in W THEN [tree[v] EXCEPT !.body = Len(journal) + 1]
                                               ELSE tree[v]]
        /\ head' = [v \in Views |-> IF v \in W THEN tree'[v] ELSE head[v]]
  BY DEF Absorb
<1>3. CompileRecord(W, N, Len(journal) + 1) \in Records
  BY <1>1, CompileRecordIs
<1>4. Fits(CompileRecord(W, N, Len(journal) + 1))
  <2>1. \A v \in W : [tree[v] EXCEPT !.body = Len(journal) + 1].body = Len(journal) + 1
    BY <1>1 DEF Typed, Content
  <2>2. QED
    BY <2>1 DEF Fits, CompileRecord
<1>5. QED
  BY <1>2, <1>3, <1>4

LEMMA VerifyCommits ==
  ASSUME Structure, NEW p \in Sessions, VerifyCommit(p)
  PROVE  LET rec == VerifyRecord(job[p].seq, job[p].legs)
         IN rec \in Records /\ Commit(rec) /\ Fits(rec)
<1>1. job[p].seq \in Runs /\ DOMAIN job[p].legs \subseteq Found(job[p].seq)
  BY DEF Structure, JobFits, VerifyCommit, Working, InPass
<1>2. job[p].seq \in Nat /\ job[p].legs \in LegSets
  BY DEF Structure, Typed, Jobs
<1>3. Commit(VerifyRecord(job[p].seq, job[p].legs))
  BY DEF VerifyCommit
<1>4. QED
  BY <1>1, <1>2, <1>3, OtherRecordsAre DEF Fits, VerifyRecord

LEMMA RevertCommits ==
  ASSUME Structure, NEW p \in Sessions, AutoRevert(p) \/ Restore(p)
  PROVE  /\ job[p].seq \in Runs
         /\ \E status \in {"reverted", "revert-failed"} :
              LET rec == RevertRecord(job[p].seq, status)
              IN rec \in Records /\ Commit(rec) /\ Fits(rec)
<1>1. job[p].seq \in Runs
  BY DEF Structure, JobFits, AutoRevert, Restore, Working
<1>2. job[p].seq \in Nat
  BY DEF Structure, Typed, Jobs
<1>3. \E status \in {"reverted", "revert-failed"} : Commit(RevertRecord(job[p].seq, status))
  BY DEF AutoRevert, Restore, MergeRevert, ConflictedRevert, RestoreBytes, Undone
<1>4. \A status : Fits(RevertRecord(job[p].seq, status))
  BY <1>1 DEF Fits, RevertRecord
<1>5. QED
  BY <1>1, <1>2, <1>3, <1>4, OtherRecordsAre

LEMMA SetAsideCommits ==
  ASSUME Structure, NEW p \in Sessions, NEW s \in Runs, NEW v \in Found(s), SetAside(p, s, v)
  PROVE  LET rec == Adjudication(s, v) IN rec \in Records /\ Commit(rec) /\ Fits(rec)
<1>1. s \in Nat /\ v \in Subjects
  BY RecordTypes DEF Structure, Found, Subjects
<1>2. QED
  BY <1>1, OtherRecordsAre DEF SetAside, Fits, Adjudication

LEMMA ResetCommits ==
  ASSUME NEW p \in Sessions, ResetBaseline(p)
  PROVE  \E W \in SUBSET {v \in Views \ NewViews : Approvals(v) \cup Resets(v) = {}} \ {{}} :
           LET rec == BaselineReset(W) IN rec \in Records /\ Commit(rec) /\ Fits(rec)
  BY OtherRecordsAre DEF ResetBaseline, Fits, BaselineReset

-----------------------------------------------------------------------------
\* Structure is preserved by every step, whatever the other sessions do.

\* A step of session p: it writes at most one record, and goes on with its locals.
LEMMA SessionMoves ==
  ASSUME Structure, NEW p \in Sessions, NEW to \in Places, NEW locals \in Jobs,
         Goto(p, to, locals),
         UNCHANGED journal \/ \E rec \in Records : Commit(rec) /\ Fits(rec),
         head' \in [Views -> Content], tree' \in [Views -> Content],
         lock' \in Sessions \cup {Nobody, Orphan}, crashes' \in 0..MaxCrashes,
         to \in Working => locals.seq \in Runs',
         to \in {"absorb", "verify"} => DOMAIN locals.legs = {},
         to \in InPass => /\ UNCHANGED journal
                          /\ locals.todo \cup DOMAIN locals.legs \subseteq Found(locals.seq),
         to = "verdict" => locals.view \in locals.todo
  PROVE  Structure'
<1>1. Typed /\ RunsFit /\ LaterFit
  BY DEF Structure
<1>2. journal' \in Seq(Records) /\ RunsFit' /\ LaterFit'
  <2>1. CASE UNCHANGED journal
    BY <1>1, <2>1 DEF Typed, RunsFit, LaterFit, Runs, Later, Seqs, Found, Absorbed, NoOps
  <2>2. ASSUME NEW rec \in Records, Commit(rec), Fits(rec)
        PROVE  journal' \in Seq(Records) /\ RunsFit' /\ LaterFit'
    BY <1>1, <2>2, Appended, RecordsFit
  <2>3. QED
    BY <2>1, <2>2
<1>3. Runs \subseteq Runs' /\ \A s \in Runs : Found(s)' = Found(s)
  BY <1>1, FoundStays
<1>4. /\ pc' \in [Sessions -> Places] /\ job' \in [Sessions -> Jobs]
      /\ pc'[p] = to /\ job'[p] = locals
      /\ \A q \in Sessions \ {p} : pc'[q] = pc[q] /\ job'[q] = job[q]
  BY <1>1, Moved
<1>5. JobFits(p)'
  <2>1. to \in InPass => locals.todo \cup DOMAIN locals.legs \subseteq Found(locals.seq)'
    BY DEF Found, Absorbed, NoOps
  <2>2. QED
    BY <1>4, <2>1 DEF JobFits
<1>6. \A q \in Sessions : JobFits(q)'
  BY <1>3, <1>4, <1>5, OthersFit
<1>7. QED
  BY <1>2, <1>4, <1>6 DEF Structure, Typed

\* A session that ends.
LEMMA SessionEnds ==
  ASSUME Structure, NEW p \in Sessions, Goto(p, "idle", Idle),
         UNCHANGED journal \/ \E rec \in Records : Commit(rec) /\ Fits(rec),
         head' \in [Views -> Content], tree' \in [Views -> Content],
         lock' \in Sessions \cup {Nobody, Orphan}, crashes' \in 0..MaxCrashes
  PROVE  Structure'
<1>1. "idle" \in Places /\ "idle" \notin Working \cup {"absorb", "verify", "verdict"} \cup InPass
  BY DEF Places, Working, InPass
<1>2. Idle \in Jobs
  BY IdleIsAJob
<1> HIDE DEF Idle, Jobs
<1>3. QED
  BY <1>1, <1>2, SessionMoves

\* A record that is written while no session moves.
LEMMA OperatorWrites ==
  ASSUME Structure, \E rec \in Records : Commit(rec) /\ Fits(rec),
         UNCHANGED <<head, tree, lock, pc, job, crashes>>
  PROVE  Structure'
<1>1. PICK rec \in Records : Commit(rec) /\ Fits(rec)
  OBVIOUS
<1>2. Typed /\ RunsFit /\ LaterFit
  BY DEF Structure
<1>3. journal' \in Seq(Records) /\ RunsFit' /\ LaterFit'
  BY <1>1, <1>2, Appended, RecordsFit
<1>4. Runs \subseteq Runs' /\ \A s \in Runs : Found(s)' = Found(s)
  BY <1>1, <1>2, FoundStays
<1>5. \A q \in Sessions : JobFits(q)'
  BY <1>4 DEF Structure, JobFits, Working, InPass
<1>6. QED
  BY <1>2, <1>3, <1>5 DEF Structure, Typed

\* A revert of either kind moves views to contents.
LEMMA RevertTypes ==
  ASSUME Structure, NEW s \in Runs,
         MergeRevert(s) \/ ConflictedRevert(s) \/ RestoreBytes(s)
  PROVE  head' \in [Views -> Content] /\ tree' \in [Views -> Content]
<1>1. Typed
  BY DEF Structure
<1>2. \A v \in Absorbed(s) : journal[s].before[v] \in Content
  BY <1>1, RecordTypes, TextsAre DEF Structure, RunsFit
<1>3. \A v \in Absorbed(s) : v \in Views =>
        [journal[s].before[v] EXCEPT !.stamp = head[v].stamp] \in Content
  BY <1>1, <1>2 DEF Typed, Content
<1>4. CASE MergeRevert(s)
  BY <1>1, <1>3, <1>4 DEF MergeRevert, Undone, Typed
<1>5. CASE ConflictedRevert(s)
  BY <1>1, <1>5 DEF ConflictedRevert, Typed
<1>6. CASE RestoreBytes(s)
  BY <1>1, <1>2, <1>6 DEF RestoreBytes, Undone, Typed
<1>7. QED
  BY <1>4, <1>5, <1>6

LEMMA PassSteps ==
  ASSUME Structure, NEW p \in Sessions
  PROVE  /\ VerifyStart(p) => Structure'
         /\ VerifyRaises(p) => Structure'
         /\ AskNoOp(p) => Structure'
         /\ SendPacket(p) => Structure'
         /\ NoOpAnswer(p) => Structure'
         /\ Answer(p) => Structure'
<1>1. Typed /\ JobFits(p)
  BY DEF Structure
<1>2. /\ job[p] \in Jobs /\ head \in [Views -> Content] /\ tree \in [Views -> Content]
      /\ lock \in Sessions \cup {Nobody, Orphan} /\ crashes \in 0..MaxCrashes
  BY <1>1 DEF Typed
<1>3. Places = {"idle", "absorb", "verify", "leg", "verdict", "grade", "undo", "restore"}
      /\ InPass = {"leg", "verdict"}
      /\ Working = {"verify", "leg", "verdict", "grade", "undo", "restore"}
  BY DEF Places, InPass, Working
<1>4. /\ job[p].seq \in Nat /\ job[p].todo \subseteq Subjects /\ job[p].legs \in LegSets
      /\ job[p].view \in Subjects \cup {NoView} /\ job[p].text \in Content
  BY <1>2 DEF Jobs
<1>5. UNCHANGED journal => Runs' = Runs
  BY DEF Runs, Seqs
<1>6. Runs \subseteq DOMAIN journal /\ \A s \in Runs : Found(s) \subseteq Subjects
  BY <1>1, RecordTypes DEF Found, Subjects
<1>7. ASSUME VerifyStart(p) PROVE Structure'
  <2> DEFINE locals == [job[p] EXCEPT !.todo = Asked(job[p].seq)]
  <2>1. job[p].seq \in Runs /\ DOMAIN job[p].legs = {}
    BY <1>1, <1>3, <1>7 DEF VerifyStart, JobFits
  <2>2. Asked(job[p].seq) \subseteq Found(job[p].seq)
    BY DEF Asked, Triggered, Found
  <2>3. /\ locals \in Jobs /\ locals.todo = Asked(job[p].seq) /\ locals.legs = job[p].legs
        /\ locals.seq = job[p].seq
    BY <1>2, <1>6, <2>1, <2>2 DEF Jobs
  <2>4. /\ Goto(p, "leg", locals) /\ UNCHANGED <<journal, head, tree, crashes>>
        /\ lock' \in Sessions \cup {Nobody, Orphan}
    BY <1>7 DEF VerifyStart
  <2> HIDE DEF locals
  <2>5. QED
    BY <1>2, <1>3, <1>5, <2>1, <2>2, <2>3, <2>4, SessionMoves
<1>8. ASSUME VerifyRaises(p) PROVE Structure'
  <2> DEFINE locals == [Idle EXCEPT !.verb = "run", !.seq = job[p].seq]
  <2>1. job[p].seq \in Runs
    BY <1>1, <1>3, <1>8 DEF VerifyRaises, JobFits
  <2>2. locals \in Jobs /\ locals.seq = job[p].seq
    BY <1>4, IdleIsAJob DEF Jobs, AllVerbs, Idle
  <2>3. /\ UNCHANGED <<journal, head, tree, crashes>>
        /\ lock' \in Sessions \cup {Nobody, Orphan}
        /\ Goto(p, "undo", locals) \/ Goto(p, "idle", Idle)
    BY <1>2, <1>8 DEF VerifyRaises
  <2> HIDE DEF locals
  <2>4. CASE Goto(p, "undo", locals)
    BY <1>2, <1>3, <1>5, <2>1, <2>2, <2>3, <2>4, SessionMoves
  <2>5. CASE Goto(p, "idle", Idle)
    BY <1>2, <2>3, <2>5, SessionEnds
  <2>6. QED
    BY <2>3, <2>4, <2>5
<1>9. ASSUME AskNoOp(p) PROVE Structure'
  <2>1. PICK e \in job[p].todo \cap Events : Goto(p, "verdict", [job[p] EXCEPT !.view = e])
    BY <1>9 DEF AskNoOp
  <2> DEFINE locals == [job[p] EXCEPT !.view = e]
  <2>2. job[p].seq \in Runs /\ job[p].todo \cup DOMAIN job[p].legs \subseteq Found(job[p].seq)
    BY <1>1, <1>3, <1>9 DEF AskNoOp, JobFits
  <2>3. /\ locals \in Jobs /\ locals.todo = job[p].todo /\ locals.legs = job[p].legs
        /\ locals.seq = job[p].seq /\ locals.view = e
    BY <1>2, <1>4 DEF Jobs
  <2>4. Goto(p, "verdict", locals) /\ UNCHANGED <<journal, head, tree, lock, crashes>>
    BY <1>9, <2>1 DEF AskNoOp
  <2> HIDE DEF locals
  <2>5. QED
    BY <1>2, <1>3, <1>5, <2>1, <2>2, <2>3, <2>4, SessionMoves
<1>10. ASSUME SendPacket(p) PROVE Structure'
  <2>1. PICK v \in job[p].todo : Goto(p, "verdict", [job[p] EXCEPT !.view = v, !.text = tree[v]])
    BY <1>10 DEF SendPacket
  <2> DEFINE locals == [job[p] EXCEPT !.view = v, !.text = tree[v]]
  <2>2. job[p].seq \in Runs /\ job[p].todo \cup DOMAIN job[p].legs \subseteq Found(job[p].seq)
    BY <1>1, <1>3, <1>10 DEF SendPacket, JobFits
  <2>3. v \in Views
    BY <1>4, <1>10, <2>1 DEF SendPacket, Subjects
  <2>4. /\ locals \in Jobs /\ locals.todo = job[p].todo /\ locals.legs = job[p].legs
        /\ locals.seq = job[p].seq /\ locals.view = v
    BY <1>2, <1>4, <2>3 DEF Jobs
  <2>5. Goto(p, "verdict", locals) /\ UNCHANGED <<journal, head, tree, lock, crashes>>
    BY <1>10, <2>1 DEF SendPacket
  <2> HIDE DEF locals
  <2>6. QED
    BY <1>2, <1>3, <1>5, <2>1, <2>2, <2>4, <2>5, SessionMoves
<1>11. ASSUME NEW verdict \in Verdicts, pc[p] = "verdict", job[p].view \in Subjects,
              Goto(p, "leg", LegDone(job[p], verdict)), tree' \in [Views -> Content],
              UNCHANGED <<journal, head, lock, crashes>>
       PROVE  Structure'
  <2> DEFINE locals == LegDone(job[p], verdict)
  <2>1. /\ job[p].seq \in Runs /\ job[p].todo \cup DOMAIN job[p].legs \subseteq Found(job[p].seq)
        /\ job[p].view \in job[p].todo
    BY <1>1, <1>3, <1>11 DEF JobFits
  <2>2. /\ locals \in Jobs /\ locals.todo = job[p].todo \ {job[p].view}
        /\ DOMAIN locals.legs = DOMAIN job[p].legs \cup {job[p].view} /\ locals.seq = job[p].seq
    BY <1>2, <1>11, LegDoneIs
  <2> HIDE DEF locals
  <2>3. Goto(p, "leg", locals)
    BY <1>11 DEF locals
  <2>4. QED
    BY <1>2, <1>3, <1>5, <1>11, <2>1, <2>2, <2>3, SessionMoves
<1>12. ASSUME NoOpAnswer(p) PROVE Structure'
  BY <1>2, <1>11, <1>12 DEF NoOpAnswer, Subjects
<1>13. ASSUME Answer(p) PROVE Structure'
  <2>1. PICK verdict \in Verdicts :
          /\ tree' = IF verdict = "stamped"
                        THEN [tree EXCEPT ![job[p].view] =
                                [job[p].text EXCEPT !.stamp = job[p].seq]]
                        ELSE tree
          /\ Goto(p, "leg", LegDone(job[p], verdict))
    BY <1>13 DEF Answer
  <2>2. [job[p].text EXCEPT !.stamp = job[p].seq] \in Content
    BY <1>4 DEF Content
  <2>3. tree' \in [Views -> Content]
    BY <1>2, <2>1, <2>2
  <2>4. QED
    BY <1>11, <1>13, <2>1, <2>3 DEF Answer, Subjects
<1>14. QED
  BY <1>7, <1>8, <1>9, <1>10, <1>12, <1>13

LEMMA RunSteps ==
  ASSUME Structure, NEW p \in Sessions
  PROVE  /\ Reconcile(p) => Structure'
         /\ Absorb(p) => Structure'
         /\ AbsorbRefused(p) => Structure'
         /\ VerifyCommit(p) => Structure'
         /\ Grade(p) => Structure'
         /\ AutoRevert(p) => Structure'
         /\ Restore(p) => Structure'
         /\ Crash(p) => Structure'
<1>1. Typed /\ JobFits(p)
  BY DEF Structure
<1>2. /\ job[p] \in Jobs /\ head \in [Views -> Content] /\ tree \in [Views -> Content]
      /\ lock \in Sessions \cup {Nobody, Orphan} /\ crashes \in 0..MaxCrashes
  BY <1>1 DEF Typed
<1>3. /\ Places = {"idle", "absorb", "verify", "leg", "verdict", "grade", "undo", "restore"}
      /\ InPass = {"leg", "verdict"}
      /\ Working = {"verify", "leg", "verdict", "grade", "undo", "restore"}
  BY DEF Places, InPass, Working
<1>4. job[p].seq \in Nat
  BY <1>2 DEF Jobs
<1>5. UNCHANGED journal => Runs' = Runs
  BY DEF Runs, Seqs
<1>6. Runs \subseteq Nat
  BY <1>1, RecordTypes
<1>7. \A s \in Nat : LET locals == [Idle EXCEPT !.verb = "run", !.seq = s]
                     IN locals \in Jobs /\ locals.seq = s
  BY IdleIsAJob DEF Jobs, AllVerbs, Idle
<1>8. ASSUME Reconcile(p) PROVE Structure'
  <2> DEFINE locals == [Idle EXCEPT !.verb = "run"]
  <2>1. locals \in Jobs /\ locals.legs = Idle.legs
    BY IdleIsAJob DEF Jobs, AllVerbs, Idle
  <2>2. Goto(p, "absorb", locals) /\ UNCHANGED <<journal, head, tree, lock, crashes>>
    BY <1>8 DEF Reconcile
  <2>3. DOMAIN locals.legs = {}
    BY <2>1, IdleIsAJob
  <2> HIDE DEF locals
  <2>4. QED
    BY <1>2, <1>3, <2>1, <2>2, <2>3, SessionMoves
<1>9. ASSUME Absorb(p) PROVE Structure'
  <2>1. PICK W \in SUBSET Views, N \in SUBSET Events :
          LET rec == CompileRecord(W, N, Len(journal) + 1)
          IN /\ rec \in Records /\ Commit(rec) /\ Fits(rec)
             /\ tree' = [v \in Views |-> IF v \in W THEN [tree[v] EXCEPT !.body = Len(journal) + 1]
                                                    ELSE tree[v]]
             /\ head' = [v \in Views |-> IF v \in W THEN tree'[v] ELSE head[v]]
    BY <1>9, AbsorbCommits
  <2> DEFINE rec == CompileRecord(W, N, Len(journal) + 1)
             locals == [job[p] EXCEPT !.seq = Len(journal) + 1]
  <2>2. Len(journal) + 1 \in Nat
    BY <1>1, RecordTypes
  <2>3. \A v \in Views : [tree[v] EXCEPT !.body = Len(journal) + 1] \in Content
    BY <1>2, <2>2 DEF Content
  <2>4. tree' \in [Views -> Content]
    BY <1>2, <2>1, <2>3
  <2>5. head' \in [Views -> Content]
    BY <1>2, <2>1, <2>4
  <2>6. rec.kind = "compile"
    BY DEF CompileRecord
  <2>7. rec \in Records /\ Commit(rec) /\ Fits(rec)
    BY <2>1
  <2>8. /\ pc[p] = "absorb" /\ Goto(p, "verify", locals) /\ UNCHANGED <<lock, crashes>>
    BY <1>9 DEF Absorb
  <2>9. locals \in Jobs /\ locals.legs = job[p].legs /\ locals.seq = Len(journal) + 1
    BY <1>2, <2>2 DEF Jobs
  <2> HIDE DEF rec, locals
  <2>10. Len(journal) + 1 \in Runs'
    BY <1>1, <2>6, <2>7, Appended DEF Runs
  <2>11. DOMAIN locals.legs = {}
    BY <1>1, <2>8, <2>9 DEF JobFits
  <2>12. QED
    BY <1>2, <1>3, <2>4, <2>5, <2>7, <2>8, <2>9, <2>10, <2>11, SessionMoves
<1>10. ASSUME AbsorbRefused(p) PROVE Structure'
  BY <1>2, <1>10, SessionEnds DEF AbsorbRefused
<1>11. ASSUME VerifyCommit(p) PROVE Structure'
  <2> DEFINE rec == VerifyRecord(job[p].seq, job[p].legs)
             stamped == {v \in Views \cap DOMAIN job[p].legs : job[p].legs[v] = "stamped"}
  <2>1. rec \in Records /\ Commit(rec) /\ Fits(rec)
    BY <1>11, VerifyCommits
  <2>2. /\ pc[p] = "leg" /\ lock' = Nobody /\ UNCHANGED <<tree, crashes>>
        /\ head' = [v \in Views |-> IF v \in stamped THEN tree[v] ELSE head[v]]
        /\ Goto(p, "grade", job[p]) \/ Goto(p, "idle", Idle)
    BY <1>11 DEF VerifyCommit
  <2> HIDE DEF rec, stamped
  <2>3. head' \in [Views -> Content]
    BY <1>2, <2>2
  <2>4. job[p].seq \in Runs'
    BY <1>1, <1>3, <2>1, <2>2, FoundStays DEF JobFits
  <2>5. CASE Goto(p, "grade", job[p])
    BY <1>2, <1>3, <2>1, <2>2, <2>3, <2>4, <2>5, SessionMoves
  <2>6. CASE Goto(p, "idle", Idle)
    BY <1>2, <2>1, <2>2, <2>3, <2>6, SessionEnds
  <2>7. QED
    BY <2>2, <2>5, <2>6
<1>12. ASSUME Grade(p) PROVE Structure'
  <2> DEFINE locals == [Idle EXCEPT !.verb = "run", !.seq = job[p].seq]
  <2>1. /\ pc[p] = "grade" /\ UNCHANGED <<journal, head, tree, lock, crashes>>
        /\ Goto(p, "undo", locals) \/ Goto(p, "idle", Idle)
    BY <1>12 DEF Grade
  <2>2. job[p].seq \in Runs
    BY <1>1, <1>3, <2>1 DEF JobFits
  <2>3. locals \in Jobs /\ locals.seq = job[p].seq
    BY <1>4, <1>7
  <2> HIDE DEF locals
  <2>4. CASE Goto(p, "undo", locals)
    BY <1>2, <1>3, <1>5, <2>1, <2>2, <2>3, <2>4, SessionMoves
  <2>5. CASE Goto(p, "idle", Idle)
    BY <1>2, <2>1, <2>5, SessionEnds
  <2>6. QED
    BY <2>1, <2>4, <2>5
<1>13. ASSUME AutoRevert(p) \/ Restore(p) PROVE Structure'
  <2>1. job[p].seq \in Runs /\ \E rec \in Records : Commit(rec) /\ Fits(rec)
    BY <1>13, RevertCommits
  <2>2. MergeRevert(job[p].seq) \/ ConflictedRevert(job[p].seq) \/ RestoreBytes(job[p].seq)
    BY <1>13 DEF AutoRevert, Restore
  <2>3. head' \in [Views -> Content] /\ tree' \in [Views -> Content]
    BY <2>1, <2>2, RevertTypes
  <2>4. Goto(p, "idle", Idle) /\ UNCHANGED <<lock, crashes>>
    BY <1>13 DEF AutoRevert, Restore
  <2>5. QED
    BY <1>2, <2>1, <2>3, <2>4, SessionEnds
<1>14. ASSUME Crash(p) PROVE Structure'
  <2>1. /\ UNCHANGED <<journal, head, tree>> /\ Goto(p, "idle", Idle)
        /\ lock' \in Sessions \cup {Nobody, Orphan}
    BY <1>2, <1>14 DEF Crash
  <2>2. crashes' \in 0..MaxCrashes
    BY <1>2, <1>14, CompileDriverAssumption DEF Crash
  <2>3. QED
    BY <1>2, <2>1, <2>2, SessionEnds
<1>15. QED
  BY <1>8, <1>9, <1>10, <1>11, <1>12, <1>13, <1>14

LEMMA OperatorSteps ==
  ASSUME Structure, NEW p \in Sessions
  PROVE  /\ \A s \in Runs : Reverify(p, s) => Structure'
         /\ \A s \in Runs : Revert(p, s) => Structure'
         /\ \A s \in Runs : \A v \in Found(s) : SetAside(p, s, v) => Structure'
         /\ ResetBaseline(p) => Structure'
<1>1. Typed
  BY DEF Structure
<1>2. /\ head \in [Views -> Content] /\ tree \in [Views -> Content]
      /\ lock \in Sessions \cup {Nobody, Orphan} /\ crashes \in 0..MaxCrashes
  BY <1>1 DEF Typed
<1>3. /\ Places = {"idle", "absorb", "verify", "leg", "verdict", "grade", "undo", "restore"}
      /\ InPass = {"leg", "verdict"}
      /\ Working = {"verify", "leg", "verdict", "grade", "undo", "restore"}
  BY DEF Places, InPass, Working
<1>4. UNCHANGED journal => Runs' = Runs
  BY DEF Runs, Seqs
<1>5. Runs \subseteq Nat
  BY <1>1, RecordTypes
<1>6. ASSUME NEW s \in Runs, Reverify(p, s) PROVE Structure'
  <2> DEFINE locals == [Idle EXCEPT !.verb = "reverify", !.seq = s]
  <2>1. locals \in Jobs /\ locals.legs = Idle.legs /\ locals.seq = s
    BY <1>5, IdleIsAJob DEF Jobs, AllVerbs, Idle
  <2>2. Goto(p, "verify", locals) /\ UNCHANGED <<journal, head, tree, lock, crashes>>
    BY <1>6 DEF Reverify
  <2>3. DOMAIN locals.legs = {}
    BY <2>1, IdleIsAJob
  <2> HIDE DEF locals
  <2>4. QED
    BY <1>2, <1>3, <1>4, <2>1, <2>2, <2>3, SessionMoves
<1>7. ASSUME NEW s \in Runs, Revert(p, s) PROVE Structure'
  <2> DEFINE stamps == StampedSince(s) # {}
             locals == [Idle EXCEPT !.verb = "revert", !.seq = s, !.stamps = stamps]
  <2>1. stamps \in BOOLEAN
    OBVIOUS
  <2> HIDE DEF stamps
  <2>2. locals \in Jobs /\ locals.seq = s
    BY <1>5, <2>1, IdleIsAJob DEF Jobs, AllVerbs, Idle
  <2>3. Goto(p, "restore", locals) /\ UNCHANGED <<journal, head, tree, lock, crashes>>
    BY <1>7 DEF Revert, stamps
  <2> HIDE DEF locals
  <2>4. QED
    BY <1>2, <1>3, <1>4, <2>2, <2>3, SessionMoves
<1>8. ASSUME NEW s \in Runs, NEW v \in Found(s), SetAside(p, s, v) PROVE Structure'
  BY <1>8, SetAsideCommits, OperatorWrites DEF SetAside
<1>9. ASSUME ResetBaseline(p) PROVE Structure'
  BY <1>9, ResetCommits, OperatorWrites DEF ResetBaseline
<1>10. QED
  BY <1>6, <1>7, <1>8, <1>9

\* A step that no session makes.
LEMMA OtherSteps ==
  ASSUME Structure, BreakStaleLock \/ DiscardChanges \/ UNCHANGED vars
  PROVE  Structure'
<1>1. Typed
  BY DEF Structure
<1>2. UNCHANGED <<journal, head, pc, job, crashes>>
  BY DEF BreakStaleLock, DiscardChanges, vars
<1>3. Typed'
  BY <1>1, <1>2 DEF Typed, BreakStaleLock, DiscardChanges, vars
<1>4. RunsFit' /\ LaterFit'
  BY <1>2 DEF Structure, RunsFit, LaterFit, Runs, Later, Seqs, Found, Absorbed, NoOps
<1>5. \A s : Found(s)' = Found(s)
  BY <1>2 DEF Found, Absorbed, NoOps
<1>6. Runs' = Runs
  BY <1>2 DEF Runs, Seqs
<1>7. \A p \in Sessions : JobFits(p)'
  BY <1>2, <1>5, <1>6 DEF Structure, JobFits
<1>8. QED
  BY <1>3, <1>4, <1>7 DEF Structure

LEMMA StructureStep ==
  ASSUME Structure, [Next]_vars
  PROVE  Structure'
<1>1. ASSUME NEW p \in Sessions, Reconcile(p) PROVE Structure'
  BY <1>1, RunSteps
<1>2. ASSUME NEW p \in Sessions, Step(p) PROVE Structure'
  BY <1>2, RunSteps, PassSteps DEF Step
<1>3. ASSUME NEW p \in Sessions, Operator(p) PROVE Structure'
  BY <1>3, OperatorSteps DEF Operator, Found
<1>4. ASSUME NEW p \in Sessions, Crash(p) PROVE Structure'
  BY <1>4, RunSteps
<1>5. QED
  BY <1>1, <1>2, <1>3, <1>4, OtherSteps DEF Next

LEMMA InitStructure == Init => Structure
<1> SUFFICES ASSUME Init PROVE Structure
  OBVIOUS
<1>1. journal = << >> /\ journal \in Seq(Records) /\ DOMAIN journal = {}
  BY DEF Init
<1>2. Typed
  BY <1>1, IdleIsAJob, CompileDriverAssumption
     DEF Init, Typed, Content, Untouched, Places
<1>3. RunsFit /\ LaterFit
  BY <1>1 DEF RunsFit, LaterFit, Later, Runs, Seqs
<1>4. \A p \in Sessions : JobFits(p)
  BY DEF Init, JobFits, Working, InPass
<1>5. QED
  BY <1>2, <1>3, <1>4 DEF Structure

LEMMA StructureIsTyped == Structure => TypeOK
<1> SUFFICES ASSUME Structure PROVE TypeOK
  OBVIOUS
<1>1. Typed
  BY DEF Structure
<1>2. \A s \in DOMAIN journal :
        journal[s].kind \in {"compile", "verify", "revert", "adjudication", "baseline-reset"}
  BY <1>1, RecordTypes DEF Records
<1>3. ASSUME NEW s \in Runs
      PROVE  /\ journal[s].before \in [Absorbed(s) -> Content]
             /\ journal[s].wrote \in [Absorbed(s) -> Content]
             /\ NoOps(s) \subseteq Events
  BY <1>1, RecordTypes, TextsAre DEF Structure, RunsFit, Absorbed
<1>4. \A r \in DOMAIN journal \ (Runs \cup Seqs("baseline-reset")) : journal[r].over \in Runs
  <2>1. \A r \in DOMAIN journal \ (Runs \cup Seqs("baseline-reset")) : r \in Later
    BY <1>2 DEF Runs, Seqs, Later
  <2>2. QED
    BY <2>1 DEF Structure, LaterFit
<1>5. \A p \in Sessions : pc[p] \in Working => job[p].seq \in Runs
  BY DEF Structure, JobFits
<1>6. QED
  BY <1>1, <1>2, <1>3, <1>4, <1>5 DEF TypeOK, Typed, Places, Working

LEMMA StructureHolds == Spec => []Structure
<1>1. Init => Structure
  BY InitStructure
<1>2. Structure /\ [Next]_vars => Structure'
  BY StructureStep
<1>3. QED
  BY <1>1, <1>2, PTL DEF Spec

\* However many invocations are active at a time, records, contents and locals stay
\* of their types, every later record is about a run that is on record, and a session
\* works on a run that is on record (compile-driver.py, its verbs over one journal).
THEOREM TypeCorrect == Spec => []TypeOK
<1>1. Structure => TypeOK
  BY StructureIsTyped
<1>2. QED
  BY <1>1, StructureHolds, PTL

-----------------------------------------------------------------------------
\* The newest of some seqs.

\* A set of numbers that is bounded has a greatest one: its tails are finite sets
\* and have a smallest one among them.
LEMMA Greatest ==
  ASSUME NEW n \in Nat, NEW T \in SUBSET (1..n), T # {}
  PROVE  \E x \in T : \A y \in T : y <= x
<1> DEFINE Tails == {x..n : x \in T}
<1>1. Tails \subseteq FiniteSubsetsOf(1..n) /\ Tails # {}
  <2>1. \A x \in T : IsFiniteSet(x..n) /\ (x..n) \subseteq 1..n
    BY FS_Interval
  <2>2. QED
    BY <2>1 DEF FiniteSubsetsOf
<1>2. PICK tail \in Tails : \A w \in Tails : ~ (<<w, tail>> \in StrictSubsetOrdering(1..n))
  BY <1>1, FS_StrictSubsetOrderingWellFounded, WFMin
<1>3. PICK x \in T : tail = x..n
  OBVIOUS
<1>4. ASSUME NEW y \in T, y > x PROVE FALSE
  <2>1. x \in tail /\ x \notin y..n
    BY <1>3, <1>4
  <2>2. (y..n) \subseteq tail /\ (y..n) # tail
    BY <1>3, <1>4, <2>1
  <2>3. y..n \in Tails
    OBVIOUS
  <2>4. y..n \in SUBSET (1..n) /\ tail \in SUBSET (1..n)
    BY <1>3
  <2>5. <<y..n, tail>> \in StrictSubsetOrdering(1..n)
    BY <2>2, <2>4 DEF StrictSubsetOrdering
  <2>6. QED
    BY <1>2, <2>3, <2>5
<1>5. QED
  BY <1>4

LEMMA NewestIs ==
  ASSUME Typed, NEW T \in SUBSET DOMAIN journal, T # {}
  PROVE  Newest(T) \in T /\ \A q \in T : q <= Newest(T)
<1>1. Len(journal) \in Nat /\ T \in SUBSET (1..Len(journal))
  BY RecordTypes
<1>2. \E x \in T : \A y \in T : y <= x
  BY <1>1, Greatest
<1>3. QED
  BY <1>2 DEF Newest

\* A run that stands above all the others is the newest.
LEMMA NewestIsThat ==
  ASSUME Typed, NEW s \in Runs, \A q \in Runs : q <= s
  PROVE  s = Newest(Runs)
<1>1. Runs \subseteq DOMAIN journal /\ Runs \subseteq Nat
  BY RecordTypes
<1>2. Newest(Runs) \in Runs /\ s <= Newest(Runs)
  BY <1>1, NewestIs
<1>3. QED
  BY <1>1, <1>2

-----------------------------------------------------------------------------
\* The stack of the runs that hold a view.

LEMMA StackStays ==
  ASSUME \A v \in Views : Stacked(v),
         \A v \in Views : Writers(v)' = Writers(v) /\ head'[v].body = head[v].body,
         \A s \in Runs : journal'[s] = journal[s]
  PROVE  \A v \in Views : Stacked(v)'
<1>1. \A v : Writers(v) \subseteq Runs
  BY DEF Writers
<1>2. QED
  BY <1>1 DEF Stacked

LEMMA StackGrows ==
  ASSUME Structure, \A v \in Views : Stacked(v), NEW p \in Sessions, Absorb(p)
  PROVE  \A v \in Views : Stacked(v)'
<1>1. PICK W \in SUBSET Views, N \in SUBSET Events :
        LET rec == CompileRecord(W, N, Len(journal) + 1)
        IN /\ rec \in Records /\ Commit(rec) /\ Fits(rec)
           /\ tree' = [v \in Views |-> IF v \in W THEN [tree[v] EXCEPT !.body = Len(journal) + 1]
                                                  ELSE tree[v]]
           /\ head' = [v \in Views |-> IF v \in W THEN tree'[v] ELSE head[v]]
  BY AbsorbCommits
<1> DEFINE n == Len(journal) + 1
           rec == CompileRecord(W, N, n)
<1>2. Typed /\ n \in Nat /\ Runs \subseteq DOMAIN journal /\ DOMAIN journal = 1..Len(journal)
  BY RecordTypes DEF Structure
<1>3. /\ rec.kind = "compile" /\ rec.before = [v \in W |-> head[v]] /\ DOMAIN rec.wrote = W
      /\ rec \in Records /\ Commit(rec)
  BY <1>1 DEF CompileRecord
<1>4. \A v \in W : head'[v].body = n
  <2>1. \A v \in Views : tree[v] \in Content
    BY <1>2 DEF Typed
  <2>2. QED
    BY <1>1, <1>2, <2>1 DEF Content
<1>5. \A v \in Views \ W : head'[v] = head[v]
  BY <1>1
<1> HIDE DEF n, rec
<1>6. /\ Runs' = Runs \cup {n} /\ n \notin DOMAIN journal
      /\ \A s \in DOMAIN journal : journal'[s] = journal[s] /\ s < n
      /\ journal'[n] = rec
  BY <1>2, <1>3, Appended DEF Runs, n
<1>7. Reverted' = Reverted
  BY <1>2, <1>3, ReadAfter
<1>8. n \notin Reverted
  BY <1>2, <1>6 DEF Structure, LaterFit, Later, Reverted
<1>9. \A v \in Views : Writers(v)' = Writers(v) \cup {m \in {n} : v \in W}
  BY <1>2, <1>3, <1>6, <1>7, <1>8 DEF Writers, Absorbed
<1>10. \A v \in Views : Writers(v) \subseteq DOMAIN journal
  BY <1>2 DEF Writers
<1>11. ASSUME NEW v \in Views \ W PROVE Stacked(v)'
  BY <1>5, <1>6, <1>9, <1>10, <1>11 DEF Stacked
<1>12. ASSUME NEW v \in W PROVE Stacked(v)'
  <2>1. head'[v].body = n /\ Writers(v)' = Writers(v) \cup {n}
    BY <1>4, <1>9
  <2>2. journal'[n].before[v].body = head[v].body
    BY <1>3, <1>6
  <2>3. Stacked(v)
    OBVIOUS
  <2>4. head[v].body < n /\ head[v].body \in Writers(v) \cup {0}
    BY <1>2, <1>6, <1>10, <2>3 DEF Stacked, n
  <2>5. ASSUME NEW s \in Writers(v)'
        PROVE  LET old == journal'[s].before[v].body
               IN /\ s <= n /\ old < s /\ old \in Writers(v)' \cup {0}
                  /\ \A t \in Writers(v)' : t < s => t <= old
    <3>1. CASE s = n
      BY <1>2, <1>6, <1>10, <2>1, <2>2, <2>3, <2>4, <3>1 DEF Stacked
    <3>2. CASE s \in Writers(v)
      <4>1. journal'[s] = journal[s] /\ s < n
        BY <1>6, <1>10, <3>2
      <4>2. LET old == journal[s].before[v].body
            IN old < s /\ old \in Writers(v) \cup {0} /\ \A t \in Writers(v) : t < s => t <= old
        BY <2>3, <3>2 DEF Stacked
      <4>3. ~(n < s) /\ s <= n
        BY <1>2, <1>10, <3>2, <4>1 
      <4>4. QED
        BY <2>1, <4>1, <4>2, <4>3
    <3>3. QED
      BY <2>1, <2>5, <3>1, <3>2
  <2>6. QED
    BY <2>1, <2>5 DEF Stacked
<1>13. QED
  BY <1>11, <1>12

\* What a revert that went through leaves of the journal.
LEMMA RevertedNow ==
  ASSUME Typed, NEW s \in Runs, Commit(RevertRecord(s, "reverted"))
  PROVE  /\ Reverted' = Reverted \cup {s} /\ Runs' = Runs
         /\ \A q \in DOMAIN journal : journal'[q] = journal[q]
         /\ \A q : Covering(q)' = Covering(q)
<1>1. s \in Nat
  BY RecordTypes
<1>2. PICK rec \in Records : /\ rec.kind = "revert" /\ rec.status = "reverted" /\ rec.over = s
                            /\ Commit(rec)
  BY <1>1, OtherRecordsAre DEF RevertRecord
<1>3. /\ \A kind : Seqs(kind)' = Seqs(kind) \cup {n \in {Len(journal) + 1} : rec.kind = kind}
      /\ \A q \in DOMAIN journal : journal'[q] = journal[q]
  BY <1>2, Appended
<1>4. Seqs("compile")' = Seqs("compile") \cup {n \in {Len(journal) + 1} : rec.kind = "compile"}
  BY <1>3
<1>5. Runs' = Runs
  BY <1>2, <1>4 DEF Runs
<1>6. /\ \A q : Covering(q)' = Covering(q) \cup
                {n \in {Len(journal) + 1} : rec.kind = "verify" /\ rec.over = q}
      /\ Reverted' = Reverted \cup
           {rec.over : n \in {m \in {Len(journal) + 1} : /\ rec.kind = "revert"
                                                         /\ rec.status = "reverted"}}
  BY <1>2, ReadAfter
<1>7. Reverted' = Reverted \cup {s} /\ \A q : Covering(q)' = Covering(q)
  BY <1>2, <1>6
<1>8. QED
  BY <1>3, <1>5, <1>7

LEMMA StackShrinks ==
  ASSUME Structure, \A v \in Views : Stacked(v), NEW s \in Runs \ Reverted, NEW content,
         Undone(s, content),
         \A v \in Absorbed(s) : /\ head[v].body = s
                                /\ content[v].body = journal[s].before[v].body
  PROVE  \A v \in Views : Stacked(v)'
<1>1. Typed /\ Runs \subseteq DOMAIN journal /\ DOMAIN journal = 1..Len(journal)
  BY RecordTypes DEF Structure
<1>2. /\ Commit(RevertRecord(s, "reverted"))
      /\ head' = [v \in Views |-> IF v \in Absorbed(s) THEN content[v] ELSE head[v]]
  BY DEF Undone
<1>3. /\ Reverted' = Reverted \cup {s} /\ Runs' = Runs
      /\ \A q \in DOMAIN journal : journal'[q] = journal[q]
  BY <1>1, <1>2, RevertedNow
<1>4. \A v : Writers(v)' = Writers(v) \ {s}
  BY <1>1, <1>3 DEF Writers, Absorbed
<1>5. \A v : Writers(v) \subseteq DOMAIN journal
  BY <1>1 DEF Writers
<1>6. ASSUME NEW v \in Views, v \notin Absorbed(s) PROVE Stacked(v)'
  <2>1. s \notin Writers(v) /\ head'[v] = head[v]
    BY <1>2, <1>6 DEF Writers
  <2>2. QED
    BY <1>3, <1>4, <1>5, <2>1 DEF Stacked
<1>7. ASSUME NEW v \in Views, v \in Absorbed(s) PROVE Stacked(v)'
  <2> DEFINE top == journal[s].before[v].body
  <2>1. s \in Writers(v) /\ head[v].body = s /\ head'[v].body = top
    BY <1>2, <1>7 DEF Writers
  <2>2. top < s /\ top \in Writers(v) \cup {0} /\ \A t \in Writers(v) : t < s => t <= top
    BY <2>1 DEF Stacked
  <2>3. top \in Writers(v)' \cup {0}
    BY <1>1, <1>4, <2>2
  <2>4. ASSUME NEW t \in Writers(v)'
        PROVE  LET old == journal'[t].before[v].body
               IN /\ t <= top /\ old < t /\ old \in Writers(v)' \cup {0}
                  /\ \A u \in Writers(v)' : u < t => u <= old
    <3>1. t \in Writers(v) /\ t # s /\ t \in DOMAIN journal /\ journal'[t] = journal[t]
      BY <1>3, <1>4, <1>5, <2>4
    <3>2. LET old == journal[t].before[v].body
          IN /\ t <= s /\ old < t /\ old \in Writers(v) \cup {0}
             /\ \A u \in Writers(v) : u < t => u <= old
      BY <2>1, <3>1 DEF Stacked
    <3>3. t < s
      BY <1>1, <3>1, <3>2
    <3>4. journal[t].before[v].body # s
      BY <1>1, <1>5, <3>1, <3>2, <3>3
    <3>5. QED
      BY <1>4, <2>2, <3>1, <3>2, <3>3, <3>4
  <2>5. QED
    BY <2>1, <2>3, <2>4 DEF Stacked
<1>8. QED
  BY <1>6, <1>7

\* The merge goes through only where the run has the last word.
LEMMA MergedIsOnTop ==
  ASSUME Structure, \A v \in Views : Stacked(v), NEW s \in Runs \ Reverted, MergeRevert(s)
  PROVE  /\ \A v \in Absorbed(s) : head[v].body = s
         /\ \E content : /\ Undone(s, content)
                         /\ \A v \in Absorbed(s) : content[v].body = journal[s].before[v].body
<1>1. Typed /\ Absorbed(s) \subseteq Views /\ s \in Nat
  BY RecordTypes DEF Structure
<1>2. \A v \in Absorbed(s) : journal[s].before[v] \in Content
  BY <1>1, RecordTypes, TextsAre DEF Structure, RunsFit
<1>3. ASSUME NEW v \in Absorbed(s) PROVE head[v].body = s
  <2>1. s \in Writers(v) /\ v \in Views
    BY <1>1 DEF Writers
  <2>2. s <= head[v].body /\ journal[s].before[v].body < s
    BY <2>1 DEF Stacked
  <2>3. head[v] # journal[s].before[v]
    BY <1>1, <1>2, <2>1, <2>2 DEF Typed, Content
  <2>4. QED
    BY <2>3 DEF MergeRevert, CannotMerge
<1> DEFINE content == [v \in Absorbed(s) |-> [journal[s].before[v] EXCEPT !.stamp = head[v].stamp]]
<1>4. Undone(s, content)
  BY DEF MergeRevert
<1>5. \A v \in Absorbed(s) : content[v].body = journal[s].before[v].body
  BY <1>2 DEF Content
<1> HIDE DEF content
<1>6. QED
  BY <1>3, <1>4, <1>5

-----------------------------------------------------------------------------
\* What an append of each kind leaves as it was.

\* A record that neither starts a run nor reverts one.
LEMMA SameRuns ==
  ASSUME Typed, NEW rec \in Records, Commit(rec),
         \/ rec.kind \in {"verify", "adjudication", "baseline-reset"}
         \/ rec.kind = "revert" /\ rec.status = "revert-failed"
  PROVE  /\ Runs' = Runs /\ Reverted' = Reverted
         /\ \A q \in DOMAIN journal : journal'[q] = journal[q]
         /\ \A v : Writers(v)' = Writers(v)
<1>1. /\ \A kind : Seqs(kind)' = Seqs(kind) \cup {n \in {Len(journal) + 1} : rec.kind = kind}
      /\ \A q \in DOMAIN journal : journal'[q] = journal[q]
  BY Appended
<1>2. Seqs("compile")' = Seqs("compile") \cup {n \in {Len(journal) + 1} : rec.kind = "compile"}
  BY <1>1
<1>3. Runs' = Runs
  BY <1>2 DEF Runs
<1>4. Reverted' = Reverted \cup
        {rec.over : n \in {m \in {Len(journal) + 1} : /\ rec.kind = "revert"
                                                      /\ rec.status = "reverted"}}
  BY ReadAfter
<1>5. Reverted' = Reverted
  BY <1>4
<1>6. \A s \in Runs : Absorbed(s)' = Absorbed(s)
  BY ReadAfter
<1>7. QED
  BY <1>1, <1>3, <1>5, <1>6 DEF Writers

\* A record that is not a verify record.
LEMMA SameVerifies ==
  ASSUME Typed, NEW rec \in Records, Commit(rec), rec.kind # "verify"
  PROVE  /\ Seqs("verify")' = Seqs("verify")
         /\ \A r \in Seqs("verify") : journal'[r] = journal[r]
         /\ \A s : Covering(s)' = Covering(s)
<1>1. /\ \A kind : Seqs(kind)' = Seqs(kind) \cup {n \in {Len(journal) + 1} : rec.kind = kind}
      /\ \A q \in DOMAIN journal : journal'[q] = journal[q]
  BY Appended
<1>2. Seqs("verify")' = Seqs("verify") \cup {n \in {Len(journal) + 1} : rec.kind = "verify"}
  BY <1>1
<1>3. Seqs("verify")' = Seqs("verify") /\ Seqs("verify") \subseteq DOMAIN journal
  BY <1>2 DEF Seqs
<1>4. \A s : Covering(s)' = Covering(s) \cup
               {n \in {Len(journal) + 1} : rec.kind = "verify" /\ rec.over = s}
  BY ReadAfter
<1>5. QED
  BY <1>1, <1>3, <1>4

\* A run becomes terminal by a verify record or a revert only.
LEMMA TerminalBy ==
  ASSUME Typed, NEW rec \in Records, Commit(rec), rec.kind # "verify", Reverted' = Reverted
  PROVE  \A s : Terminal(s)' <=> Terminal(s)
<1>1. \A s : Covering(s)' = Covering(s)
  BY SameVerifies
<1>2. \A s : Covering(s) \subseteq Seqs("verify")
  BY DEF Covering
<1>3. \A r \in Seqs("verify") : Incomplete(r)' = Incomplete(r)
  BY ReadAfter
<1>4. QED
  BY <1>1, <1>2, <1>3 DEF Terminal

\* While no run is reverted, an excuse stays.
LEMMA ExcuseStays ==
  ASSUME Typed, NEW rec \in Records, Commit(rec), Reverted' = Reverted
  PROVE  /\ \A v : Stamps(v) \subseteq Stamps(v)'
         /\ \A s, v : Excused(s, v) => Excused(s, v)'
<1>1. \A v : Approvals(v) \subseteq Approvals(v)' /\ Resets(v) \subseteq Resets(v)'
  BY ReadAfter
<1>2. \A v : Approvals(v) \subseteq DOMAIN journal /\ Resets(v) \subseteq DOMAIN journal
  BY DEF Approvals, Resets, Seqs
<1>3. \A q \in DOMAIN journal : journal'[q] = journal[q]
  BY Appended
<1>4. \A v : Stamps(v) \subseteq Stamps(v)' /\ Stamps(v) \subseteq DOMAIN journal
  BY <1>1, <1>2, <1>3 DEF Stamps
<1>5. \A s, v : Excused(s, v) => Excused(s, v)'
  BY <1>1, <1>3, <1>4 DEF Excused
<1>6. QED
  BY <1>4, <1>5

LEMMA ClosedStays ==
  ASSUME Typed, NEW rec \in Records, Commit(rec), OnlyNewestOpen, Runs' = Runs
  PROVE  OnlyNewestOpen'
  BY SaidStays DEF OnlyNewestOpen

LEMMA LastStays ==
  ASSUME Typed, NEW rec \in Records, Commit(rec), rec.kind # "verify", StampIsLast
  PROVE  StampIsLast'
<1>1. Seqs("verify")' = Seqs("verify") /\ \A r \in Seqs("verify") : journal'[r] = journal[r]
  BY SameVerifies
<1>2. QED
  BY <1>1 DEF StampIsLast

LEMMA RulingsStay ==
  ASSUME Typed, NEW rec \in Records, Commit(rec), RulingsFollow,
         rec.kind = "adjudication" => Judged(rec.over, rec.view)
  PROVE  RulingsFollow'
<1>1. /\ \A kind : Seqs(kind)' = Seqs(kind) \cup {n \in {Len(journal) + 1} : rec.kind = kind}
      /\ \A q \in DOMAIN journal : journal'[q] = journal[q]
      /\ journal'[Len(journal) + 1] = rec
  BY Appended
<1>2. Seqs("adjudication")' = Seqs("adjudication") \cup
        {n \in {Len(journal) + 1} : rec.kind = "adjudication"}
  BY <1>1
<1>3. \A s, v : Judged(s, v) => Judged(s, v)'
  BY SaidStays
<1>4. ASSUME NEW r \in Seqs("adjudication")' PROVE Judged(journal[r].over, journal[r].view)'
  <2>1. CASE r \in Seqs("adjudication")
    <3>1. journal'[r] = journal[r] /\ Judged(journal[r].over, journal[r].view)
      BY <1>1, <2>1 DEF RulingsFollow, Seqs
    <3>2. QED
      BY <1>3, <3>1 DEF Judged
  <2>2. CASE r \notin Seqs("adjudication")
    <3>1. journal'[r] = rec /\ rec.kind = "adjudication"
      BY <1>1, <1>2, <1>4, <2>2
    <3>2. QED
      BY <1>3, <3>1 DEF Judged
  <2>3. QED
    BY <2>1, <2>2
<1>5. QED
  BY <1>4 DEF RulingsFollow

-----------------------------------------------------------------------------
\* A run that counts as verified keeps its legs, or what excuses it from them.

LEMMA CoveredStays ==
  ASSUME Typed, NEW rec \in Records, Commit(rec), Covered, Runs' = Runs, Reverted' = Reverted,
         rec.kind # "verify"
  PROVE  Covered'
<1>1. \A s : Terminal(s)' <=> Terminal(s)
  BY TerminalBy
<1>2. \A s, v : (Judged(s, v) => Judged(s, v)') /\ (Excused(s, v) => Excused(s, v)')
  BY SaidStays, ExcuseStays
<1>3. \A s \in Runs : Absorbed(s)' = Absorbed(s) /\ NoOps(s)' = NoOps(s)
  BY ReadAfter
<1>4. QED
  BY <1>1, <1>2, <1>3 DEF Covered

\* A new run is open, so that nothing is said of it.
LEMMA CoveredGrows ==
  ASSUME Structure, Covered, NEW rec \in Records, Commit(rec), rec.kind = "compile",
         NEW n, n = Len(journal) + 1
  PROVE  /\ Covered' /\ n \notin Reverted' /\ ~Terminal(n)'
         /\ Runs' = Runs \cup {n} /\ Reverted' = Reverted
         /\ \A s : Terminal(s)' <=> Terminal(s)
<1>1. Typed /\ n \notin DOMAIN journal
  BY RecordTypes DEF Structure
<1>2. /\ \A kind : Seqs(kind)' = Seqs(kind) \cup {m \in {n} : rec.kind = kind}
  BY <1>1, Appended
<1>3. Seqs("compile")' = Seqs("compile") \cup {n}
  BY <1>2
<1>4. Runs' = Runs \cup {n}
  BY <1>3 DEF Runs
<1>5. Reverted' = Reverted
  BY <1>1, ReadAfter
<1>6. \A s : Terminal(s)' <=> Terminal(s)
  BY <1>1, <1>5, TerminalBy
<1>7. Runs \subseteq DOMAIN journal
  BY <1>1, RecordTypes
<1>8. n \notin Reverted /\ Covering(n) = {}
  BY <1>1, <1>7 DEF Structure, LaterFit, Later, Reverted, Covering
<1>9. ~Terminal(n)
  BY <1>8 DEF Terminal
<1>10. ~Terminal(n)' /\ n \notin Reverted'
  BY <1>5, <1>6, <1>8, <1>9
<1>11. \A s, v : (Judged(s, v) => Judged(s, v)') /\ (Excused(s, v) => Excused(s, v)')
  BY <1>1, <1>5, SaidStays, ExcuseStays
<1>12. \A s \in Runs : Absorbed(s)' = Absorbed(s) /\ NoOps(s)' = NoOps(s)
  BY <1>1, ReadAfter
<1>13. ASSUME NEW s \in Runs' \ Reverted', Terminal(s)'
       PROVE  /\ \A v \in Absorbed(s)' : Judged(s, v)' \/ Excused(s, v)'
              /\ \A e \in NoOps(s)' : Judged(s, e)'
  <2>1. s \in Runs \ Reverted /\ Terminal(s)
    BY <1>4, <1>5, <1>6, <1>9, <1>13
  <2>2. QED
    BY <1>11, <1>12, <2>1 DEF Covered
<1>14. Covered'
  BY <1>13 DEF Covered
<1>15. QED
  BY <1>4, <1>5, <1>6, <1>10, <1>14

\* A pass that asks for everything it has to ask for.
LEMMA CoveredByPass ==
  ASSUME Structure, Covered, OnlyNewestOpen, RulingsFollow,
         NEW s \in Runs \ Reverted, NEW legs \in LegSets, DOMAIN legs = Asked(s),
         Commit(VerifyRecord(s, legs))
  PROVE  Covered'
<1>0. PICK n : n = Len(journal) + 1
  OBVIOUS
<1>1. Typed /\ Runs \subseteq DOMAIN journal /\ DOMAIN journal \subseteq Nat
  BY RecordTypes DEF Structure
<1>2. PICK rec \in Records : /\ rec.kind = "verify" /\ rec.over = s /\ rec.legs = legs
                             /\ Commit(rec)
  BY <1>1, OtherRecordsAre DEF VerifyRecord
<1>3. Runs' = Runs /\ Reverted' = Reverted
  BY <1>1, <1>2, SameRuns
<1>4. \A s1, v : (Judged(s1, v) => Judged(s1, v)') /\ (Excused(s1, v) => Excused(s1, v)')
  BY <1>1, <1>2, <1>3, SaidStays, ExcuseStays
<1>5. \A t \in Runs : Absorbed(t)' = Absorbed(t) /\ NoOps(t)' = NoOps(t)
  BY <1>1, <1>2, ReadAfter
<1>6. \A t : Covering(t)' = Covering(t) \cup {m \in {n} : rec.kind = "verify" /\ rec.over = t}
  BY <1>0, <1>1, <1>2, ReadAfter
<1>7. journal'[n] = rec
  BY <1>0, <1>1, <1>2, Appended
<1>8. Covering(s)' = Covering(s) \cup {n} /\ \A t : t # s => Covering(t)' = Covering(t)
  BY <1>2, <1>6
<1>9. \A r \in Seqs("verify") : Incomplete(r)' = Incomplete(r)
  BY <1>1, <1>2, ReadAfter
<1>10. \A t : Covering(t) \subseteq Seqs("verify")
  BY DEF Covering
<1>11. ASSUME NEW t \in Runs \ Reverted, Terminal(t)
       PROVE  /\ \A v \in Absorbed(t)' : Judged(t, v)' \/ Excused(t, v)'
              /\ \A e \in NoOps(t)' : Judged(t, e)'
  BY <1>4, <1>5, <1>11 DEF Covered
<1>12. ASSUME NEW t \in Runs \ Reverted, Terminal(t)', ~Terminal(t)
       PROVE  /\ \A v \in Absorbed(t)' : Judged(t, v)' \/ Excused(t, v)'
              /\ \A e \in NoOps(t)' : Judged(t, e)'
  <2>1. t = s /\ ~Incomplete(n)'
    BY <1>3, <1>8, <1>9, <1>10, <1>12 DEF Terminal
  <2>2. \A v \in Asked(s) : Judged(s, v)'
    BY <1>2, <1>7, <1>8, <2>1 DEF Judged, Incomplete
  <2>3. \A q \in Runs : q <= s
    BY <1>12, <2>1 DEF OnlyNewestOpen
  <2>4. ASSUME NEW v \in Absorbed(s), v \notin Triggered(s) PROVE Judged(s, v) \/ Excused(s, v)
    <3>1. PICK r \in Stamps(v) : ~(r < s)
      BY <2>4 DEF Triggered
    <3>2. CASE r \in Resets(v)
      <4>1. r \in DOMAIN journal /\ r # s
        BY <3>2 DEF Resets, Runs, Seqs
      <4>2. r > s
        BY <1>1, <3>1, <4>1
      <4>3. QED
        BY <3>1, <3>2, <4>2 DEF Excused
    <3>3. CASE r \in Approvals(v)
      <4>1. r \in DOMAIN journal /\ r # s /\ journal[r].over \in Runs
        BY <3>3 DEF Approvals, Runs, Seqs, Structure, LaterFit, Later
      <4>2. r > s
        BY <1>1, <3>1, <4>1
      <4>3. CASE journal[r].over # s
        <5>1. journal[r].over < s
          BY <1>1, <2>3, <4>1, <4>3
        <5>2. QED
          BY <3>1, <4>2, <5>1 DEF Excused
      <4>4. CASE journal[r].over = s
        <5>1. CASE r \in Seqs("verify")
          <6>1. v \in DOMAIN journal[r].legs /\ journal[r].legs[v] = "stamped"
            BY <3>3, <5>1 DEF Approvals, Seqs
          <6>2. QED
            BY <4>4, <5>1, <6>1 DEF Judged, Covering
        <5>2. CASE r \notin Seqs("verify")
          <6>1. r \in Seqs("adjudication") /\ journal[r].view = v
            BY <3>3, <5>2 DEF Approvals
          <6>2. QED
            BY <4>4, <6>1 DEF RulingsFollow
        <5>3. QED
          BY <5>1, <5>2
      <4>5. QED
        BY <4>3, <4>4
    <3>4. QED
      BY <3>1, <3>2, <3>3 DEF Stamps
  <2>5. QED
    BY <1>4, <1>5, <2>1, <2>2, <2>4 DEF Asked
<1>13. QED
  BY <1>3, <1>11, <1>12 DEF Covered

\* A revert takes back no excuse: the run that gave it lies under the run it excuses.
LEMMA CoveredByRevert ==
  ASSUME Structure, Covered, \A v \in Views : Stacked(v), NEW s \in Runs \ Reverted,
         Commit(RevertRecord(s, "reverted")), \A v \in Absorbed(s) : head[v].body = s
  PROVE  Covered'
<1>1. /\ Typed /\ Runs \subseteq DOMAIN journal /\ DOMAIN journal \subseteq Nat
      /\ \A t \in Runs : Absorbed(t) \subseteq Views /\ NoOps(t) \subseteq Events
  BY RecordTypes DEF Structure
<1>2. PICK rec \in Records : rec.kind = "revert" /\ Commit(rec)
  BY <1>1, OtherRecordsAre DEF RevertRecord
<1>3. /\ Reverted' = Reverted \cup {s} /\ Runs' = Runs
      /\ \A q \in DOMAIN journal : journal'[q] = journal[q]
      /\ \A q : Covering(q)' = Covering(q)
  BY <1>1, RevertedNow
<1>4. \A t, v : Judged(t, v) => Judged(t, v)'
  BY <1>1, <1>2, SaidStays
<1>5. \A t \in Runs : Absorbed(t)' = Absorbed(t) /\ NoOps(t)' = NoOps(t)
  BY <1>1, <1>2, ReadAfter
<1>6. \A v : Approvals(v) \subseteq Approvals(v)' /\ Resets(v) \subseteq Resets(v)'
  BY <1>1, <1>2, ReadAfter
<1>7. \A v : Approvals(v) \subseteq DOMAIN journal /\ Resets(v) \subseteq DOMAIN journal
  BY DEF Approvals, Resets, Seqs
<1>8. ASSUME NEW t \in Runs' \ Reverted', Terminal(t)' PROVE t \in Runs \ Reverted /\ Terminal(t)
  <2>1. \A r \in Covering(t) : r \in Seqs("verify") /\ Incomplete(r)' = Incomplete(r)
    BY <1>1, <1>2, ReadAfter DEF Covering
  <2>2. QED
    BY <1>3, <1>8, <2>1 DEF Terminal
<1>9. ASSUME NEW t \in Runs' \ Reverted', NEW v \in Absorbed(t), Excused(t, v) PROVE Excused(t, v)'
  <2>1. t \in Runs \ Reverted /\ t # s /\ t \in Writers(v) /\ v \in Views
    BY <1>1, <1>3, <1>9 DEF Writers
  <2>2. PICK q \in Stamps(v) : q > t /\ (q \in Resets(v) \/ journal[q].over < t)
    BY <1>9 DEF Excused
  <2>3. CASE q \in Resets(v)
    BY <1>6, <2>2, <2>3 DEF Excused, Stamps
  <2>4. CASE q \notin Resets(v)
    <3>1. /\ q \in Approvals(v) /\ journal[q].over \notin Reverted /\ journal[q].over < t
          /\ q \in DOMAIN journal
      BY <1>7, <2>2, <2>4 DEF Stamps
    <3>2. v \in Found(journal[q].over) /\ journal[q].over \in Runs
      BY <3>1 DEF Approvals, Structure, LaterFit, Later
    <3>3. v \in Absorbed(journal[q].over)
      BY <1>1, <2>1, <3>2, CompileDriverAssumption DEF Found
    <3>4. journal[q].over # s
      <4>1. t <= head[v].body
        BY <2>1 DEF Stacked
      <4>2. QED
        BY <1>1, <2>1, <3>1, <3>3, <4>1
    <3>5. q \in Approvals(v)' /\ journal'[q].over = journal[q].over
      BY <1>3, <1>6, <3>1
    <3>6. QED
      BY <1>3, <2>2, <3>1, <3>4, <3>5 DEF Excused, Stamps
  <2>5. QED
    BY <2>3, <2>4
<1>10. QED
  BY <1>3, <1>4, <1>5, <1>8, <1>9 DEF Covered

-----------------------------------------------------------------------------
\* The journal stays sound, record by record.

LEMMA AbsorbKeeps ==
  ASSUME Alone, NEW p \in Sessions, Absorb(p)
  PROVE  JournalSound'
<1>1. Structure /\ Typed /\ JournalSound /\ NoneOpenAtAbsorb /\ pc[p] = "absorb"
  BY DEF Alone, SessionSound, Structure, Absorb
<1>2. PICK rec \in Records : rec.kind = "compile" /\ Commit(rec)
  BY <1>1, AbsorbCommits DEF CompileRecord
<1>3. PICK n \in Nat : n = Len(journal) + 1
  BY <1>1, RecordTypes
<1>4. Covered' /\ Runs' = Runs \cup {n} /\ \A s : Terminal(s)' <=> Terminal(s)
  BY <1>1, <1>2, <1>3, CoveredGrows DEF JournalSound
<1>5. \A s \in Runs : s <= n /\ Terminal(s)
  BY <1>1, <1>3, RecordTypes DEF NoneOpenAtAbsorb
<1>6. OnlyNewestOpen'
  BY <1>4, <1>5 DEF OnlyNewestOpen
<1>7. \A v \in Views : Stacked(v)'
  BY <1>1, StackGrows DEF JournalSound
<1>8. StampIsLast' /\ RulingsFollow'
  BY <1>1, <1>2, LastStays, RulingsStay DEF JournalSound
<1>9. QED
  BY <1>4, <1>6, <1>7, <1>8 DEF JournalSound

\* The stamp of a pass goes to a view that no standing verdict had stamped for the run.
LEMMA LastByPass ==
  ASSUME Structure, StampIsLast, NEW s \in Runs \ Reverted, NEW legs \in LegSets,
         DOMAIN legs = Asked(s), Commit(VerifyRecord(s, legs))
  PROVE  StampIsLast'
<1>1. /\ Typed /\ Runs \subseteq DOMAIN journal /\ DOMAIN journal \subseteq Nat
      /\ NoOps(s) \subseteq Events
  BY RecordTypes DEF Structure
<1>2. PICK rec \in Records : /\ rec.kind = "verify" /\ rec.over = s /\ rec.legs = legs
                             /\ Commit(rec)
  BY <1>1, OtherRecordsAre DEF VerifyRecord
<1>3. PICK n \in Nat : n = Len(journal) + 1
  BY <1>1, RecordTypes
<1>4. /\ \A kind : Seqs(kind)' = Seqs(kind) \cup {m \in {n} : rec.kind = kind}
      /\ \A q \in DOMAIN journal : journal'[q] = journal[q] /\ q < n
      /\ journal'[n] = rec
  BY <1>1, <1>2, <1>3, Appended
<1>5. Seqs("verify")' = Seqs("verify") \cup {m \in {n} : rec.kind = "verify"}
  BY <1>4
<1>6. Seqs("verify")' = Seqs("verify") \cup {n} /\ Seqs("verify") \subseteq DOMAIN journal
  BY <1>2, <1>5 DEF Seqs
<1>7. ASSUME NEW r \in Seqs("verify")', NEW q \in Seqs("verify")',
             NEW v \in Views \cap DOMAIN journal'[r].legs,
             journal'[q].over = journal'[r].over, q < r, v \in DOMAIN journal'[q].legs
      PROVE  journal'[q].legs[v] # "stamped"
  <2>1. q \in Seqs("verify") /\ journal'[q] = journal[q]
    BY <1>3, <1>4, <1>6, <1>7
  <2>2. CASE r \in Seqs("verify")
    BY <1>4, <1>6, <1>7, <2>1, <2>2 DEF StampIsLast
  <2>3. CASE r = n
    <3>1. v \in Asked(s) /\ journal[q].over = s /\ v \in DOMAIN journal[q].legs
      BY <1>2, <1>4, <1>7, <2>1, <2>3
    <3>2. v \in Triggered(s)
      BY <1>1, <1>7, <3>1, CompileDriverAssumption DEF Asked
    <3>3. journal[q].over < q
      BY <2>1 DEF Structure, LaterFit, Later
    <3>4. q \notin Stamps(v)
      BY <1>1, <1>6, <2>1, <3>1, <3>2, <3>3 DEF Triggered
    <3>5. q \notin Approvals(v)
      BY <3>1, <3>4 DEF Stamps
    <3>6. QED
      BY <2>1, <3>1, <3>5 DEF Approvals
  <2>4. QED
    BY <1>6, <2>2, <2>3
<1>8. QED
  BY <1>7 DEF StampIsLast

LEMMA PassKeeps ==
  ASSUME Alone, NEW p \in Sessions, VerifyCommit(p)
  PROVE  JournalSound'
<1>1. Structure /\ Typed /\ JournalSound /\ SessionSound
  BY DEF Alone, Structure
<1> DEFINE s == job[p].seq
           legs == job[p].legs
<1>2. s \in Runs \ Reverted
  BY <1>1 DEF Structure, JobFits, SessionSound, WorkStands, VerifyCommit, Working
<1>3. legs \in LegSets /\ s \in Nat
  BY <1>1 DEF Typed, Jobs
<1>4. DOMAIN legs = Asked(s)
  BY <1>1 DEF VerifyCommit, SessionSound, PassFits, InPass
<1>5. Commit(VerifyRecord(s, legs))
  BY DEF VerifyCommit
<1>6. \A v \in Views : head'[v].body = head[v].body
  BY <1>1 DEF VerifyCommit, SessionSound, BodiesCommitted
<1> HIDE DEF s, legs
<1>7. PICK rec \in Records : rec.kind = "verify" /\ Commit(rec)
  BY <1>3, <1>5, OtherRecordsAre DEF VerifyRecord
<1>8. /\ Runs' = Runs /\ \A v : Writers(v)' = Writers(v)
      /\ \A q \in DOMAIN journal : journal'[q] = journal[q]
  BY <1>1, <1>7, SameRuns
<1>9. \A v \in Views : Stacked(v)'
  <2>1. \A q \in Runs : journal'[q] = journal[q]
    BY <1>8 DEF Runs, Seqs
  <2>2. QED
    BY <1>1, <1>6, <1>8, <2>1, StackStays DEF JournalSound
<1>10. OnlyNewestOpen' /\ RulingsFollow'
  BY <1>1, <1>7, <1>8, ClosedStays, RulingsStay DEF JournalSound
<1>11. StampIsLast'
  BY <1>1, <1>2, <1>3, <1>4, <1>5, LastByPass DEF JournalSound
<1>12. Covered'
  BY <1>1, <1>2, <1>3, <1>4, <1>5, CoveredByPass DEF JournalSound
<1>13. QED
  BY <1>9, <1>10, <1>11, <1>12 DEF JournalSound

\* A record that leaves runs, commits and verdicts alone.
LEMMA QuietRecordKeeps ==
  ASSUME Structure, JournalSound, NEW rec \in Records, Commit(rec), UNCHANGED head,
         \/ rec.kind = "adjudication" /\ Judged(rec.over, rec.view)
         \/ rec.kind = "baseline-reset"
         \/ rec.kind = "revert" /\ rec.status = "revert-failed"
  PROVE  JournalSound'
<1>1. Typed
  BY DEF Structure
<1>2. /\ Runs' = Runs /\ Reverted' = Reverted /\ \A v : Writers(v)' = Writers(v)
      /\ \A q \in DOMAIN journal : journal'[q] = journal[q]
  BY <1>1, SameRuns
<1>3. \A q \in Runs : journal'[q] = journal[q]
  BY <1>2 DEF Runs, Seqs
<1>4. rec.kind # "verify" /\ (rec.kind = "adjudication" => Judged(rec.over, rec.view))
  OBVIOUS
<1>5. \A v \in Views : Stacked(v)'
  BY <1>2, <1>3, StackStays DEF JournalSound
<1>6. OnlyNewestOpen' /\ StampIsLast' /\ RulingsFollow'
  BY <1>1, <1>2, <1>4, ClosedStays, LastStays, RulingsStay DEF JournalSound
<1>7. Covered'
  BY <1>1, <1>2, <1>4, CoveredStays DEF JournalSound
<1>8. QED
  BY <1>5, <1>6, <1>7 DEF JournalSound

\* The newest record over a confirmed run says that it is confirmed: a leg of it on
\* a view is that view's stamp, for no leg comes after the stamp.
LEMMA ConfirmedIsFull ==
  ASSUME Structure, StampIsLast, NEW s \in Runs, Confirmed(s)
  PROVE  FullyConfirmed(s)
<1>1. Typed
  BY DEF Structure
<1>2. /\ Covering(s) # {} /\ Covering(s) \subseteq Seqs("verify")
      /\ Covering(s) \subseteq DOMAIN journal
  BY DEF Confirmed, Covering, Seqs
<1> DEFINE r == Newest(Covering(s))
<1>3. r \in Covering(s) /\ \A q \in Covering(s) : q <= r
  BY <1>1, <1>2, NewestIs
<1>4. DOMAIN journal[r].legs \subseteq Found(s) /\ journal[r].over = s
  BY <1>2, <1>3 DEF Covering, Structure, LaterFit
<1>5. Covering(s) \subseteq Nat
  BY <1>1, <1>2, RecordTypes
<1> HIDE DEF r
<1>6. ASSUME NEW v \in DOMAIN journal[r].legs, v \in Absorbed(s)
      PROVE  journal[r].legs[v] = "stamped"
  <2>1. PICK q \in Covering(s) : v \in DOMAIN journal[q].legs /\ journal[q].legs[v] = "stamped"
    BY <1>6 DEF Confirmed
  <2>2. v \in Views
    BY <1>1, <1>6, RecordTypes
  <2>3. journal[q].over = s
    BY <2>1 DEF Covering
  <2>4. ~(q < r)
    BY <1>2, <1>3, <1>4, <1>6, <2>1, <2>2, <2>3 DEF StampIsLast
  <2>5. q = r
    BY <1>3, <1>5, <2>4
  <2>6. QED
    BY <2>1, <2>5
<1>7. ASSUME NEW e \in DOMAIN journal[r].legs, e \in NoOps(s)
      PROVE  journal[r].legs[e] = "stamped"
  BY <1>3, <1>7 DEF Confirmed
<1>8. QED
  BY <1>2, <1>4, <1>6, <1>7 DEF FullyConfirmed, Found, r

\* What a session's revert is: a failure that changes nothing, or the run taken off
\* the top of every view that it absorbed.
LEMMA RevertIs ==
  ASSUME Alone, NEW p \in Sessions, AutoRevert(p) \/ Restore(p)
  PROVE  LET s == job[p].seq
         IN /\ s \in Runs \ Reverted /\ ~Confirmed(s)
            /\ \/ Commit(RevertRecord(s, "revert-failed")) /\ UNCHANGED <<head, tree>>
               \/ /\ \A v \in Absorbed(s) : head[v].body = s
                  /\ \E content :
                       /\ Undone(s, content)
                       /\ \A v \in Absorbed(s) : content[v].body = journal[s].before[v].body
<1>1. Structure /\ JournalSound /\ WorkStands /\ JobFits(p)
  BY DEF Alone, SessionSound, Structure
<1> DEFINE s == job[p].seq
<1>2. pc[p] = "undo" \/ pc[p] = "restore"
  BY DEF AutoRevert, Restore
<1>3. s \in Runs \ Reverted
  BY <1>1, <1>2 DEF JobFits, WorkStands, Working
<1>4. ~Confirmed(s)
  BY <1>1, <1>2, <1>3, ConfirmedIsFull DEF WorkStands, JournalSound
<1>5. pc[p] = "restore" => \A v \in Absorbed(s) : head[v].body = s
  BY <1>1 DEF WorkStands, MovedOn
<1>6. \/ MergeRevert(s) \/ ConflictedRevert(s)
      \/ pc[p] = "restore" /\ RestoreBytes(s)
  BY DEF AutoRevert, Restore
<1> HIDE DEF s
<1>7. CASE MergeRevert(s)
  BY <1>1, <1>3, <1>4, <1>7, MergedIsOnTop DEF JournalSound, s
<1>8. CASE ConflictedRevert(s)
  BY <1>3, <1>4, <1>8 DEF ConflictedRevert, s
<1>9. CASE pc[p] = "restore" /\ RestoreBytes(s)
  BY <1>3, <1>4, <1>5, <1>9 DEF RestoreBytes, s
<1>10. QED
  BY <1>6, <1>7, <1>8, <1>9

LEMMA RevertKeeps ==
  ASSUME Alone, NEW p \in Sessions, AutoRevert(p) \/ Restore(p)
  PROVE  JournalSound'
<1>1. Structure /\ Typed /\ JournalSound
  BY DEF Alone, Structure
<1>2. PICK s \in Runs \ Reverted :
        \/ Commit(RevertRecord(s, "revert-failed")) /\ UNCHANGED <<head, tree>>
        \/ /\ \A v \in Absorbed(s) : head[v].body = s
           /\ \E content : /\ Undone(s, content)
                           /\ \A v \in Absorbed(s) : content[v].body = journal[s].before[v].body
  BY RevertIs
<1>3. s \in Nat
  BY <1>1, RecordTypes
<1>4. CASE Commit(RevertRecord(s, "revert-failed")) /\ UNCHANGED <<head, tree>>
  <2>1. PICK rec \in Records : rec.kind = "revert" /\ rec.status = "revert-failed" /\ Commit(rec)
    BY <1>3, <1>4, OtherRecordsAre DEF RevertRecord
  <2>2. QED
    BY <1>1, <1>4, <2>1, QuietRecordKeeps
<1>5. ASSUME \A v \in Absorbed(s) : head[v].body = s,
             NEW content, Undone(s, content),
             \A v \in Absorbed(s) : content[v].body = journal[s].before[v].body
      PROVE  JournalSound'
  <2>1. Commit(RevertRecord(s, "reverted"))
    BY <1>5 DEF Undone
  <2>2. PICK rec \in Records : rec.kind = "revert" /\ Commit(rec)
    BY <1>3, <2>1, OtherRecordsAre DEF RevertRecord
  <2>3. \A v \in Views : Stacked(v)'
    BY <1>1, <1>5, StackShrinks DEF JournalSound
  <2>4. Covered'
    BY <1>1, <1>5, <2>1, CoveredByRevert DEF JournalSound
  <2>5. Runs' = Runs
    BY <1>1, <2>1, RevertedNow
  <2>6. OnlyNewestOpen' /\ StampIsLast' /\ RulingsFollow'
    BY <1>1, <2>2, <2>5, ClosedStays, LastStays, RulingsStay DEF JournalSound
  <2>7. QED
    BY <2>3, <2>4, <2>6 DEF JournalSound
<1>6. QED
  BY <1>2, <1>4, <1>5

LEMMA SetAsideKeeps ==
  ASSUME Alone, NEW p \in Sessions, NEW s \in Runs, NEW v \in Found(s), SetAside(p, s, v)
  PROVE  JournalSound'
<1>1. Structure /\ Typed /\ JournalSound
  BY DEF Alone, Structure
<1>2. Judged(s, v)
  <2>1. Covering(s) # {} /\ Covering(s) \subseteq DOMAIN journal
    BY DEF SetAside, Covering, Seqs
  <2> DEFINE r == Newest(Covering(s))
  <2>2. r \in Covering(s)
    BY <1>1, <2>1, NewestIs
  <2>3. ~Incomplete(r) /\ v \in DOMAIN journal[r].legs
    BY DEF SetAside
  <2> HIDE DEF r
  <2>4. QED
    BY <2>2, <2>3 DEF Judged, Incomplete
<1>3. PICK rec \in Records : /\ rec.kind = "adjudication" /\ rec.over = s /\ rec.view = v
                             /\ Commit(rec)
  BY <1>1, SetAsideCommits DEF Adjudication
<1>4. UNCHANGED head
  BY DEF SetAside
<1>5. QED
  BY <1>1, <1>2, <1>3, <1>4, QuietRecordKeeps

LEMMA ResetKeeps ==
  ASSUME Alone, NEW p \in Sessions, ResetBaseline(p)
  PROVE  JournalSound'
<1>1. Structure /\ JournalSound
  BY DEF Alone
<1>2. PICK rec \in Records : rec.kind = "baseline-reset" /\ Commit(rec)
  BY ResetCommits DEF BaselineReset
<1>3. UNCHANGED head
  BY DEF ResetBaseline
<1>4. QED
  BY <1>1, <1>2, <1>3, QuietRecordKeeps

\* A step that appends nothing and commits nothing.
LEMMA QuietKeeps ==
  ASSUME JournalSound, UNCHANGED <<journal, head>>
  PROVE  JournalSound'
<1>1. /\ UNCHANGED <<Runs, Reverted>> /\ \A v : UNCHANGED <<Approvals(v), Resets(v), Stamps(v)>>
      /\ \A kind : UNCHANGED Seqs(kind)
  BY DEF Runs, Reverted, Approvals, Resets, Stamps, Seqs
<1>2. \A s : UNCHANGED <<Covering(s), Terminal(s), Absorbed(s), NoOps(s)>>
  BY <1>1 DEF Covering, Terminal, Incomplete, Absorbed, NoOps
<1>3. \A s, v : (Judged(s, v)' <=> Judged(s, v)) /\ (Excused(s, v)' <=> Excused(s, v))
  BY <1>1, <1>2 DEF Judged, Excused
<1>4. \A v : UNCHANGED Writers(v)
  BY <1>1, <1>2 DEF Writers
<1>5. OnlyNewestOpen'
  BY <1>1, <1>2 DEF JournalSound, OnlyNewestOpen
<1>6. \A v \in Views : Stacked(v)'
  BY <1>4 DEF JournalSound, Stacked
<1>7. StampIsLast'
  BY <1>1 DEF JournalSound, StampIsLast
<1>8. RulingsFollow'
  <2>1. \A s, v : Judged(s, v) => Judged(s, v)'
    BY <1>3
  <2>2. QED
    BY <1>1, <1>2 DEF JournalSound, RulingsFollow, Judged
<1>9. Covered'
  BY <1>1, <1>2, <1>3 DEF JournalSound, Covered
<1>10. QED
  BY <1>5, <1>6, <1>7, <1>8, <1>9 DEF JournalSound

-----------------------------------------------------------------------------
\* The one session stays sound, step by step.

LEMMA SessionIdles ==
  ASSUME OneAtATime, Typed, NEW p \in Sessions, Goto(p, "idle", Idle),
         \A v \in Views : tree'[v].body = head'[v].body
  PROVE  SessionSound'
<1>1. \A q \in Sessions : pc'[q] = "idle"
  BY DEF OneAtATime, Typed, Goto
<1>2. NoneOpenAtAbsorb' /\ WorkStands' /\ PassFits'
  BY <1>1 DEF NoneOpenAtAbsorb, WorkStands, PassFits, Working, InPass
<1>3. BodiesCommitted'
  BY <1>1 DEF BodiesCommitted
<1>4. QED
  BY <1>2, <1>3 DEF SessionSound

\* A step inside a session that writes no record.
LEMMA SessionGoesOn ==
  ASSUME OneAtATime, Typed, UNCHANGED <<journal, head>>,
         NEW p \in Sessions, NEW to \in Places, NEW locals \in Jobs, Goto(p, to, locals),
         \A v \in Views : tree'[v].body = head[v].body,
         to = "absorb" => \A s \in Runs : Terminal(s),
         (to = "verdict" /\ locals.view \in Views) => locals.text.body = head[locals.view].body,
         to \in Working => locals.seq \notin Reverted,
         to = "undo" => ~Confirmed(locals.seq),
         to = "restore" => MovedOn(locals.seq) = {} /\ ~FullyConfirmed(locals.seq),
         to \in InPass => locals.todo \cup DOMAIN locals.legs = Asked(locals.seq),
         (to \in {"verify", "leg", "verdict"} /\ locals.verb = "run") => Covering(locals.seq) = {},
         to # "grade"
  PROVE  SessionSound'
<1>1. \A q \in Sessions : pc'[q] = to /\ job'[q] = locals
  BY Moved DEF OneAtATime
<1>2. UNCHANGED <<Runs, Reverted>> /\ \A v : UNCHANGED <<Approvals(v), Resets(v), Stamps(v)>>
  BY DEF Runs, Reverted, Approvals, Resets, Stamps, Seqs
<1>3. /\ \A s : UNCHANGED <<Covering(s), Terminal(s), Absorbed(s), NoOps(s), MovedOn(s)>>
      /\ \A s : (Confirmed(s)' <=> Confirmed(s)) /\ (FullyConfirmed(s)' <=> FullyConfirmed(s))
  BY DEF Covering, Terminal, Incomplete, Absorbed, NoOps, MovedOn, Confirmed, FullyConfirmed,
         Reverted, Seqs
<1>4. \A s : UNCHANGED Asked(s)
  BY <1>2, <1>3 DEF Asked, Triggered
<1>5. NoneOpenAtAbsorb'
  BY <1>1, <1>2, <1>3 DEF NoneOpenAtAbsorb
<1>6. BodiesCommitted'
  BY <1>1 DEF BodiesCommitted
<1>7. WorkStands'
  BY <1>1, <1>2, <1>3 DEF WorkStands
<1>8. PassFits'
  BY <1>1, <1>3, <1>4 DEF PassFits
<1>9. QED
  BY <1>5, <1>6, <1>7, <1>8 DEF SessionSound

LEMMA PassStaysSound ==
  ASSUME OneAtATime, Alone, NEW p \in Sessions
  PROVE  /\ VerifyStart(p) => SessionSound'
         /\ VerifyRaises(p) => SessionSound'
         /\ AskNoOp(p) => SessionSound'
         /\ SendPacket(p) => SessionSound'
         /\ NoOpAnswer(p) => SessionSound'
         /\ Answer(p) => SessionSound'
<1>1. /\ Structure /\ Typed /\ JobFits(p) /\ SessionSound
      /\ NoneOpenAtAbsorb /\ BodiesCommitted /\ WorkStands /\ PassFits
  BY DEF Alone, Structure, SessionSound
<1>2. /\ job[p] \in Jobs /\ head \in [Views -> Content] /\ tree \in [Views -> Content]
  BY <1>1 DEF Typed
<1>3. /\ Places = {"idle", "absorb", "verify", "leg", "verdict", "grade", "undo", "restore"}
      /\ InPass = {"leg", "verdict"}
      /\ Working = {"verify", "leg", "verdict", "grade", "undo", "restore"}
  BY DEF Places, InPass, Working
<1>4. /\ job[p].seq \in Nat /\ job[p].todo \subseteq Subjects /\ job[p].legs \in LegSets
      /\ job[p].view \in Subjects \cup {NoView} /\ job[p].text \in Content
  BY <1>2 DEF Jobs
<1>5. \A v \in Views : tree[v].body = head[v].body
  BY <1>1 DEF BodiesCommitted
<1>6. ASSUME pc[p] \in {"verify", "leg", "verdict"}
      PROVE  /\ job[p].seq \in Runs \ Reverted
             /\ job[p].verb = "run" => Covering(job[p].seq) = {}
  BY <1>1, <1>3, <1>6 DEF WorkStands, PassFits, JobFits
<1>7. ASSUME pc[p] \in InPass
      PROVE  job[p].todo \cup DOMAIN job[p].legs = Asked(job[p].seq)
  BY <1>1, <1>7 DEF PassFits
<1>8. ASSUME VerifyStart(p) PROVE SessionSound'
  <2> DEFINE locals == [job[p] EXCEPT !.todo = Asked(job[p].seq)]
  <2>1. DOMAIN job[p].legs = {} /\ pc[p] = "verify"
    BY <1>1, <1>8 DEF VerifyStart, JobFits
  <2>2. Asked(job[p].seq) \subseteq Subjects
    BY <1>1, <1>6, <2>1, RecordTypes DEF Asked, Triggered, Subjects
  <2>3. /\ locals \in Jobs /\ locals.todo = Asked(job[p].seq) /\ locals.legs = job[p].legs
        /\ locals.seq = job[p].seq /\ locals.verb = job[p].verb
    BY <1>2, <2>2 DEF Jobs
  <2>4. Goto(p, "leg", locals) /\ UNCHANGED <<journal, head, tree>>
    BY <1>8 DEF VerifyStart
  <2> HIDE DEF locals
  <2>5. QED
    BY <1>1, <1>3, <1>5, <1>6, <2>1, <2>3, <2>4, SessionGoesOn
<1>9. ASSUME VerifyRaises(p) PROVE SessionSound'
  <2> DEFINE locals == [Idle EXCEPT !.verb = "run", !.seq = job[p].seq]
  <2>1. pc[p] \in {"verify", "leg", "verdict"} /\ UNCHANGED <<journal, head, tree>>
    BY <1>9 DEF VerifyRaises
  <2>2. locals \in Jobs /\ locals.seq = job[p].seq
    BY <1>4, IdleIsAJob DEF Jobs, AllVerbs, Idle
  <2>3. \/ job[p].verb = "run" /\ Goto(p, "undo", locals)
        \/ Goto(p, "idle", Idle)
    BY <1>9 DEF VerifyRaises
  <2> HIDE DEF locals
  <2>4. CASE job[p].verb = "run" /\ Goto(p, "undo", locals)
    <3>1. ~Confirmed(job[p].seq)
      BY <1>6, <2>1, <2>4 DEF Confirmed
    <3>2. QED
      BY <1>1, <1>3, <1>5, <1>6, <2>1, <2>2, <2>4, <3>1, SessionGoesOn
  <2>5. CASE Goto(p, "idle", Idle)
    BY <1>1, <1>5, <2>1, <2>5, SessionIdles
  <2>6. QED
    BY <2>3, <2>4, <2>5
<1>10. ASSUME AskNoOp(p) PROVE SessionSound'
  <2>1. PICK e \in job[p].todo \cap Events : Goto(p, "verdict", [job[p] EXCEPT !.view = e])
    BY <1>10 DEF AskNoOp
  <2> DEFINE locals == [job[p] EXCEPT !.view = e]
  <2>2. pc[p] = "leg" /\ UNCHANGED <<journal, head, tree>>
    BY <1>10 DEF AskNoOp
  <2>3. /\ locals \in Jobs /\ locals.todo = job[p].todo /\ locals.legs = job[p].legs
        /\ locals.seq = job[p].seq /\ locals.view = e /\ locals.verb = job[p].verb
    BY <1>2, <1>4 DEF Jobs
  <2>4. Goto(p, "verdict", locals) /\ locals.view \notin Views
    BY <2>1, <2>3, CompileDriverAssumption
  <2> HIDE DEF locals
  <2>5. QED
    BY <1>1, <1>3, <1>5, <1>6, <1>7, <2>2, <2>3, <2>4, SessionGoesOn
<1>11. ASSUME SendPacket(p) PROVE SessionSound'
  <2>1. PICK v \in job[p].todo : Goto(p, "verdict", [job[p] EXCEPT !.view = v, !.text = tree[v]])
    BY <1>11 DEF SendPacket
  <2> DEFINE locals == [job[p] EXCEPT !.view = v, !.text = tree[v]]
  <2>2. pc[p] = "leg" /\ UNCHANGED <<journal, head, tree>>
    BY <1>11 DEF SendPacket
  <2>3. v \in Views
    BY <1>4, <1>11, <2>1 DEF SendPacket, Subjects
  <2>4. /\ locals \in Jobs /\ locals.todo = job[p].todo /\ locals.legs = job[p].legs
        /\ locals.seq = job[p].seq /\ locals.view = v /\ locals.verb = job[p].verb
        /\ locals.text = tree[v]
    BY <1>2, <1>4, <2>3 DEF Jobs
  <2>5. Goto(p, "verdict", locals)
    BY <2>1
  <2> HIDE DEF locals
  <2>6. QED
    BY <1>1, <1>3, <1>5, <1>6, <1>7, <2>2, <2>3, <2>4, <2>5, SessionGoesOn
<1>12. ASSUME NEW verdict \in Verdicts, pc[p] = "verdict", job[p].view \in Subjects,
              Goto(p, "leg", LegDone(job[p], verdict)), UNCHANGED <<journal, head>>,
              \A v \in Views : tree'[v].body = head[v].body
       PROVE  SessionSound'
  <2> DEFINE locals == LegDone(job[p], verdict)
  <2>1. /\ locals \in Jobs /\ locals.todo = job[p].todo \ {job[p].view}
        /\ DOMAIN locals.legs = DOMAIN job[p].legs \cup {job[p].view}
        /\ locals.seq = job[p].seq /\ locals.verb = job[p].verb
    BY <1>2, <1>12, LegDoneIs
  <2>2. job[p].view \in job[p].todo
    BY <1>1, <1>12 DEF JobFits
  <2>3. Goto(p, "leg", locals)
    BY <1>12
  <2> HIDE DEF locals
  <2>4. locals.todo \cup DOMAIN locals.legs = Asked(locals.seq)
    BY <1>3, <1>7, <1>12, <2>1, <2>2
  <2>5. QED
    BY <1>1, <1>3, <1>6, <1>12, <2>1, <2>3, <2>4, SessionGoesOn
<1>13. ASSUME NoOpAnswer(p) PROVE SessionSound'
  BY <1>5, <1>12, <1>13 DEF NoOpAnswer, Subjects
<1>14. ASSUME Answer(p) PROVE SessionSound'
  <2>1. PICK verdict \in Verdicts :
          /\ tree' = IF verdict = "stamped"
                        THEN [tree EXCEPT ![job[p].view] =
                                [job[p].text EXCEPT !.stamp = job[p].seq]]
                        ELSE tree
          /\ Goto(p, "leg", LegDone(job[p], verdict))
    BY <1>14 DEF Answer
  <2>2. [job[p].text EXCEPT !.stamp = job[p].seq].body = job[p].text.body
    BY <1>4 DEF Content
  <2>3. job[p].text.body = tree[job[p].view].body
    BY <1>1, <1>14 DEF BodiesCommitted, Answer
  <2>4. \A v \in Views : tree'[v].body = head[v].body
    BY <1>2, <1>5, <2>1, <2>2, <2>3
  <2>5. QED
    BY <1>12, <1>14, <2>1, <2>4 DEF Answer, Subjects
<1>15. QED
  BY <1>8, <1>9, <1>10, <1>11, <1>13, <1>14

LEMMA RunStaysSound ==
  ASSUME OneAtATime, Alone, NEW p \in Sessions
  PROVE  /\ Reconcile(p) => SessionSound'
         /\ Absorb(p) => SessionSound'
         /\ AbsorbRefused(p) => SessionSound'
         /\ VerifyCommit(p) => SessionSound'
         /\ Grade(p) => SessionSound'
         /\ AutoRevert(p) => SessionSound'
         /\ Restore(p) => SessionSound'
         /\ Crash(p) => SessionSound'
<1>1. /\ Structure /\ Typed /\ JobFits(p) /\ JournalSound /\ OnlyNewestOpen
      /\ NoneOpenAtAbsorb /\ BodiesCommitted /\ WorkStands /\ PassFits
  BY DEF Alone, Structure, SessionSound, JournalSound
<1>2. /\ job[p] \in Jobs /\ head \in [Views -> Content] /\ tree \in [Views -> Content]
  BY <1>1 DEF Typed
<1>3. /\ Places = {"idle", "absorb", "verify", "leg", "verdict", "grade", "undo", "restore"}
      /\ InPass = {"leg", "verdict"}
      /\ Working = {"verify", "leg", "verdict", "grade", "undo", "restore"}
  BY DEF Places, InPass, Working
<1>4. job[p].seq \in Nat /\ job[p].legs \in LegSets
  BY <1>2 DEF Jobs
<1>5. \A v \in Views : tree[v].body = head[v].body
  BY <1>1 DEF BodiesCommitted
<1>6. ASSUME Reconcile(p) PROVE SessionSound'
  <2> DEFINE locals == [Idle EXCEPT !.verb = "run"]
  <2>1. locals \in Jobs
    BY IdleIsAJob DEF Jobs, AllVerbs, Idle
  <2>2. Goto(p, "absorb", locals) /\ UNCHANGED <<journal, head, tree>> /\ ~Blocked
    BY <1>6 DEF Reconcile
  <2> HIDE DEF locals
  <2>3. ASSUME NEW s \in Runs, ~Terminal(s) PROVE FALSE
    <3>1. s = Newest(Runs)
      BY <1>1, <2>3, NewestIsThat DEF OnlyNewestOpen
    <3>2. QED
      BY <2>2, <2>3, <3>1 DEF Blocked
  <2>4. QED
    BY <1>1, <1>3, <1>5, <2>1, <2>2, <2>3, SessionGoesOn
<1>7. ASSUME Absorb(p) PROVE SessionSound'
  <2>1. PICK n \in Nat : n = Len(journal) + 1
    BY <1>1, RecordTypes
  <2>2. PICK W \in SUBSET Views, N \in SUBSET Events :
          LET rec == CompileRecord(W, N, Len(journal) + 1)
          IN /\ rec \in Records /\ Commit(rec) /\ Fits(rec)
             /\ tree' = [v \in Views |-> IF v \in W THEN [tree[v] EXCEPT !.body = Len(journal) + 1]
                                                    ELSE tree[v]]
             /\ head' = [v \in Views |-> IF v \in W THEN tree'[v] ELSE head[v]]
    BY <1>1, <1>7, AbsorbCommits
  <2>3. PICK rec \in Records : rec.kind = "compile" /\ Commit(rec)
    BY <2>2 DEF CompileRecord
  <2>4. \A v \in Views : tree'[v].body = head'[v].body
    BY <1>5, <2>2
  <2> DEFINE locals == [job[p] EXCEPT !.seq = Len(journal) + 1]
  <2>5. locals \in Jobs /\ locals.seq = n
    BY <1>2, <2>1 DEF Jobs
  <2>6. Goto(p, "verify", locals)
    BY <1>7 DEF Absorb
  <2> HIDE DEF locals
  <2>7. \A q \in Sessions : pc'[q] = "verify" /\ job'[q] = locals
    BY <1>1, <1>3, <2>5, <2>6, Moved DEF OneAtATime
  <2>8. n \notin Reverted'
    BY <1>1, <2>1, <2>3, CoveredGrows DEF JournalSound
  <2>9. Covering(n)' = {}
    <3>1. Covering(n)' = Covering(n)
      BY <1>1, <2>3, SameVerifies
    <3>2. \A r \in Covering(n) : r \in DOMAIN journal /\ n < r
      BY <1>1 DEF Covering, Seqs, Structure, LaterFit, Later
    <3>3. \A r \in DOMAIN journal : r < n
      BY <1>1, <2>1, RecordTypes
    <3>4. QED
      BY <1>1, <2>1, <3>1, <3>2, <3>3, RecordTypes
  <2>10. NoneOpenAtAbsorb' /\ BodiesCommitted'
    BY <2>4, <2>7 DEF NoneOpenAtAbsorb, BodiesCommitted
  <2>11. WorkStands' /\ PassFits'
    BY <1>3, <2>5, <2>7, <2>8, <2>9 DEF WorkStands, PassFits
  <2>12. QED
    BY <2>10, <2>11 DEF SessionSound
<1>8. ASSUME AbsorbRefused(p) \/ Crash(p) PROVE SessionSound'
  BY <1>1, <1>5, <1>8, SessionIdles DEF AbsorbRefused, Crash
<1>9. ASSUME VerifyCommit(p) PROVE SessionSound'
  <2>1. /\ pc[p] = "leg" /\ UNCHANGED tree
        /\ \/ job[p].verb = "run" /\ Goto(p, "grade", job[p])
           \/ Goto(p, "idle", Idle)
        /\ Commit(VerifyRecord(job[p].seq, job[p].legs))
    BY <1>9 DEF VerifyCommit
  <2>2. \A v \in Views : tree'[v].body = head'[v].body
    BY <1>5, <1>9 DEF VerifyCommit
  <2>3. CASE Goto(p, "idle", Idle)
    BY <1>1, <2>2, <2>3, SessionIdles
  <2>4. CASE job[p].verb = "run" /\ Goto(p, "grade", job[p])
    <3>1. PICK s, legs : s = job[p].seq /\ legs = job[p].legs
      OBVIOUS
    <3>2. s \in Runs \ Reverted /\ Covering(s) = {}
      BY <1>1, <1>3, <2>1, <2>4, <3>1 DEF WorkStands, PassFits, JobFits
    <3>3. PICK rec \in Records : /\ rec.kind = "verify" /\ rec.over = s /\ rec.legs = legs
                                 /\ Commit(rec)
      BY <1>4, <2>1, <3>1, OtherRecordsAre DEF VerifyRecord
    <3>4. PICK n : n = Len(journal) + 1
      OBVIOUS
    <3>5. \A t : Covering(t)' = Covering(t) \cup {m \in {n} : rec.kind = "verify" /\ rec.over = t}
      BY <1>1, <3>3, <3>4, ReadAfter
    <3>6. journal'[n] = rec
      BY <1>1, <3>3, <3>4, Appended
    <3>7. Reverted' = Reverted
      BY <1>1, <3>3, SameRuns
    <3>8. \A r \in Covering(s)' : journal'[r].legs = legs
      BY <3>2, <3>3, <3>5, <3>6
    <3>9. \A q \in Sessions : pc'[q] = "grade" /\ job'[q].seq = s /\ job'[q].legs = legs
      BY <1>1, <1>2, <1>3, <2>4, <3>1, Moved DEF OneAtATime
    <3>10. NoneOpenAtAbsorb' /\ BodiesCommitted'
      BY <2>2, <3>9 DEF NoneOpenAtAbsorb, BodiesCommitted
    <3>11. WorkStands' /\ PassFits'
      BY <1>3, <3>2, <3>7, <3>8, <3>9 DEF WorkStands, PassFits
    <3>12. QED
      BY <3>10, <3>11 DEF SessionSound
  <2>5. QED
    BY <2>1, <2>3, <2>4
<1>10. ASSUME Grade(p) PROVE SessionSound'
  <2> DEFINE s == job[p].seq
             locals == [Idle EXCEPT !.verb = "run", !.seq = s]
  <2>1. pc[p] = "grade" /\ UNCHANGED <<journal, head, tree>>
    BY <1>10 DEF Grade
  <2>2. locals \in Jobs /\ locals.seq = s
    BY <1>4, IdleIsAJob DEF Jobs, AllVerbs, Idle
  <2>3. s \in Runs \ Reverted /\ \A r \in Covering(s) : journal[r].legs = job[p].legs
    BY <1>1, <1>3, <2>1 DEF WorkStands, PassFits, JobFits
  <2>4. \/ Goto(p, "idle", Idle)
        \/ /\ Goto(p, "undo", locals)
           /\ \/ ~(Absorbed(s) \subseteq DOMAIN job[p].legs)
              \/ \E v \in DOMAIN job[p].legs : job[p].legs[v] = "incomplete"
    BY <1>10 DEF Grade
  <2> HIDE DEF s, locals
  <2>5. CASE Goto(p, "idle", Idle)
    BY <1>1, <1>5, <2>1, <2>5, SessionIdles
  <2>6. CASE /\ Goto(p, "undo", locals)
             /\ \/ ~(Absorbed(s) \subseteq DOMAIN job[p].legs)
                \/ \E v \in DOMAIN job[p].legs : job[p].legs[v] = "incomplete"
    <3>1. ASSUME Confirmed(s) PROVE FALSE
      <4>1. PICK r : r \in Covering(s)
        BY <3>1 DEF Confirmed
      <4>2. DOMAIN job[p].legs \subseteq Found(s)
        BY <1>1, <2>3, <4>1 DEF Covering, Structure, LaterFit
      <4>3. \A v \in Absorbed(s) : v \in DOMAIN job[p].legs /\ job[p].legs[v] = "stamped"
        BY <2>3, <3>1 DEF Confirmed
      <4>4. \A e \in NoOps(s) : job[p].legs[e] = "stamped"
        BY <2>3, <3>1, <4>1 DEF Confirmed
      <4>5. QED
        BY <2>6, <4>2, <4>3, <4>4 DEF Found
    <3>2. QED
      BY <1>1, <1>3, <1>5, <2>1, <2>2, <2>3, <2>6, <3>1, SessionGoesOn
  <2>7. QED
    BY <2>4, <2>5, <2>6
<1>11. ASSUME AutoRevert(p) \/ Restore(p) PROVE SessionSound'
  <2>1. Goto(p, "idle", Idle)
    BY <1>11 DEF AutoRevert, Restore
  <2>2. \/ UNCHANGED <<head, tree>>
        \/ \E content : Undone(job[p].seq, content)
    BY <1>11, RevertIs
  <2>3. \A v \in Views : tree'[v].body = head'[v].body
    BY <1>5, <2>2 DEF Undone
  <2>4. QED
    BY <1>1, <2>1, <2>3, SessionIdles
<1>12. QED
  BY <1>6, <1>7, <1>8, <1>9, <1>10, <1>11

LEMMA OperatorStaysSound ==
  ASSUME OneAtATime, Alone, NEW p \in Sessions
  PROVE  /\ \A s \in Runs : Reverify(p, s) => SessionSound'
         /\ \A s \in Runs : Revert(p, s) => SessionSound'
         /\ \A s \in Runs : \A v \in Found(s) : SetAside(p, s, v) => SessionSound'
         /\ ResetBaseline(p) => SessionSound'
<1>1. /\ Structure /\ Typed /\ JournalSound /\ BodiesCommitted /\ PassFits
      /\ \A v \in Views : tree[v].body = head[v].body
  BY DEF Alone, Structure, SessionSound, BodiesCommitted
<1>2. Places = {"idle", "absorb", "verify", "leg", "verdict", "grade", "undo", "restore"}
      /\ InPass = {"leg", "verdict"}
      /\ Working = {"verify", "leg", "verdict", "grade", "undo", "restore"}
  BY DEF Places, InPass, Working
<1>3. Runs \subseteq Nat
  BY <1>1, RecordTypes
<1>4. ASSUME NEW s \in Runs, Reverify(p, s) PROVE SessionSound'
  <2> DEFINE locals == [Idle EXCEPT !.verb = "reverify", !.seq = s]
  <2>1. locals \in Jobs /\ locals.seq = s /\ locals.verb = "reverify"
    BY <1>3, IdleIsAJob DEF Jobs, AllVerbs, Idle
  <2>2. Goto(p, "verify", locals) /\ UNCHANGED <<journal, head, tree>> /\ s \notin Reverted
    BY <1>4 DEF Reverify
  <2> HIDE DEF locals
  <2>3. QED
    BY <1>1, <1>2, <2>1, <2>2, SessionGoesOn
<1>5. ASSUME NEW s \in Runs, Revert(p, s) PROVE SessionSound'
  <2> DEFINE stamps == StampedSince(s) # {}
             locals == [Idle EXCEPT !.verb = "revert", !.seq = s, !.stamps = stamps]
  <2>1. stamps \in BOOLEAN
    OBVIOUS
  <2> HIDE DEF stamps
  <2>2. locals \in Jobs /\ locals.seq = s
    BY <1>3, <2>1, IdleIsAJob DEF Jobs, AllVerbs, Idle
  <2>3. /\ Goto(p, "restore", locals) /\ UNCHANGED <<journal, head, tree>>
        /\ s \notin Reverted /\ MovedOn(s) = {} /\ ~FullyConfirmed(s)
    BY <1>5 DEF Revert, stamps
  <2> HIDE DEF locals
  <2>4. QED
    BY <1>1, <1>2, <2>2, <2>3, SessionGoesOn
<1>6. ASSUME pc[p] = "idle", UNCHANGED <<head, tree, pc, job>> PROVE SessionSound'
  <2>1. \A q \in Sessions : pc'[q] = "idle"
    BY <1>6 DEF OneAtATime
  <2>2. NoneOpenAtAbsorb' /\ WorkStands' /\ PassFits'
    BY <1>2, <2>1 DEF NoneOpenAtAbsorb, WorkStands, PassFits
  <2>3. BodiesCommitted'
    BY <1>1, <1>6, <2>1 DEF BodiesCommitted
  <2>4. QED
    BY <2>2, <2>3 DEF SessionSound
<1>7. \A s \in Runs : \A v \in Found(s) : SetAside(p, s, v) => SessionSound'
  BY <1>6 DEF SetAside, Start
<1>8. ResetBaseline(p) => SessionSound'
  BY <1>6 DEF ResetBaseline, Start
<1>9. QED
  BY <1>4, <1>5, <1>7, <1>8

LEMMA OthersStaySound ==
  ASSUME Alone, BreakStaleLock \/ DiscardChanges \/ UNCHANGED vars
  PROVE  SessionSound'
<1>1. UNCHANGED <<journal, head, pc, job>>
  BY DEF BreakStaleLock, DiscardChanges, vars
<1>2. UNCHANGED tree \/ (tree' = head /\ \A p \in Sessions : pc[p] = "idle")
  BY DEF BreakStaleLock, DiscardChanges, vars
<1>3. BodiesCommitted'
  BY <1>1, <1>2 DEF Alone, SessionSound, BodiesCommitted
<1>4. UNCHANGED <<Runs, Reverted>> /\ \A v : UNCHANGED <<Approvals(v), Resets(v), Stamps(v)>>
  BY <1>1 DEF Runs, Reverted, Approvals, Resets, Stamps, Seqs
<1>5. /\ \A s : UNCHANGED <<Covering(s), Terminal(s), Absorbed(s), NoOps(s), MovedOn(s)>>
      /\ \A s : (Confirmed(s)' <=> Confirmed(s)) /\ (FullyConfirmed(s)' <=> FullyConfirmed(s))
  BY <1>1 DEF Covering, Terminal, Incomplete, Absorbed, NoOps, MovedOn, Confirmed,
              FullyConfirmed, Reverted, Seqs
<1>6. \A s : UNCHANGED Asked(s)
  BY <1>4, <1>5 DEF Asked, Triggered
<1>7. NoneOpenAtAbsorb' /\ WorkStands'
  BY <1>1, <1>4, <1>5 DEF Alone, SessionSound, NoneOpenAtAbsorb, WorkStands
<1>8. PassFits'
  BY <1>1, <1>5, <1>6 DEF Alone, SessionSound, PassFits
<1>9. QED
  BY <1>3, <1>7, <1>8 DEF SessionSound

LEMMA AloneStep ==
  ASSUME OneAtATime, Alone, [Next]_vars
  PROVE  Alone'
<1>1. Structure'
  BY StructureStep DEF Alone
<1>2. UNCHANGED <<journal, head>> => JournalSound'
  BY QuietKeeps DEF Alone
<1>3. ASSUME NEW p \in Sessions, Reconcile(p) \/ Crash(p) PROVE JournalSound' /\ SessionSound'
  BY <1>2, <1>3, RunStaysSound DEF Reconcile, Crash
<1>4. ASSUME NEW p \in Sessions, Step(p) PROVE JournalSound' /\ SessionSound'
  <2>1. CASE Absorb(p) \/ VerifyCommit(p) \/ AutoRevert(p) \/ Restore(p)
    BY <2>1, AbsorbKeeps, PassKeeps, RevertKeeps, RunStaysSound
  <2>2. CASE AbsorbRefused(p) \/ Grade(p)
    BY <1>2, <2>2, RunStaysSound DEF AbsorbRefused, Grade
  <2>3. CASE \/ VerifyStart(p) \/ VerifyRaises(p) \/ AskNoOp(p)
             \/ SendPacket(p) \/ NoOpAnswer(p) \/ Answer(p)
    BY <1>2, <2>3, PassStaysSound
       DEF VerifyStart, VerifyRaises, AskNoOp, SendPacket, NoOpAnswer, Answer
  <2>4. QED
    BY <1>4, <2>1, <2>2, <2>3 DEF Step
<1>5. ASSUME NEW p \in Sessions, Operator(p) PROVE JournalSound' /\ SessionSound'
  <2>1. CASE \E s \in Runs : Reverify(p, s) \/ Revert(p, s)
    BY <1>2, <2>1, OperatorStaysSound DEF Reverify, Revert
  <2>2. CASE \E s \in Runs : \E v \in Found(s) : SetAside(p, s, v)
    BY <2>2, SetAsideKeeps, OperatorStaysSound
  <2>3. CASE ResetBaseline(p)
    BY <2>3, ResetKeeps, OperatorStaysSound
  <2>4. QED
    BY <1>5, <2>1, <2>2, <2>3 DEF Operator, Found
<1>6. ASSUME BreakStaleLock \/ DiscardChanges \/ UNCHANGED vars
      PROVE  JournalSound' /\ SessionSound'
  BY <1>2, <1>6, OthersStaySound DEF BreakStaleLock, DiscardChanges, vars
<1>7. QED
  BY <1>1, <1>3, <1>4, <1>5, <1>6 DEF Next, Alone

LEMMA InitAlone == Init => Alone
<1> SUFFICES ASSUME Init PROVE Alone
  OBVIOUS
<1>1. Structure
  BY InitStructure
<1>2. Runs = {} /\ (\A kind : Seqs(kind) = {}) /\ \A v : Writers(v) = {}
  BY DEF Init, Runs, Seqs, Writers
<1>3. \A v \in Views : Stacked(v)
  BY <1>2 DEF Init, Stacked, Untouched
<1>4. JournalSound
  BY <1>2, <1>3 DEF JournalSound, OnlyNewestOpen, StampIsLast, RulingsFollow, Covered
<1>5. SessionSound
  BY DEF Init, SessionSound, NoneOpenAtAbsorb, BodiesCommitted, WorkStands, PassFits, Working,
         InPass
<1>6. QED
  BY <1>1, <1>4, <1>5 DEF Alone

LEMMA AloneHolds == OneAtATime => (Spec => []Alone)
<1> SUFFICES ASSUME OneAtATime PROVE Spec => []Alone
  OBVIOUS
<1>1. Init => Alone
  BY InitAlone
<1>2. Alone /\ [Next]_vars => Alone'
  BY AloneStep
<1>3. QED
  BY <1>1, <1>2, PTL DEF Spec

-----------------------------------------------------------------------------
\* One driver invocation at a time keeps what it promises.

\* A run without a terminal disposition is at work or blocks the next --run
\* (startup reconciliation, compile-driver.py:203-210): only the newest run is open.
THEOREM InvHolds == OneAtATime => (Spec => []Inv)
<1>1. Alone => UnverifiedBlocks
  <2> SUFFICES ASSUME Alone, NEW s \in Runs, ~Terminal(s) PROVE s = Newest(Runs)
    BY DEF UnverifiedBlocks
  <2>1. Typed /\ \A q \in Runs : q <= s
    BY DEF Alone, Structure, JournalSound, OnlyNewestOpen
  <2>2. QED
    BY <2>1, NewestIsThat
<1>2. Alone => Inv
  BY <1>1, StructureIsTyped DEF Alone, Inv
<1>3. QED
  BY <1>2, AloneHolds, PTL

\* No view in the newest commit holds text of a run that the journal calls reverted
\* (_cmd_revert and the automatic revert of --run): every run that stands was written
\* over the one before it, and a revert takes the top one off.
THEOREM RevertedTextGoneHolds == OneAtATime => (Spec => []RevertedTextGone)
<1>1. Alone => RevertedTextGone
  <2> SUFFICES ASSUME Alone, NEW v \in Views PROVE head[v].body \notin Reverted
    BY DEF RevertedTextGone
  <2>1. Structure /\ Typed /\ Stacked(v)
    BY DEF Alone, Structure, JournalSound
  <2>2. \A s \in Reverted : s \in DOMAIN journal
    BY <2>1 DEF Structure, LaterFit, Later, Reverted, Runs, Seqs
  <2>3. 0 \notin Reverted
    BY <2>1, <2>2, RecordTypes
  <2>4. QED
    BY <2>1, <2>3 DEF Stacked, Writers
<1>2. QED
  BY <1>1, AloneHolds, PTL

\* A run that counts as verified has a completed leg on every view that it absorbed,
\* but where the view's baseline advanced past it, and on every no-op (verify_run,
\* compile-driver.py:2048, "a leg on EVERY absorption").
THEOREM LegOnEveryAbsorptionHolds == OneAtATime => (Spec => []LegOnEveryAbsorption)
<1>1. Alone => LegOnEveryAbsorption
  BY DEF Alone, JournalSound, Covered, Excused, LegOnEveryAbsorption
<1>2. QED
  BY <1>1, AloneHolds, PTL

\* What a step may do to the journal.
Starts == \E rec \in Records : /\ rec.kind = "compile" /\ Commit(rec)
                               /\ \A s \in Runs : Terminal(s)
Judges == \E rec \in Records : rec.kind = "verify" /\ Commit(rec) /\ rec.over \in Runs \ Reverted
Notes == \E rec \in Records :
           /\ Commit(rec)
           /\ \/ rec.kind \in {"adjudication", "baseline-reset"}
              \/ rec.kind = "revert" /\ rec.status = "revert-failed"
TakesBack(s) ==
  /\ s \in Runs \ Reverted /\ ~Confirmed(s)
  /\ Commit(RevertRecord(s, "reverted"))
  /\ \A v \in Views : head'[v] # head[v] => v \in Absorbed(s) /\ head[v].body = s

LEMMA JournalSteps ==
  ASSUME Alone, [Next]_vars
  PROVE  UNCHANGED journal \/ Starts \/ Judges \/ Notes \/ \E s \in Runs : TakesBack(s)
<1>1. Structure /\ Typed /\ SessionSound /\ \A p \in Sessions : JobFits(p)
  BY DEF Alone, Structure
<1>2. ASSUME NEW p \in Sessions, Absorb(p) PROVE Starts
  <2>1. \A s \in Runs : Terminal(s)
    BY <1>1, <1>2 DEF Absorb, SessionSound, NoneOpenAtAbsorb
  <2>2. \E rec \in Records : rec.kind = "compile" /\ Commit(rec)
    BY <1>1, <1>2, AbsorbCommits DEF CompileRecord
  <2>3. QED
    BY <2>1, <2>2 DEF Starts
<1>3. ASSUME NEW p \in Sessions, VerifyCommit(p) PROVE Judges
  <2>1. job[p].seq \in Runs \ Reverted
    BY <1>1, <1>3 DEF VerifyCommit, SessionSound, WorkStands, JobFits, Working
  <2>2. \E rec \in Records : rec.kind = "verify" /\ rec.over = job[p].seq /\ Commit(rec)
    BY <1>1, <1>3, VerifyCommits DEF VerifyRecord
  <2>3. QED
    BY <2>1, <2>2 DEF Judges
<1>4. ASSUME NEW p \in Sessions, AutoRevert(p) \/ Restore(p)
      PROVE  Notes \/ \E s \in Runs : TakesBack(s)
  <2>1. PICK s \in Runs \ Reverted :
          /\ ~Confirmed(s)
          /\ \/ Commit(RevertRecord(s, "revert-failed")) /\ UNCHANGED <<head, tree>>
             \/ /\ \A v \in Absorbed(s) : head[v].body = s
                /\ \E content : Undone(s, content)
    BY <1>4, RevertIs
  <2>2. s \in Nat
    BY <1>1, RecordTypes
  <2>3. CASE Commit(RevertRecord(s, "revert-failed"))
    <3>1. \E rec \in Records : rec.kind = "revert" /\ rec.status = "revert-failed" /\ Commit(rec)
      BY <2>2, <2>3, OtherRecordsAre DEF RevertRecord
    <3>2. QED
      BY <3>1 DEF Notes
  <2>4. ASSUME \A v \in Absorbed(s) : head[v].body = s, NEW content, Undone(s, content)
        PROVE  TakesBack(s)
    BY <2>1, <2>4 DEF TakesBack, Undone
  <2>5. QED
    BY <2>1, <2>3, <2>4
<1>5. ASSUME NEW p \in Sessions, NEW s \in Runs, NEW v \in Found(s), SetAside(p, s, v)
      PROVE  Notes
  <2>1. \E rec \in Records : rec.kind = "adjudication" /\ Commit(rec)
    BY <1>1, <1>5, SetAsideCommits DEF Adjudication
  <2>2. QED
    BY <2>1 DEF Notes
<1>6. ASSUME NEW p \in Sessions, ResetBaseline(p) PROVE Notes
  <2>1. \E rec \in Records : rec.kind = "baseline-reset" /\ Commit(rec)
    BY <1>6, ResetCommits DEF BaselineReset
  <2>2. QED
    BY <2>1 DEF Notes
<1>7. ASSUME NEW p \in Sessions, Reconcile(p) \/ Crash(p) \/ Step(p) \/ Operator(p)
      PROVE  UNCHANGED journal \/ Starts \/ Judges \/ Notes \/ \E s \in Runs : TakesBack(s)
  <2>1. CASE Reconcile(p) \/ Crash(p)
    BY <2>1 DEF Reconcile, Crash
  <2>2. CASE Step(p)
    BY <1>2, <1>3, <1>4, <2>2
       DEF Step, AbsorbRefused, VerifyStart, VerifyRaises, AskNoOp, NoOpAnswer, SendPacket,
           Answer, Grade
  <2>3. CASE Operator(p)
    BY <1>5, <1>6, <2>3 DEF Operator, Found, Reverify, Revert
  <2>4. QED
    BY <1>7, <2>1, <2>2, <2>3
<1>8. QED
  BY <1>7 DEF Next, BreakStaleLock, DiscardChanges, vars

\* Only a step that takes a run back puts it among the reverted.
LEMMA RevertedBy ==
  ASSUME Alone, [Next]_vars, NEW s \in Reverted', s \notin Reverted
  PROVE  TakesBack(s)
<1>1. Typed
  BY DEF Alone, Structure
<1>2. UNCHANGED journal => Reverted' = Reverted
  BY DEF Reverted, Seqs
<1>3. Starts \/ Judges \/ Notes => Reverted' = Reverted
  <2>1. ASSUME NEW rec \in Records, Commit(rec), rec.kind = "compile" PROVE Reverted' = Reverted
    BY <1>1, <2>1, ReadAfter
  <2>2. ASSUME NEW rec \in Records, Commit(rec),
               \/ rec.kind \in {"verify", "adjudication", "baseline-reset"}
               \/ rec.kind = "revert" /\ rec.status = "revert-failed"
        PROVE  Reverted' = Reverted
    BY <1>1, <2>2, SameRuns
  <2>3. QED
    BY <2>1, <2>2 DEF Starts, Judges, Notes
<1>4. PICK t \in Runs : TakesBack(t)
  BY <1>2, <1>3, JournalSteps
<1>5. Reverted' = Reverted \cup {t}
  BY <1>1, <1>4, RevertedNow DEF TakesBack
<1>6. QED
  BY <1>4, <1>5

\* A revert changes no view but those of its run, and those only while they hold its
\* own text (_cmd_revert's last-word check, and the merge of git revert).
THEOREM RevertUndoesOnlyItsRunHolds == OneAtATime => (Spec => RevertUndoesOnlyItsRun)
<1> SUFFICES ASSUME OneAtATime PROVE Spec => RevertUndoesOnlyItsRun
  OBVIOUS
<1> DEFINE OnlyItsRun ==
      \A s \in Runs : (s \in Reverted' /\ s \notin Reverted)
        => \A v \in Views : head'[v] # head[v] => v \in Absorbed(s) /\ head[v].body = s
<1>1. Alone /\ [Next]_vars => [OnlyItsRun]_vars
  BY RevertedBy DEF TakesBack
<1>2. QED
  BY <1>1, AloneHolds, PTL DEF Spec, RevertUndoesOnlyItsRun

\* A run whose views were all confirmed, and whose no-ops were in every pass, is not
\* reverted (_cmd_revert refuses a fully confirmed run, the automatic revert comes
\* after a pass that did not confirm).
THEOREM ConfirmedStandsHolds == OneAtATime => (Spec => ConfirmedStands)
<1> SUFFICES ASSUME OneAtATime PROVE Spec => ConfirmedStands
  OBVIOUS
<1> DEFINE NotConfirmed ==
      \A s \in Runs : (s \in Reverted' /\ s \notin Reverted) => ~Confirmed(s)
<1>1. Alone /\ [Next]_vars => [NotConfirmed]_vars
  BY RevertedBy DEF TakesBack
<1>2. QED
  BY <1>1, AloneHolds, PTL DEF Spec, ConfirmedStands

-----------------------------------------------------------------------------
\* The driver keeps the abstract ledger of runs.

Entries == [s \in Runs |-> Disposition(s)]

LEMMA EntriesStay ==
  ASSUME Runs' = Runs, \A s \in Runs : Disposition(s)' = Disposition(s)
  PROVE  UNCHANGED Entries
  BY DEF Entries

LEMMA DispositionsAre ==
  \A s : /\ Disposition(s) = "reverted" <=> s \in Reverted
         /\ Disposition(s) = "verified" <=> s \notin Reverted /\ Terminal(s)
         /\ Disposition(s) = "open" <=> ~Terminal(s)
  BY DEF Disposition, Terminal

LEMMA StartMaps ==
  ASSUME Alone, Starts
  PROVE  Ledger!Start
<1>1. Structure /\ Typed /\ Covered
  BY DEF Alone, Structure, JournalSound
<1>2. PICK rec \in Records : rec.kind = "compile" /\ Commit(rec) /\ \A s \in Runs : Terminal(s)
  BY DEF Starts
<1>3. PICK n \in Nat : n = Len(journal) + 1
  BY <1>1, RecordTypes
<1>4. /\ Runs' = Runs \cup {n} /\ Reverted' = Reverted /\ n \notin Reverted' /\ ~Terminal(n)'
      /\ \A s : Terminal(s)' <=> Terminal(s)
  BY <1>1, <1>2, <1>3, CoveredGrows
<1>5. \A s \in Runs : s < n
  BY <1>1, <1>3, RecordTypes
<1>6. \A s \in Runs : Disposition(s)' = Disposition(s) /\ Disposition(s) # "open"
  BY <1>2, <1>4, DispositionsAre DEF Disposition
<1>7. Disposition(n)' = "open"
  BY <1>4 DEF Disposition
<1>8. n \notin Runs
  BY <1>3, <1>5
<1>9. Entries' = [m \in Runs \cup {n} |-> IF m = n THEN "open" ELSE Entries[m]]
  BY <1>4, <1>6, <1>7, <1>8 DEF Entries
<1>10. DOMAIN Entries = Runs /\ DOMAIN Entries' = Runs \cup {n}
  BY <1>4 DEF Entries
<1>11. \A m \in Runs : m < n /\ Entries[m] # "open"
  BY <1>5, <1>6 DEF Entries
<1>12. \E k \in DOMAIN Entries' \ DOMAIN Entries :
         /\ \A m \in DOMAIN Entries : m < k /\ Entries[m] # "open"
         /\ Entries' = [m \in DOMAIN Entries \cup {k} |-> IF m = k THEN "open" ELSE Entries[m]]
  BY <1>8, <1>9, <1>10, <1>11
<1>13. QED
  BY <1>12 DEF Ledger!Start, Entries

LEMMA JudgeMaps ==
  ASSUME Alone, Judges
  PROVE  Ledger!Verify \/ UNCHANGED Entries
<1>1. Typed
  BY DEF Alone, Structure
<1>2. PICK rec \in Records : rec.kind = "verify" /\ Commit(rec) /\ rec.over \in Runs \ Reverted
  BY DEF Judges
<1>3. PICK t \in Runs \ Reverted : t = rec.over
  BY <1>2
<1>4. Runs' = Runs /\ Reverted' = Reverted
  BY <1>1, <1>2, SameRuns
<1>5. \A s : Covering(s)' = Covering(s) \cup
               {n \in {Len(journal) + 1} : rec.kind = "verify" /\ rec.over = s}
  BY <1>1, <1>2, ReadAfter
<1>6. \A s \in Runs : s # t => (Terminal(s)' <=> Terminal(s))
  <2>1. \A s \in Runs : s # t => Covering(s)' = Covering(s)
    BY <1>3, <1>5
  <2>2. \A s : \A r \in Covering(s) : Incomplete(r)' = Incomplete(r)
    BY <1>1, <1>2, ReadAfter DEF Covering
  <2>3. QED
    BY <1>4, <2>1, <2>2 DEF Terminal
<1>7. Terminal(t) => Terminal(t)'
  BY <1>1, <1>2, SaidStays
<1>8. \A s \in Runs : s # t => Disposition(s)' = Disposition(s)
  BY <1>4, <1>6 DEF Disposition
<1>9. CASE Terminal(t)' => Terminal(t)
  <2>1. Disposition(t)' = Disposition(t)
    BY <1>4, <1>7, <1>9 DEF Disposition
  <2>2. QED
    BY <1>4, <1>8, <2>1, EntriesStay
<1>10. CASE Terminal(t)' /\ ~Terminal(t)
  <2>1. Disposition(t) = "open" /\ Disposition(t)' = "verified"
    BY <1>3, <1>4, <1>10 DEF Disposition
  <2>2. t \in DOMAIN Entries /\ Entries[t] = "open" /\ Entries' = [Entries EXCEPT ![t] = "verified"]
    BY <1>4, <1>8, <2>1 DEF Entries
  <2>3. QED
    BY <2>2 DEF Ledger!Verify, Entries
<1>11. QED
  BY <1>9, <1>10

LEMMA NoteMaps ==
  ASSUME Alone, Notes
  PROVE  UNCHANGED Entries
<1>1. Typed
  BY DEF Alone, Structure
<1>2. PICK rec \in Records : /\ Commit(rec)
                             /\ \/ rec.kind \in {"adjudication", "baseline-reset"}
                                \/ rec.kind = "revert" /\ rec.status = "revert-failed"
  BY DEF Notes
<1>3. Runs' = Runs /\ Reverted' = Reverted
  BY <1>1, <1>2, SameRuns
<1>4. \A s : Terminal(s)' <=> Terminal(s)
  BY <1>1, <1>2, <1>3, TerminalBy
<1>5. QED
  BY <1>3, <1>4, EntriesStay DEF Disposition

LEMMA RevertMaps ==
  ASSUME Alone, NEW t \in Runs, TakesBack(t)
  PROVE  Ledger!Revert
<1>1. Typed
  BY DEF Alone, Structure
<1>2. Reverted' = Reverted \cup {t} /\ Runs' = Runs /\ \A s : Covering(s)' = Covering(s)
  BY <1>1, RevertedNow DEF TakesBack
<1>3. t \notin Reverted /\ t \in Nat
  BY <1>1, RecordTypes DEF TakesBack
<1>4. \E rec \in Records : Commit(rec)
  BY <1>3, OtherRecordsAre DEF TakesBack
<1>5. \A s : s # t => (Terminal(s)' <=> Terminal(s))
  <2>1. \A s : \A r \in Covering(s) : Incomplete(r)' = Incomplete(r)
    BY <1>1, <1>4, ReadAfter DEF Covering
  <2>2. QED
    BY <1>2, <2>1 DEF Terminal
<1>6. \A s \in Runs : s # t => Disposition(s)' = Disposition(s)
  BY <1>2, <1>5 DEF Disposition
<1>7. Disposition(t)' = "reverted" /\ Disposition(t) # "reverted"
  BY <1>2, <1>3, DispositionsAre DEF Disposition
<1>8. /\ t \in DOMAIN Entries /\ Entries[t] # "reverted"
      /\ Entries' = [Entries EXCEPT ![t] = "reverted"]
  BY <1>2, <1>6, <1>7 DEF Entries
<1>9. QED
  BY <1>8 DEF Ledger!Revert, Entries

\* The driver keeps the ledger of runs that RunLedger promises: a run starts above
\* all others and over no open one, is verified or reverted once, and is reopened by
\* nothing but a revert.
THEOREM LedgerImplemented == OneAtATime => (Spec => ImplementsLedger)
<1> SUFFICES ASSUME OneAtATime PROVE Spec => ImplementsLedger
  OBVIOUS
<1>1. Init => Ledger!Init
  <2>1. Init => Runs = {}
    BY DEF Init, Runs, Seqs
  <2>2. QED
    BY <2>1 DEF Ledger!Init
<1>2. Alone /\ [Next]_vars => [Ledger!Next]_Entries
  <2> SUFFICES ASSUME Alone, [Next]_vars PROVE Ledger!Next \/ UNCHANGED Entries
    OBVIOUS
  <2>1. CASE UNCHANGED journal
    BY <2>1 DEF Entries, Disposition, Terminal, Covering, Incomplete, Reverted, Runs, Seqs
  <2>2. CASE Starts
    BY <2>2, StartMaps DEF Ledger!Next
  <2>3. CASE Judges
    BY <2>3, JudgeMaps DEF Ledger!Next
  <2>4. CASE Notes
    BY <2>4, NoteMaps
  <2>5. ASSUME NEW t \in Runs, TakesBack(t) PROVE Ledger!Next
    BY <2>5, RevertMaps DEF Ledger!Next
  <2>6. QED
    BY <2>1, <2>2, <2>3, <2>4, <2>5, JournalSteps
<1>3. QED
  BY <1>1, <1>2, AloneHolds, PTL DEF Spec, ImplementsLedger, Ledger!Spec, Entries

-----------------------------------------------------------------------------
(* The run lock, for any number of sessions.                               *)

\* A session whose pass is under way holds the lock.
PassHoldsLock == \A p \in Sessions : pc[p] \in InPass => lock = p

LockTyped == lock \in Sessions \cup {Nobody, Orphan} /\ pc \in [Sessions -> Places]

LEMMA LockStep ==
  ASSUME LockTyped, PassHoldsLock, [Next]_vars
  PROVE  PassHoldsLock' /\ [Mutex!Next]_lock
<1>1. ASSUME NEW p \in Sessions, NEW to \in Places, NEW locals, Goto(p, to, locals), UNCHANGED lock,
             to \in InPass => pc[p] \in InPass
      PROVE  PassHoldsLock' /\ [Mutex!Next]_lock
  <2>1. pc' = [pc EXCEPT ![p] = to]
    BY <1>1 DEF Goto
  <2> QED BY <1>1, <2>1 DEF LockTyped, PassHoldsLock
<1>2. ASSUME NEW p \in Sessions, Reconcile(p) PROVE PassHoldsLock' /\ [Mutex!Next]_lock
  BY <1>1, <1>2 DEF Reconcile, Places, InPass
<1>3. ASSUME NEW p \in Sessions, Absorb(p) \/ AbsorbRefused(p) \/ Grade(p) \/ AutoRevert(p) \/ Restore(p)
      PROVE  PassHoldsLock' /\ [Mutex!Next]_lock
  BY <1>1, <1>3 DEF Absorb, AbsorbRefused, Grade, AutoRevert, Restore, Places, InPass
<1>4. ASSUME NEW p \in Sessions, AskNoOp(p) \/ NoOpAnswer(p) \/ SendPacket(p) \/ Answer(p)
      PROVE  PassHoldsLock' /\ [Mutex!Next]_lock
  BY <1>1, <1>4 DEF AskNoOp, NoOpAnswer, SendPacket, Answer, Places, InPass
<1>5. ASSUME NEW p \in Sessions, VerifyStart(p) PROVE PassHoldsLock' /\ [Mutex!Next]_lock
  <2>1. lock = Nobody /\ lock' = p /\ pc' = [pc EXCEPT ![p] = "leg"]
    BY <1>5 DEF VerifyStart, Goto
  <2>2. \A q \in Sessions : pc[q] \notin InPass
    BY <2>1, CompileDriverAssumption DEF PassHoldsLock
  <2>3. PassHoldsLock'
    BY <2>1, <2>2 DEF PassHoldsLock, LockTyped
  <2>4. Mutex!Take(p)
    BY <2>1 DEF Mutex!Take
  <2> QED BY <2>3, <2>4 DEF Mutex!Next
<1>6. ASSUME NEW p \in Sessions, VerifyRaises(p) PROVE PassHoldsLock' /\ [Mutex!Next]_lock
  <2>1. \E to \in {"undo", "idle"} : pc' = [pc EXCEPT ![p] = to]
    BY <1>6 DEF VerifyRaises, Goto
  <2>2. lock' = IF lock = p THEN Nobody ELSE lock
    BY <1>6 DEF VerifyRaises
  <2>3. PassHoldsLock'
    BY <2>1, <2>2 DEF PassHoldsLock, LockTyped, InPass
  <2>4. lock = p => Mutex!Give(p)
    BY <2>2 DEF Mutex!Give
  <2> QED BY <2>2, <2>3, <2>4 DEF Mutex!Next
<1>7. ASSUME NEW p \in Sessions, VerifyCommit(p) PROVE PassHoldsLock' /\ [Mutex!Next]_lock
  <2>1. pc[p] = "leg" /\ lock' = Nobody
    BY <1>7 DEF VerifyCommit
  <2>2. \E to \in {"grade", "idle"} : pc' = [pc EXCEPT ![p] = to]
    BY <1>7 DEF VerifyCommit, Goto
  <2>3. lock = p
    BY <2>1 DEF PassHoldsLock, InPass
  <2>4. PassHoldsLock'
    BY <2>2, <2>3 DEF PassHoldsLock, LockTyped, InPass
  <2>5. Mutex!Give(p)
    BY <2>1, <2>3 DEF Mutex!Give
  <2> QED BY <2>4, <2>5 DEF Mutex!Next
<1>8. ASSUME NEW p \in Sessions, Operator(p) PROVE PassHoldsLock' /\ [Mutex!Next]_lock
  <2>1. ASSUME NEW s, Reverify(p, s) \/ Revert(p, s) PROVE PassHoldsLock' /\ [Mutex!Next]_lock
    BY <1>1, <2>1 DEF Reverify, Revert, Places, InPass
  <2>2. ASSUME NEW s, NEW v, SetAside(p, s, v) PROVE PassHoldsLock' /\ [Mutex!Next]_lock
    BY <2>2 DEF SetAside, PassHoldsLock
  <2>3. CASE ResetBaseline(p)
    BY <2>3 DEF ResetBaseline, PassHoldsLock
  <2> QED BY <1>8, <2>1, <2>2, <2>3 DEF Operator
<1>9. ASSUME NEW p \in Sessions, Crash(p) PROVE PassHoldsLock' /\ [Mutex!Next]_lock
  <2>1. pc' = [pc EXCEPT ![p] = "idle"] /\ lock' = IF lock = p THEN Orphan ELSE lock
    BY <1>9 DEF Crash, Goto
  <2>2. PassHoldsLock'
    BY <2>1 DEF PassHoldsLock, LockTyped, InPass
  <2>3. lock = p => Mutex!Die(p)
    BY <2>1 DEF Mutex!Die
  <2> QED BY <2>1, <2>2, <2>3 DEF Mutex!Next
<1>10. CASE BreakStaleLock
  <2>1. lock = Orphan /\ lock' = Nobody /\ pc' = pc
    BY <1>10 DEF BreakStaleLock
  <2>2. PassHoldsLock'
    BY <2>1, CompileDriverAssumption DEF PassHoldsLock
  <2>3. Mutex!BreakOrphan
    BY <2>1 DEF Mutex!BreakOrphan
  <2> QED BY <2>2, <2>3 DEF Mutex!Next
<1>11. CASE DiscardChanges \/ UNCHANGED vars
  BY <1>11 DEF DiscardChanges, vars, PassHoldsLock
<1>12. ASSUME NEW p \in Sessions, Step(p) PROVE PassHoldsLock' /\ [Mutex!Next]_lock
  BY <1>3, <1>4, <1>5, <1>6, <1>7, <1>12 DEF Step
<1> QED BY <1>2, <1>8, <1>9, <1>10, <1>11, <1>12 DEF Next

\* However many invocations are active: a pass takes the run lock when it is free and
\* gives back its own, and an orphan is freed by a break alone. The driver asks of the
\* lock what the lockfile protocol provides (compile-v2.py:2955).
THEOREM LockIsAMutex == Spec => ImplementsMutex
<1>1. Structure => LockTyped
  BY DEF Structure, Typed, LockTyped
<1>2. Init => PassHoldsLock /\ Mutex!Init
  BY DEF Init, PassHoldsLock, InPass, Mutex!Init
<1>3. LockTyped /\ PassHoldsLock /\ [Next]_vars => PassHoldsLock' /\ [Mutex!Next]_lock
  BY LockStep
<1> QED BY <1>1, <1>2, <1>3, StructureHolds, PTL DEF Spec, ImplementsMutex, Mutex!Spec

\* What that is for: whatever sessions are active, one verify pass is under way at a
\* time, and no run absorbs meanwhile (compile-core.py:100).
PassesApart ==
  \A p, q \in Sessions : pc[p] \in InPass /\ pc[q] \in InPass => p = q

NoneAbsorbsMeanwhile ==
  \A p, q \in Sessions : Absorb(p) => pc[q] \notin InPass

THEOREM OnePassAtATime == Spec => []PassesApart /\ [][NoneAbsorbsMeanwhile]_vars
<1>1. Structure => LockTyped
  BY DEF Structure, Typed, LockTyped
<1>2. Init => PassHoldsLock
  BY DEF Init, PassHoldsLock, InPass
<1>3. LockTyped /\ PassHoldsLock /\ [Next]_vars => PassHoldsLock'
  BY LockStep
<1>4. PassHoldsLock => PassesApart
  BY DEF PassHoldsLock, PassesApart
<1>5. PassHoldsLock => NoneAbsorbsMeanwhile
  BY CompileDriverAssumption DEF PassHoldsLock, NoneAbsorbsMeanwhile, Absorb
<1> QED BY <1>1, <1>2, <1>3, <1>4, <1>5, StructureHolds, PTL DEF Spec

-----------------------------------------------------------------------------
(* The journal, for any number of sessions.                                *)

LEMMA JournalGrows ==
  ASSUME Structure, [Next]_vars
  PROVE  UNCHANGED journal \/ \E rec \in Records : Commit(rec)
<1>1. ASSUME NEW p \in Sessions, Step(p) PROVE UNCHANGED journal \/ \E rec \in Records : Commit(rec)
  <2>1. CASE Absorb(p)
    BY <2>1, AbsorbCommits
  <2>2. CASE VerifyCommit(p)
    BY <2>2, VerifyCommits
  <2>3. CASE AutoRevert(p) \/ Restore(p)
    BY <2>3, RevertCommits
  <2> QED BY <1>1, <2>1, <2>2, <2>3
             DEF Step, AbsorbRefused, VerifyStart, VerifyRaises, AskNoOp, NoOpAnswer, SendPacket,
                 Answer, Grade
<1>2. ASSUME NEW p \in Sessions, Operator(p)
      PROVE  UNCHANGED journal \/ \E rec \in Records : Commit(rec)
  <2>1. ASSUME NEW s \in Runs, NEW v \in Found(s), SetAside(p, s, v)
        PROVE  \E rec \in Records : Commit(rec)
    BY <2>1, SetAsideCommits
  <2>2. CASE ResetBaseline(p)
    BY <2>2, ResetCommits
  <2> QED BY <1>2, <2>1, <2>2 DEF Operator, Found, Reverify, Revert
<1> QED BY <1>1, <1>2 DEF Next, Reconcile, Crash, BreakStaleLock, DiscardChanges, vars

Log == INSTANCE AppendLog WITH Chains <- {"compile"}, Entries <- Records,
                               log <- [c \in {"compile"} |-> journal]

\* However many sessions write to it, with whatever verbs, the journal is a log that
\* grows by one typed record at its end: the layer that SeqJournal implements.
THEOREM JournalIsALog == Spec => Log!Spec
<1>1. Init => Log!Init
  BY DEF Init, Log!Init
<1>2. Structure /\ [Next]_vars => [Log!Next]_[c \in {"compile"} |-> journal]
  <2> SUFFICES ASSUME NEW rec \in Records, Commit(rec) PROVE Log!Next
    BY JournalGrows
  <2>1. [c \in {"compile"} |-> journal'] =
          [[c \in {"compile"} |-> journal] EXCEPT !["compile"] = Append(journal, rec)]
    BY DEF Commit
  <2> QED BY <2>1 DEF Log!Next
<1> QED BY <1>1, <1>2, StructureHolds, PTL DEF Spec, Log!Spec

\* However sessions overlap, what the journal says of a run is not unsaid: a run that
\* was verified or reverted is so for ever, and no leg's answer is lost
\* (compile-driver.py:203-210 reads the disposition off the journal each time).
SaidIsFinal ==
  [][/\ \A s \in Runs : s \in Runs' /\ (Terminal(s) => Terminal(s)')
                        /\ \A v \in Subjects : Judged(s, v) => Judged(s, v)'
     /\ Reverted \subseteq Reverted']_vars

THEOREM SaidIsFinalHolds == Spec => SaidIsFinal
<1> DEFINE Stays == /\ \A s \in Runs : s \in Runs' /\ (Terminal(s) => Terminal(s)')
                                       /\ \A v \in Subjects : Judged(s, v) => Judged(s, v)'
                    /\ Reverted \subseteq Reverted'
<1>1. Structure /\ [Next]_vars => Stays
  <2> SUFFICES ASSUME Structure, [Next]_vars PROVE Stays
    OBVIOUS
  <2>1. CASE UNCHANGED journal
    BY <2>1 DEF Runs, Seqs, Terminal, Covering, Incomplete, Reverted, Judged
  <2>2. ASSUME NEW rec \in Records, Commit(rec) PROVE Stays
    BY <2>2, SaidStays DEF Structure
  <2> QED BY <2>1, <2>2, JournalGrows
<1> QED BY <1>1, StructureHolds, PTL DEF Spec, SaidIsFinal
=============================================================================
