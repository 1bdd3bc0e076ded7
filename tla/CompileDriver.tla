--------------------------- MODULE CompileDriver ---------------------------
(***************************************************************************)
(* compile-driver.py over the engine's run() and verify_run(): sessions    *)
(* that absorb events into wiki views, verify each absorption, revert what *)
(* could not be verified, and the operator's verbs --reverify, --revert,   *)
(* --set-aside and --baseline-reset. An event that a run finds to be in    *)
(* the views already is a no-op candidate: it changes no file, and has a   *)
(* leg of its own in every verify pass over that run.                      *)
(*                                                                         *)
(* The journal and the commits of one branch are shared. An append with    *)
(* its commit is one step here. run() and verify_run() hold the run lock;  *)
(* the operator's verbs and the automatic revert do not.                   *)
(***************************************************************************)
EXTENDS Naturals, Sequences, FiniteSets

CONSTANTS Views,        \* wiki view files
          NewViews,     \* views that no commit holds before a run creates them
          Events,       \* events of the class whose no-ops have to be verified
          Sessions,     \* driver invocations that may be active at the same time
          Verbs,        \* the verbs the sessions use
          Verdicts,     \* what a verify leg may come to
          MaxLegs,      \* bound: views and no-ops of one run
          MaxSeq,       \* bound: only --revert starts above this seq
          MaxReverts,   \* bound: revert records of one run
          MaxCrashes,   \* bound: sessions killed
          Nobody, Orphan, NoView

AllVerbs == {"run", "reverify", "revert", "set-aside", "baseline-reset"}

\* stamped: confirmed, and a view carries the stamp. stamp-refused: confirmed, but
\* the view has no region to stamp, or a gate withheld it. rejected: completed, not
\* confirmed; whether it is recorded or blocking decides an exit code only.
\* incomplete: the transport failed, recorded as if it were a verdict.
AllVerdicts == {"stamped", "stamp-refused", "rejected", "incomplete"}

ASSUME CompileDriverAssumption ==
  /\ NewViews \subseteq Views /\ Verbs \subseteq AllVerbs /\ Verdicts \subseteq AllVerdicts
  /\ Views \cap Events = {} /\ NoView \notin Events
  /\ MaxLegs \in Nat /\ MaxSeq \in Nat /\ MaxReverts \in Nat /\ MaxCrashes \in Nat
  /\ Nobody \notin Sessions /\ Orphan \notin Sessions /\ NoView \notin Views

VARIABLES journal,  \* the records, by seq
          head,     \* the views' content in the newest commit
          tree,     \* their content in the working tree
          lock,     \* the run lock: a session, Orphan after its death, or Nobody
          pc,       \* where each session is
          job,      \* its locals
          crashes

vars == <<journal, head, tree, lock, pc, job, crashes>>

\* A view is known by the run that wrote its body (0: none did) and the run
\* whose verification its stamp records (0: no stamp).
Content == [body : Nat, stamp : Nat]
Untouched == [body |-> 0, stamp |-> 0]
Absent(v, content) == v \in NewViews /\ content.body = 0

Idle == [verb |-> "none", seq |-> 0, todo |-> {}, legs |-> << >>,
         view |-> NoView, text |-> Untouched, stamps |-> FALSE]

-----------------------------------------------------------------------------
\* Reading the journal.

Seqs(kind) == {s \in DOMAIN journal : journal[s].kind = kind}
Runs == Seqs("compile")
Absorbed(s) == DOMAIN journal[s].wrote
NoOps(s) == journal[s].noops
Covering(s) == {r \in Seqs("verify") : journal[r].over = s}
Reverted == {journal[r].over : r \in {q \in Seqs("revert") : journal[q].status = "reverted"}}

Incomplete(r) == \E v \in DOMAIN journal[r].legs : journal[r].legs[v] = "incomplete"

\* Mutated form: a verify record exists.
AnyRecordIsTerminal(s) == Covering(s) # {} \/ s \in Reverted

\* A terminal verify disposition: a verify record all of whose legs completed,
\* or a revert.
Terminal(s) == (\E r \in Covering(s) : ~Incomplete(r)) \/ s \in Reverted

Newest(S) == CHOOSE s \in S : \A q \in S : q <= s

\* Startup reconciliation gates on the newest run only.
Blocked == Runs # {} /\ ~Terminal(Newest(Runs))

\* The three rungs of a view's baseline: the stamps, the operator's rulings and
\* the resets to an imported snapshot.
Approvals(v) ==
  {r \in Seqs("verify") : v \in DOMAIN journal[r].legs /\ journal[r].legs[v] = "stamped"}
    \cup {r \in Seqs("adjudication") : journal[r].view = v}
Resets(v) == {r \in Seqs("baseline-reset") : v \in journal[r].views}

\* The seqs at which the baseline advanced; what was said of a run that was
\* reverted does not count.
Stamps(v) == {r \in Approvals(v) : journal[r].over \notin Reverted} \cup Resets(v)

\* The absorbed views that a verify pass over run s sends to the verifier.
Triggered(s) == {v \in Absorbed(s) : \A r \in Stamps(v) : r < s}

\* The legs of the pass. Which no-ops are pending is read from the run's own record,
\* that no verdict changes: they are sent again every time.
Asked(s) == Triggered(s) \cup NoOps(s)

RevertRecords(s) == {r \in Seqs("revert") : journal[r].over = s}

Commit(record) == journal' = Append(journal, record)
CompileRecord(W, N, s) == [kind |-> "compile", noops |-> N,
                           before |-> [v \in W |-> head[v]],
                           wrote |-> [v \in W |-> [tree[v] EXCEPT !.body = s]]]
VerifyRecord(s, legs) == [kind |-> "verify", over |-> s, legs |-> legs]
RevertRecord(s, status) == [kind |-> "revert", over |-> s, status |-> status]
Adjudication(s, v) == [kind |-> "adjudication", over |-> s, view |-> v]
BaselineReset(W) == [kind |-> "baseline-reset", views |-> W]

-----------------------------------------------------------------------------
Goto(p, to, locals) == pc' = [pc EXCEPT ![p] = to] /\ job' = [job EXCEPT ![p] = locals]

Start(p, verb) == /\ pc[p] = "idle" /\ verb \in Verbs
                  /\ verb # "revert" => Len(journal) < MaxSeq

Init == /\ journal = << >>
        /\ head = [v \in Views |-> Untouched]
        /\ tree = head
        /\ lock = Nobody
        /\ pc = [p \in Sessions |-> "idle"]
        /\ job = [p \in Sessions |-> Idle]
        /\ crashes = 0

\* Mutated form: older runs do not matter, and neither does the newest.
ReconcileAdvisory(p) ==
  /\ Start(p, "run")
  /\ Goto(p, "absorb", [Idle EXCEPT !.verb = "run"])
  /\ UNCHANGED <<journal, head, tree, lock, crashes>>

\* --run up to startup reconciliation, which reads the journal without the lock.
Reconcile(p) ==
  /\ Start(p, "run")
  /\ ~Blocked
  /\ Goto(p, "absorb", [Idle EXCEPT !.verb = "run"])
  /\ UNCHANGED <<journal, head, tree, lock, crashes>>

\* run(): the author's new text of some views, whose regions it keeps, with the
\* run's record, and the no-ops it found. Either may be all there is.
Absorb(p) ==
  LET s == Len(journal) + 1
  IN /\ pc[p] = "absorb"
     /\ lock = Nobody
     /\ \E W \in SUBSET Views, N \in SUBSET Events :
          /\ Cardinality(W) + Cardinality(N) \in 1..MaxLegs
          /\ Commit(CompileRecord(W, N, s))
          /\ tree' = [v \in Views |-> IF v \in W THEN [tree[v] EXCEPT !.body = s] ELSE tree[v]]
          /\ head' = [v \in Views |-> IF v \in W THEN tree'[v] ELSE head[v]]
     /\ Goto(p, "verify", [job[p] EXCEPT !.seq = s])
     /\ UNCHANGED <<lock, crashes>>

\* The lock is held, or the engine refuses the answers before the journal.
AbsorbRefused(p) ==
  /\ pc[p] = "absorb"
  /\ Goto(p, "idle", Idle)
  /\ UNCHANGED <<journal, head, tree, lock, crashes>>

\* --reverify: a run that is not terminal, or one whose open legs are all
\* approvals the engine could not stamp.
OnlyStampRefused(s) ==
  /\ Covering(s) # {}
  /\ LET legs == journal[Newest(Covering(s))].legs
         open == {v \in DOMAIN legs : legs[v] \notin {"stamped", "incomplete"}}
     IN open # {} /\ \A v \in open : legs[v] = "stamp-refused"

Reverify(p, s) ==
  /\ Start(p, "reverify")
  /\ s \notin Reverted
  /\ Terminal(s) => OnlyStampRefused(s)
  /\ Goto(p, "verify", [Idle EXCEPT !.verb = "reverify", !.seq = s])
  /\ UNCHANGED <<journal, head, tree, lock, crashes>>

-----------------------------------------------------------------------------
\* verify_run, holding the lock for the length of all its legs.

\* Mutated form: a dead session's lock counts as free.
StartOverOrphan(p) ==
  /\ pc[p] = "verify"
  /\ lock \in {Nobody, Orphan}
  /\ lock' = p
  /\ Goto(p, "leg", [job[p] EXCEPT !.todo = Asked(job[p].seq)])
  /\ UNCHANGED <<journal, head, tree, crashes>>

VerifyStart(p) ==
  /\ pc[p] = "verify"
  /\ lock = Nobody
  /\ lock' = p
  /\ Goto(p, "leg", [job[p] EXCEPT !.todo = Asked(job[p].seq)])
  /\ UNCHANGED <<journal, head, tree, crashes>>

\* The lock is held, the dispatch guard refuses, a backend raises: no record.
\* --run goes on to revert, --reverify reports.
VerifyRaises(p) ==
  /\ pc[p] \in {"verify", "leg", "verdict"}
  /\ lock' = IF lock = p THEN Nobody ELSE lock
  /\ IF job[p].verb = "run" THEN Goto(p, "undo", [Idle EXCEPT !.verb = "run", !.seq = job[p].seq])
                            ELSE Goto(p, "idle", Idle)
  /\ UNCHANGED <<journal, head, tree, crashes>>

\* The no-ops come first: a packet has the event and the views that hold it.
AskNoOp(p) ==
  /\ pc[p] = "leg"
  /\ \E e \in job[p].todo \cap Events : Goto(p, "verdict", [job[p] EXCEPT !.view = e])
  /\ UNCHANGED <<journal, head, tree, lock, crashes>>

\* The packet for one view: its body is read before the verifier is asked.
SendPacket(p) ==
  /\ pc[p] = "leg"
  /\ job[p].todo \cap Events = {}
  /\ \E v \in job[p].todo : Goto(p, "verdict", [job[p] EXCEPT !.view = v, !.text = tree[v]])
  /\ UNCHANGED <<journal, head, tree, lock, crashes>>

LegDone(j, verdict) ==
  [j EXCEPT !.todo = @ \ {j.view}, !.view = NoView, !.text = Untouched,
            !.legs = [w \in DOMAIN @ \cup {j.view} |-> IF w = j.view THEN verdict ELSE @[w]]]

\* The answer, an unknown time later. That to a no-op leaves no trace but the record.
NoOpAnswer(p) ==
  /\ pc[p] = "verdict" /\ job[p].view \in Events
  /\ \E verdict \in Verdicts : Goto(p, "leg", LegDone(job[p], verdict))
  /\ UNCHANGED <<journal, head, tree, lock, crashes>>

\* A confirmed view's file is rewritten with the stamp in the text that was read; one
\* without a region is not stamped.
Answer(p) ==
  LET j == job[p]
  IN /\ pc[p] = "verdict" /\ j.view \in Views
     /\ \E verdict \in Verdicts :
          /\ verdict = "stamped" => ~Absent(j.view, j.text)
          /\ tree' = IF verdict = "stamped"
                        THEN [tree EXCEPT ![j.view] = [j.text EXCEPT !.stamp = j.seq]] ELSE tree
          /\ Goto(p, "leg", LegDone(j, verdict))
     /\ UNCHANGED <<journal, head, lock, crashes>>

\* The verify record and the stamped views, in one commit.
VerifyCommit(p) ==
  LET j == job[p]
      stamped == {v \in Views \cap DOMAIN j.legs : j.legs[v] = "stamped"}
  IN /\ pc[p] = "leg" /\ j.todo = {}
     /\ Commit(VerifyRecord(j.seq, j.legs))
     /\ head' = [v \in Views |-> IF v \in stamped THEN tree[v] ELSE head[v]]
     /\ lock' = Nobody
     /\ IF j.verb = "run" THEN Goto(p, "grade", j) ELSE Goto(p, "idle", Idle)
     /\ UNCHANGED <<tree, crashes>>

\* The end of --run: every absorbed view has a leg and every leg completed, those of
\* the no-ops too, or
\* the run is reverted. What the completed legs say decides the exit code only.
Grade(p) ==
  LET j == job[p]
  IN /\ pc[p] = "grade"
     /\ IF Absorbed(j.seq) \subseteq DOMAIN j.legs /\ \A v \in DOMAIN j.legs : j.legs[v] # "incomplete"
          THEN Goto(p, "idle", Idle)
          ELSE Goto(p, "undo", [Idle EXCEPT !.verb = "run", !.seq = j.seq])
     /\ UNCHANGED <<journal, head, tree, lock, crashes>>

-----------------------------------------------------------------------------
\* Reverting a run commit.

\* git revert -n cannot merge a view whose body has moved on, or delete a
\* created view that was stamped; it refuses a view with uncommitted changes.
CannotMerge(s, v) ==
  LET old == journal[s].before[v]
  IN \/ tree[v] # head[v]
     \/ /\ head[v] # old
        /\ head[v].body # s \/ (Absent(v, old) /\ head[v] # journal[s].wrote[v])

\* The stamp and the body lie in different hunks, or in hunks too close to merge.
MayConflict(s, v) == CannotMerge(s, v) \/ head[v] \notin {journal[s].before[v], journal[s].wrote[v]}

Undone(s, content) ==
  /\ head' = [v \in Views |-> IF v \in Absorbed(s) THEN content[v] ELSE head[v]]
  /\ tree' = [v \in Views |-> IF v \in Absorbed(s) THEN content[v] ELSE tree[v]]
  /\ Commit(RevertRecord(s, "reverted"))

\* Every file of the run is put back to the parent's bytes, whatever it holds now.
RestoreBytes(s) == Undone(s, journal[s].before)

\* The merge keeps a stamp made since the run.
MergeRevert(s) ==
  /\ \A v \in Absorbed(s) : ~CannotMerge(s, v)
  /\ Undone(s, [v \in Absorbed(s) |-> [journal[s].before[v] EXCEPT !.stamp = head[v].stamp]])

\* Mutated form: the conflict is journaled as a revert.
ConflictCalledReverted(s) ==
  /\ \E v \in Absorbed(s) : MayConflict(s, v)
  /\ Commit(RevertRecord(s, "reverted"))
  /\ UNCHANGED <<head, tree>>

\* Aborted, and journaled as "revert-failed".
ConflictedRevert(s) ==
  /\ \E v \in Absorbed(s) : MayConflict(s, v)
  /\ Commit(RevertRecord(s, "revert-failed"))
  /\ UNCHANGED <<head, tree>>

\* The automatic revert of --run, without a check before it.
AutoRevert(p) ==
  /\ pc[p] = "undo"
  /\ MergeRevert(job[p].seq) \/ ConflictedRevert(job[p].seq)
  /\ Goto(p, "idle", Idle)
  /\ UNCHANGED <<lock, crashes>>

\* A run whose newest verify record is complete and all stamped is not adjudicable.
FullyConfirmed(s) ==
  /\ Covering(s) # {}
  /\ LET legs == journal[Newest(Covering(s))].legs
     IN \A v \in DOMAIN legs : legs[v] = "stamped"

\* Mutated form: a verify stamp counts as later work.
MovedOnOrStamped(s) == {v \in Absorbed(s) : head[v] # journal[s].wrote[v]}

MovedOn(s) == {v \in Absorbed(s) : head[v].body # s}
StampedSince(s) == {v \in Absorbed(s) \ MovedOn(s) : head[v] # journal[s].wrote[v]}

\* Mutated forms: the last-word check ignores a view that moved on; a confirmed
\* run is adjudicable.
RevertMovedOn(p, s) ==
  /\ Start(p, "revert") /\ Cardinality(RevertRecords(s)) < MaxReverts
  /\ tree = head
  /\ s \notin Reverted
  /\ ~FullyConfirmed(s)
  /\ Goto(p, "restore", [Idle EXCEPT !.verb = "revert", !.seq = s, !.stamps = StampedSince(s) # {}])
  /\ UNCHANGED <<journal, head, tree, lock, crashes>>

RevertConfirmed(p, s) ==
  /\ Start(p, "revert") /\ Cardinality(RevertRecords(s)) < MaxReverts
  /\ tree = head
  /\ s \notin Reverted
  /\ MovedOn(s) = {}
  /\ Goto(p, "restore", [Idle EXCEPT !.verb = "revert", !.seq = s, !.stamps = StampedSince(s) # {}])
  /\ UNCHANGED <<journal, head, tree, lock, crashes>>

\* --revert up to its last check: a clean wiki, a run that is not reverted and
\* not fully confirmed, and that is the last word on its views.
Revert(p, s) ==
  /\ Start(p, "revert") /\ Cardinality(RevertRecords(s)) < MaxReverts
  /\ tree = head
  /\ s \notin Reverted
  /\ ~FullyConfirmed(s)
  /\ MovedOn(s) = {}
  /\ Goto(p, "restore", [Idle EXCEPT !.verb = "revert", !.seq = s, !.stamps = StampedSince(s) # {}])
  /\ UNCHANGED <<journal, head, tree, lock, crashes>>

\* The rest of --revert acts on what the checks read.
Restore(p) ==
  LET s == job[p].seq
  IN /\ pc[p] = "restore"
     /\ IF job[p].stamps THEN RestoreBytes(s) ELSE MergeRevert(s) \/ ConflictedRevert(s)
     /\ Goto(p, "idle", Idle)
     /\ UNCHANGED <<lock, crashes>>

\* --set-aside of the completed leg of one view or no-op that was not confirmed; one
\* ruling a leg. A ruling on a no-op pins no content, so that no baseline moves.
SetAside(p, s, v) ==
  /\ Start(p, "set-aside")
  /\ tree = head
  /\ s \notin Reverted
  /\ Adjudication(s, v) \notin {journal[r] : r \in DOMAIN journal}
  /\ Covering(s) # {}
  /\ LET r == Newest(Covering(s))
     IN ~Incomplete(r) /\ v \in DOMAIN journal[r].legs /\ journal[r].legs[v] # "stamped"
  /\ Commit(Adjudication(s, v))
  /\ UNCHANGED <<head, tree, lock, pc, job, crashes>>

\* --baseline-reset at the commit that the branch starts from, the only one here
\* that the engine did not write: a view that was there, and whose baseline has
\* never advanced, not even for a run that was reverted since.
ResetBaseline(p) ==
  /\ Start(p, "baseline-reset")
  /\ tree = head
  /\ \E W \in SUBSET {v \in Views \ NewViews : Approvals(v) \cup Resets(v) = {}} \ {{}} :
       Commit(BaselineReset(W))
  /\ UNCHANGED <<head, tree, lock, pc, job, crashes>>

-----------------------------------------------------------------------------
\* A session is killed; the lock file stays.
Crash(p) ==
  /\ crashes < MaxCrashes
  /\ pc[p] # "idle"
  /\ crashes' = crashes + 1
  /\ lock' = IF lock = p THEN Orphan ELSE lock
  /\ Goto(p, "idle", Idle)
  /\ UNCHANGED <<journal, head, tree>>

\* An orphan lock is broken by a run that passes --break-stale-lock (RunLock).
BreakStaleLock ==
  /\ lock = Orphan
  /\ lock' = Nobody
  /\ UNCHANGED <<journal, head, tree, pc, job, crashes>>

\* The operator discards uncommitted changes when no session is at work.
DiscardChanges ==
  /\ tree # head
  /\ \A p \in Sessions : pc[p] = "idle"
  /\ tree' = head
  /\ UNCHANGED <<journal, head, lock, pc, job, crashes>>

Step(p) == \/ Absorb(p) \/ AbsorbRefused(p)
           \/ VerifyStart(p) \/ VerifyRaises(p) \/ VerifyCommit(p)
           \/ AskNoOp(p) \/ NoOpAnswer(p) \/ SendPacket(p) \/ Answer(p)
           \/ Grade(p) \/ AutoRevert(p) \/ Restore(p)

Operator(p) == \/ \E s \in Runs : \/ Reverify(p, s) \/ Revert(p, s)
                                  \/ \E v \in Absorbed(s) \cup NoOps(s) : SetAside(p, s, v)
               \/ ResetBaseline(p)

Next == \/ \E p \in Sessions : Reconcile(p) \/ Step(p) \/ Operator(p) \/ Crash(p)
        \/ BreakStaleLock
        \/ DiscardChanges

Spec == Init /\ [][Next]_vars

RevertNewest(p) == Blocked /\ Revert(p, Newest(Runs))

\* Sessions run on. An operator who can discard uncommitted changes, or revert
\* the blocking run, again and again, does it one day.
FairSpec == /\ Spec
            /\ WF_vars(BreakStaleLock) /\ SF_vars(DiscardChanges)
            /\ \A p \in Sessions : WF_vars(Step(p)) /\ SF_vars(RevertNewest(p))

-----------------------------------------------------------------------------
TypeOK ==
  /\ \A s \in DOMAIN journal :
       journal[s].kind \in {"compile", "verify", "revert", "adjudication", "baseline-reset"}
  /\ \A s \in Runs : /\ journal[s].before \in [Absorbed(s) -> Content]
                     /\ journal[s].wrote \in [Absorbed(s) -> Content]
                     /\ NoOps(s) \subseteq Events
  /\ \A r \in DOMAIN journal \ (Runs \cup Seqs("baseline-reset")) : journal[r].over \in Runs
  /\ head \in [Views -> Content] /\ tree \in [Views -> Content]
  /\ lock \in Sessions \cup {Nobody, Orphan}
  /\ pc \in [Sessions -> {"idle", "absorb", "verify", "leg", "verdict", "grade", "undo", "restore"}]
  /\ \A p \in Sessions : pc[p] \in {"verify", "leg", "verdict", "grade", "undo", "restore"}
                            => job[p].seq \in Runs
  /\ crashes \in 0..MaxCrashes

AtWork(s) == \E p \in Sessions : pc[p] # "idle" /\ job[p].seq = s

\* Unverified absorption is a detected and blocking state, never a silent one:
\* a run without a terminal disposition is at work or blocks the next --run
\* (compile-driver.py:203-210).
UnverifiedBlocks == \A s \in Runs : Terminal(s) \/ AtWork(s) \/ s = Newest(Runs)

\* Types, and no silent absorption.
Inv == TypeOK /\ UnverifiedBlocks

\* A run that counts as verified has a completed leg on every absorbed view
\* (compile-driver.py:2048, "a leg on EVERY absorption"), unless the view's baseline
\* advanced past the run: a later run's stamp, a ruling on an older run, or a reset.
\* It has one on every no-op, which nothing excuses.
Judged(s, v) == \E r \in Covering(s) : /\ v \in DOMAIN journal[r].legs
                                       /\ journal[r].legs[v] # "incomplete"
LegOnEveryAbsorption ==
  \A s \in Runs : (Terminal(s) /\ s \notin Reverted /\ ~AtWork(s))
                     => /\ \A v \in Absorbed(s) : Judged(s, v) \/ \E r \in Stamps(v) : r > s
                        /\ \A e \in NoOps(s) : Judged(s, e)

\* The same without the rulings and the resets: a later stamp came of a packet that
\* held the text, they did not. It fails: a run that is verified again after one of
\* them gets a record without legs, and counts as verified.
LegOnEveryRun ==
  \A s \in Runs : (Terminal(s) /\ s \notin Reverted /\ ~AtWork(s))
                     => \A v \in Absorbed(s) : \/ Judged(s, v)
                                              \/ \E r \in Stamps(v) \cap Seqs("verify") : r > s

\* No view holds text of a reverted run.
RevertedTextGone == \A v \in Views : head[v].body \notin Reverted

\* "The stamp goes with the absorption it stamped" (compile-driver.py:1275).
RevertedStampGone == \A v \in Views : head[v].stamp \notin Reverted

\* A revert undoes its own run and no later work.
RevertUndoesOnlyItsRun ==
  [][\A s \in Runs : (s \in Reverted' /\ s \notin Reverted)
        => \A v \in Views : head'[v] # head[v] => v \in Absorbed(s) /\ head[v].body = s]_vars

\* A run all of whose views were confirmed, and whose no-ops were in every pass that
\* judged them, is not reverted. (A second pass asks for a confirmed no-op again, and
\* its answer counts.)
Confirmed(s) ==
  /\ Covering(s) # {}
  /\ \A v \in Absorbed(s) : \E r \in Covering(s) :
       v \in DOMAIN journal[r].legs /\ journal[r].legs[v] = "stamped"
  /\ \A e \in NoOps(s), r \in Covering(s) : journal[r].legs[e] = "stamped"
ConfirmedStands == [][\A s \in Runs : (s \in Reverted' /\ s \notin Reverted) => ~Confirmed(s)]_vars

\* A blocked branch is unblocked one day.
BlockedIsResolved == Blocked ~> ~Blocked

-----------------------------------------------------------------------------
Disposition(s) == IF s \in Reverted THEN "reverted" ELSE IF Terminal(s) THEN "verified" ELSE "open"

Ledger == INSTANCE RunLedger WITH ledger <- [s \in Runs |-> Disposition(s)]

\* The driver keeps the abstract ledger of runs.
ImplementsLedger == Ledger!Spec

Mutex == INSTANCE RunMutex WITH Procs <- Sessions, owner <- lock

\* A pass takes a lock that is free and gives back its own, and what a killed one
\* leaves is freed by a break alone (compile-v2.py:2955): the layer that RunLock implements.
ImplementsMutex == Mutex!Spec
=============================================================================
