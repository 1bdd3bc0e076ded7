----------------------------- MODULE CompileRun -----------------------------
(***************************************************************************)
(* The file and commit steps of the engine's run() and verify_run() and of *)
(* the driver's revert: what is in the working tree and what is in the     *)
(* newest commit when a step fails or the process is killed between two of *)
(* them. One session is at work; CompileDriver interleaves sessions.       *)
(***************************************************************************)
EXTENDS Naturals, FiniteSets

CONSTANTS Views,
          Tidy,        \* does the operator clear leftovers before the next verb?
          MayFail,     \* the kinds of record whose git commit may fail
          MaxRecords,  \* bound: records ever made
          MaxCrashes   \* bound: sessions killed

Kinds == {"compile", "verify", "annotation", "revert", "revert-failed"}

ASSUME CompileRunAssumption == /\ Tidy \in BOOLEAN
                               /\ MayFail \subseteq Kinds
                               /\ MaxRecords \in Nat /\ MaxCrashes \in Nat

VARIABLES tree,    \* the views in the working tree
          head,    \* the views in the newest commit
          jtree,   \* the journal in the working tree: records by seq
          jhead,   \* the journal in the newest commit
          made,    \* records made so far; each has its own number
          pc, job, crashes

vars == <<tree, head, jtree, jhead, made, pc, job, crashes>>

\* A view's text is known by the record of the run that wrote it, its stamp by
\* the verify record; 0 is what was there before the first run.
Content == [body : Nat, stamp : Nat]
Idle == [verb |-> "none", kind |-> "none", id |-> 0, seq |-> 0, at |-> 0,
         paths |-> {}, todo |-> {}, stamped |-> {}, complete |-> TRUE, old |-> << >>]

Clean == tree = head /\ jtree = jhead

-----------------------------------------------------------------------------
\* The journal, a function from the seqs of its files to their records.

Hash(r) == <<r.id, r.annotated>>
Size(j) == Cardinality(DOMAIN j)
Chained(j) == /\ DOMAIN j = 1..Size(j)
              /\ \A s \in DOMAIN j : j[s].prev = IF s = 1 THEN << >> ELSE Hash(j[s - 1])
With(j, s, r) == [q \in DOMAIN j \cup {s} |-> IF q = s THEN r ELSE j[q]]
Without(j, s) == [q \in DOMAIN j \ {s} |-> j[q]]

Runs(j) == {s \in DOMAIN j : j[s].kind = "compile"}
Reverted(j) == {j[s].over : s \in {q \in DOMAIN j : j[q].kind = "revert"}}
Covering(j, s) == {r \in DOMAIN j : j[r].kind = "verify" /\ j[r].over = s}
Terminal(j, s) == s \in Reverted(j) \/ \E r \in Covering(j, s) : j[r].complete
Newest(S) == CHOOSE s \in S : \A q \in S : q <= s

\* Mutated form: any verify record is a disposition.
BlockedUntilCovered(j) ==
  Runs(j) # {} /\ LET s == Newest(Runs(j)) IN s \notin Reverted(j) /\ Covering(j, s) = {}

\* Startup reconciliation.
Blocked(j) == Runs(j) # {} /\ ~Terminal(j, Newest(Runs(j)))

Absorbed(s) == DOMAIN jtree[s].wrote
Confirmed(s) == UNION {jtree[r].stamped : r \in Covering(jtree, s)}

Record(prev) ==
  [id |-> job.id, kind |-> job.kind, over |-> IF job.kind = "compile" THEN 0 ELSE job.seq,
   prev |-> prev, annotated |-> FALSE, stamped |-> job.stamped, complete |-> job.complete,
   before |-> IF job.kind = "compile" THEN [v \in job.paths |-> job.old[v]] ELSE << >>,
   wrote |-> IF job.kind = "compile" THEN [v \in job.paths |-> tree[v]] ELSE << >>]

-----------------------------------------------------------------------------
Goto(to, locals) == pc' = to /\ job' = locals
Stop == Goto("idle", Idle)

Init == /\ tree = [v \in Views |-> [body |-> 0, stamp |-> 0]]
        /\ head = tree
        /\ jtree = << >> /\ jhead = jtree
        /\ made = 0
        /\ pc = "idle" /\ job = Idle
        /\ crashes = 0

StartsOn == pc = "idle" /\ made < MaxRecords /\ (Tidy => Clean)

\* --run: the staged plan names the views, and reconciliation reads the journal
\* of the working tree.
Begin(W) ==
  /\ StartsOn
  /\ ~Blocked(jtree)
  /\ made' = made + 1
  /\ Goto("validate", [Idle EXCEPT !.verb = "run", !.kind = "compile", !.id = made',
                                   !.paths = W, !.todo = W, !.old = tree])
  /\ UNCHANGED <<tree, head, jtree, jhead, crashes>>

\* Mutated form: an item's text is written when the item validates.
ValidateAndWrite(v) ==
  /\ pc = "validate" /\ v \in job.todo
  /\ tree' = [tree EXCEPT ![v].body = job.id]
  /\ IF job.todo = {v} THEN Goto("write", [job EXCEPT !.todo = job.paths])
                       ELSE Goto("validate", [job EXCEPT !.todo = @ \ {v}])
  /\ UNCHANGED <<head, jtree, jhead, made, crashes>>

\* Every item validates before the first is written.
Validate(v) ==
  /\ pc = "validate" /\ v \in job.todo
  /\ IF job.todo = {v} THEN Goto("write", [job EXCEPT !.todo = job.paths])
                       ELSE Goto("validate", [job EXCEPT !.todo = @ \ {v}])
  /\ UNCHANGED <<tree, head, jtree, jhead, made, crashes>>

RefuseItem ==
  /\ pc = "validate"
  /\ Stop
  /\ UNCHANGED <<tree, head, jtree, jhead, made, crashes>>

WriteView(v) ==
  /\ pc = "write" /\ v \in job.todo
  /\ tree' = [tree EXCEPT ![v].body = job.id]
  /\ Goto(IF job.todo = {v} THEN "append" ELSE "write", [job EXCEPT !.todo = @ \ {v}])
  /\ UNCHANGED <<head, jtree, jhead, made, crashes>>

\* What the driver does when the engine raises: a run that was not absorbed
\* ends, one whose verification failed is reverted.
Raise == IF job.verb = "run" /\ job.kind \in {"verify", "annotation"}
           THEN Goto("undo", [Idle EXCEPT !.verb = "run", !.seq = job.seq])
           ELSE Stop

\* An I/O failure in the write loop or in a verify leg.
StepFails ==
  /\ pc \in {"write", "leg"}
  /\ Raise
  /\ UNCHANGED <<tree, head, jtree, jhead, made, crashes>>

\* append_record, which refuses to append to a chain that does not check.
AppendRecord ==
  LET s == Size(jtree) + 1
  IN /\ pc = "append"
     /\ IF Chained(jtree)
          THEN /\ jtree' = With(jtree, s, Record(IF s = 1 THEN << >> ELSE Hash(jtree[s - 1])))
               /\ Goto("commit", [job EXCEPT !.at = s,
                                             !.seq = IF job.kind = "compile" THEN s ELSE @])
          ELSE UNCHANGED jtree /\ Raise
     /\ UNCHANGED <<tree, head, jhead, made, crashes>>

\* Where a session goes from its commit. The verify legs of a run are those of
\* the views no earlier pass has confirmed.
Legs(s) == [Idle EXCEPT !.verb = job.verb, !.kind = "verify", !.seq = s,
                        !.todo = Absorbed(s) \ Confirmed(s)]

AfterCommit ==
  IF job.kind = "compile" THEN Goto("leg", Legs(job.seq))
  ELSE IF job.kind = "verify" /\ job.stamped # {}
    THEN Goto("annotate", [job EXCEPT !.kind = "annotation"])
  ELSE IF job.kind \in {"verify", "annotation"} /\ job.verb = "run" /\ ~job.complete
    THEN Goto("undo", [Idle EXCEPT !.verb = "run", !.seq = job.seq])
  ELSE Stop

CommitViews == head' = [v \in Views |-> IF v \in job.paths THEN tree[v] ELSE head[v]]

\* Mutated form: the record is left to a later commit.
CommitViewsOnly ==
  /\ pc = "commit"
  /\ CommitViews
  /\ AfterCommit
  /\ UNCHANGED <<tree, jtree, jhead, made, crashes>>

\* One commit of exactly the session's views and its record.
Commit ==
  /\ pc = "commit"
  /\ CommitViews
  /\ jhead' = With(jhead, job.at, jtree[job.at])
  /\ AfterCommit
  /\ UNCHANGED <<tree, jtree, made, crashes>>

CommitFails ==
  /\ pc = "commit" /\ job.kind \in MayFail
  /\ Raise
  /\ UNCHANGED <<tree, head, jtree, jhead, made, crashes>>

-----------------------------------------------------------------------------
\* One verify leg: a confirmed view is stamped in the working tree at once.
Leg(v) ==
  /\ pc = "leg" /\ v \in job.todo
  /\ \/ /\ tree' = [tree EXCEPT ![v].stamp = jtree[job.seq].id]
        /\ Goto("leg", [job EXCEPT !.todo = @ \ {v}, !.stamped = @ \cup {v}, !.paths = @ \cup {v}])
     \/ /\ \E completed \in BOOLEAN :
             Goto("leg", [job EXCEPT !.todo = @ \ {v}, !.complete = @ /\ completed])
        /\ UNCHANGED tree
  /\ UNCHANGED <<head, jtree, jhead, made, crashes>>

EndOfLegs ==
  /\ pc = "leg" /\ job.todo = {} /\ made < MaxRecords
  /\ made' = made + 1
  /\ Goto("append", [job EXCEPT !.id = made'])
  /\ UNCHANGED <<tree, head, jtree, jhead, crashes>>

\* Mutated form: the rewritten record is not committed.
AnnotateOnly ==
  /\ pc = "annotate"
  /\ jtree' = [jtree EXCEPT ![job.at].annotated = TRUE]
  /\ AfterCommit
  /\ UNCHANGED <<tree, head, jhead, made, crashes>>

\* The record is rewritten with the commit that carries it; the next step
\* commits the record again.
Annotate ==
  /\ pc = "annotate"
  /\ jtree' = [jtree EXCEPT ![job.at].annotated = TRUE]
  /\ Goto("commit", job)
  /\ UNCHANGED <<tree, head, jhead, made, crashes>>

Reverify(s) ==
  /\ StartsOn
  /\ s \in Runs(jtree) /\ ~Terminal(jtree, s)
  /\ Goto("leg", [Legs(s) EXCEPT !.verb = "reverify"])
  /\ UNCHANGED <<tree, head, jtree, jhead, made, crashes>>

-----------------------------------------------------------------------------
\* git revert -n of the run's commit takes the run's record out of the working
\* tree with its text; the views' stamps stay.
Mergeable(s) == /\ s \in DOMAIN jtree /\ jtree[s] = jhead[s]
                /\ \A v \in DOMAIN jhead[s].wrote :
                     tree[v] = head[v] /\ head[v].body = jhead[s].id

TakeBack(s) == [v \in Views |-> IF v \in DOMAIN jhead[s].wrote
                                THEN [tree[v] EXCEPT !.body = jhead[s].before[v].body]
                                ELSE tree[v]]

\* Mutated form: the views are left out of the commit.
RevertUncommitted ==
  LET s == job.seq
  IN /\ pc = "undo" /\ Mergeable(s)
     /\ tree' = TakeBack(s)
     /\ jtree' = Without(jtree, s)
     /\ Goto("restore", [job EXCEPT !.paths = {}])
     /\ UNCHANGED <<head, jhead, made, crashes>>

GitRevert ==
  LET s == job.seq
  IN /\ pc = "undo" /\ Mergeable(s)
     /\ tree' = TakeBack(s)
     /\ jtree' = Without(jtree, s)
     /\ Goto("restore", [job EXCEPT !.paths = DOMAIN jhead[s].wrote])
     /\ UNCHANGED <<head, jhead, made, crashes>>

\* A refused or conflicting revert is aborted. A stamp can lie too close to the
\* text to merge.
Conflicts(s) == ~Mergeable(s) \/ \E v \in DOMAIN jhead[s].wrote : head[v] # jhead[s].wrote[v]

GitConflict ==
  /\ pc = "undo" /\ Conflicts(job.seq)
  /\ made < MaxRecords
  /\ made' = made + 1
  /\ Goto("append", [job EXCEPT !.kind = "revert-failed", !.id = made'])
  /\ UNCHANGED <<tree, head, jtree, jhead, crashes>>

\* The bytes of the run's parent are written back, file by file.
RestoreView(v) ==
  /\ pc = "bytes" /\ v \in job.todo
  /\ tree' = [tree EXCEPT ![v] = jhead[job.seq].before[v]]
  /\ Goto(IF job.todo = {v} THEN "restore" ELSE "bytes", [job EXCEPT !.todo = @ \ {v}])
  /\ UNCHANGED <<head, jtree, jhead, made, crashes>>

\* The run's record comes back from its commit: the reverted run stays visible.
RestoreRecord ==
  /\ pc = "restore" /\ made < MaxRecords
  /\ made' = made + 1
  /\ jtree' = With(jtree, job.seq, jhead[job.seq])
  /\ Goto("append", [job EXCEPT !.kind = "revert", !.id = made'])
  /\ UNCHANGED <<tree, head, jhead, crashes>>

\* --revert of a run that is not fully confirmed and still the last word on its
\* views, from a clean tree.
FullyConfirmed(s) == /\ Covering(jtree, s) # {}
                     /\ LET r == jtree[Newest(Covering(jtree, s))]
                        IN r.complete /\ r.stamped = Absorbed(s)

Revert(s) ==
  /\ pc = "idle" /\ made < MaxRecords
  /\ Clean
  /\ s \in Runs(jtree) \ Reverted(jtree) /\ ~FullyConfirmed(s)
  /\ \A v \in Absorbed(s) : head[v].body = jtree[s].id
  /\ LET next == [Idle EXCEPT !.verb = "revert", !.seq = s, !.paths = Absorbed(s),
                              !.todo = Absorbed(s)]
     IN Goto(IF \A v \in Absorbed(s) : head[v] = jtree[s].wrote[v] THEN "undo" ELSE "bytes", next)
  /\ UNCHANGED <<tree, head, jtree, jhead, made, crashes>>

-----------------------------------------------------------------------------
Crash ==
  /\ pc # "idle" /\ crashes < MaxCrashes
  /\ crashes' = crashes + 1
  /\ Stop
  /\ UNCHANGED <<tree, head, jtree, jhead, made>>

\* The operator's two ways out: git checkout or stash of all leftovers, or the
\* commit of a whole run that was killed before its own.
DiscardLeftovers ==
  /\ pc = "idle" /\ ~Clean
  /\ tree' = head /\ jtree' = jhead
  /\ UNCHANGED <<head, jhead, made, pc, job, crashes>>

CommitLeftovers ==
  /\ pc = "idle" /\ DOMAIN jhead \subseteq DOMAIN jtree
  /\ \E s \in Runs(jtree) :
       /\ DOMAIN jtree \ DOMAIN jhead = {s} /\ \A q \in DOMAIN jhead : jtree[q] = jhead[q]
       /\ \A v \in Views : tree[v] = IF v \in Absorbed(s) THEN jtree[s].wrote[v] ELSE head[v]
  /\ head' = tree /\ jhead' = jtree
  /\ UNCHANGED <<tree, jtree, made, pc, job, crashes>>

Next == \/ \E W \in (SUBSET Views) \ {{}} : Begin(W)
        \/ \E v \in Views : Validate(v) \/ WriteView(v) \/ Leg(v) \/ RestoreView(v)
        \/ RefuseItem \/ StepFails \/ AppendRecord \/ Commit \/ CommitFails
        \/ EndOfLegs \/ Annotate
        \/ GitRevert \/ GitConflict \/ RestoreRecord
        \/ \E s \in DOMAIN jtree : Reverify(s) \/ Revert(s)
        \/ Crash \/ DiscardLeftovers \/ CommitLeftovers

Spec == Init /\ [][Next]_vars

-----------------------------------------------------------------------------
TypeOK ==
  /\ tree \in [Views -> Content] /\ head \in [Views -> Content]
  /\ DOMAIN jtree \subseteq 1..MaxRecords /\ DOMAIN jhead \subseteq 1..MaxRecords
  /\ made \in 0..MaxRecords
  /\ \A s \in DOMAIN jtree : jtree[s].kind \in Kinds \ {"annotation"} /\ jtree[s].id \in 1..made
  /\ pc \in {"idle", "validate", "write", "append", "commit", "leg", "annotate",
             "undo", "bytes", "restore"}
  /\ crashes \in 0..MaxCrashes

\* A refused plan leaves nothing behind (compile-v2.py:1777: a mid-plan
\* ValidationError "must leave NO earlier item's edit on disk").
RefusalLeavesNoTrace ==
  [][(pc = "validate" /\ pc' = "idle") => tree' = job.old /\ jtree' = jtree]_vars

\* Whoever clones the branch gets a journal that checks (compile-core.py:275).
CommittedChain == Chained(jhead)

\* Types, and a committed journal that checks.
Inv == TypeOK /\ CommittedChain

\* The write-ordering contract at every commit: a view's text is that of the
\* newest run the committed journal records for it and does not call reverted
\* (drill-crash-absorb.py: content, then the record, then one commit of both).
Writers(v) == {s \in Runs(jhead) \ Reverted(jhead) : v \in DOMAIN jhead[s].wrote}
HeadMatchesJournal ==
  \A v \in Views : head[v].body = IF Writers(v) = {} THEN 0 ELSE jhead[Newest(Writers(v))].id

\* No run starts over a committed run without a disposition: "a
\* detected-and-blocking state, never a silent one" (compile-driver.py:209).
NeverSilent ==
  [][(pc = "idle" /\ pc' = "validate") => \A s \in Runs(jhead) : Terminal(jhead, s)]_vars

-----------------------------------------------------------------------------
Log == [s \in 1..Size(jhead) |->
          [kind |-> jhead[s].kind, id |-> jhead[s].id, over |-> jhead[s].over]]

History == INSTANCE CommitHistory WITH Texts <- 1..MaxRecords, log <- Log,
                                       text <- [v \in Views |-> head[v].body]

\* The commits of a branch implement the abstract history.
ImplementsHistory == History!Spec
=============================================================================
