-------------------------- MODULE AttributionWalk --------------------------
(***************************************************************************)
(* What a verifier is not asked about one view: the history of the view on *)
(* a branch, and _attribute_view_history of compile-v2.py, which walks it  *)
(* from the last approved commit to the parent of the run under            *)
(* verification. Changes that the engine can account for are named to the  *)
(* verifier and not graded; grading starts after them.                     *)
(*                                                                         *)
(* Commit 1 is where the history starts. Commits that another verb makes   *)
(* of the view carry its journal record; the seq of a run is its commit.   *)
(***************************************************************************)
EXTENDS Naturals, Sequences, FiniteSets

CONSTANTS Pieces,      \* pieces of a view's text
          MaxCommits   \* bound on commits

ASSUME AttributionWalkAssumption == MaxCommits \in Nat \ {0}

VARIABLES commits,     \* the first-parent history
          flightPlan   \* is the view a flight plan? Anybody may edit those

historyvars == <<commits, flightPlan>>

-----------------------------------------------------------------------------
\* The view in a commit: is it there, its text, the cross_links of its frontmatter
\* and the stamp in its derivation region, which is no part of the body.
Views == [there : BOOLEAN, text : SUBSET Pieces, links : BOOLEAN, stamp : Nat]
Absent == [there |-> FALSE, text |-> {}, links |-> FALSE, stamp |-> 0]
Body(v) == [v EXCEPT !.stamp = 0]

\* over: the run that a revert, a verification or a ruling is about. post: the view
\* that the record says the commit holds.
Kinds == {"start", "compile", "verify", "set-aside", "driver-revert", "retire",
          "links", "edit", "merge"}

Tip == Len(commits)
View(k) == commits[k].view
Of(kind) == {k \in DOMAIN commits : commits[k].kind = kind}

RevertedRuns == {commits[k].over : k \in Of("driver-revert")}

\* Runs whose leg on the view was confirmed or set aside, and which stand.
Resolved == {commits[k].over : k \in Of("verify") \cup Of("set-aside")} \ RevertedRuns

\* A commit of the view as `new`, whose record says `post`.
AddCommit(kind, over, new, post) ==
  /\ Tip < MaxCommits
  /\ commits' = Append(commits, [kind |-> kind, over |-> over, view |-> new, post |-> post])
  /\ UNCHANGED flightPlan

Written(T) == [View(Tip) EXCEPT !.there = TRUE, !.text = T]

-----------------------------------------------------------------------------
\* The view that the history starts with, there or not.
HistoryInit ==
  /\ flightPlan \in BOOLEAN
  /\ \E v \in {Absent, [Absent EXCEPT !.there = TRUE]} :
       commits = << [kind |-> "start", over |-> 0, view |-> v, post |-> v] >>

\* A run absorbs into the view. Edits that were not committed are in the text it
\* starts from; what an editor saves after the record was built is in its commit only.
AbsorbView(T, saved) ==
  /\ T # View(Tip).text \/ ~View(Tip).there
  /\ AddCommit("compile", Tip + 1, Written(saved), Written(T))

\* A confirmed leg stamps the view; a ruling adds a record and leaves it alone.
Verify(s) ==
  /\ s \notin RevertedRuns /\ View(Tip).there
  /\ LET new == [View(Tip) EXCEPT !.stamp = s] IN AddCommit("verify", s, new, new)

SetAside(s) ==
  /\ s \notin RevertedRuns
  /\ AddCommit("set-aside", s, View(Tip), View(Tip))

RevertTo(s, new) == AddCommit("driver-revert", s, new, new)

\* --revert of a run that was the last word when that was checked; a commit may have
\* come in since. The parent's bytes are put back.
RestoreBytes(s) ==
  /\ s \notin RevertedRuns
  /\ \E k \in {Tip - 1, Tip} : k >= s /\ Body(View(k)) = Body(View(s))
  /\ RevertTo(s, View(s - 1))

\* The automatic revert merges, and keeps what other commits changed since.
MergeRevert(s) ==
  LET added == View(s).text \ View(s - 1).text
      removed == View(s - 1).text \ View(s).text
      merged == [View(Tip) EXCEPT !.text = (@ \ added) \cup removed]
  IN /\ s \notin RevertedRuns
     /\ IF View(s - 1).there THEN View(Tip).there /\ RevertTo(s, merged)
                             ELSE View(Tip) = View(s) /\ RevertTo(s, Absent)

\* A retirement moves a piece to the cold store.
Retire(p) ==
  LET new == Written(View(Tip).text \ {p})
  IN p \in View(Tip).text /\ AddCommit("retire", 0, new, new)

\* Step 4 of the compile skill writes the cross_links alone.
EditLinks ==
  LET new == [View(Tip) EXCEPT !.links = ~@]
  IN View(Tip).there /\ AddCommit("links", 0, new, new)

\* An edit outside the engine, or one that comes in through a merge.
Edit(kind, p) ==
  LET new == Written(IF p \in View(Tip).text THEN View(Tip).text \ {p}
                                              ELSE View(Tip).text \cup {p})
  IN AddCommit(kind, 0, new, new)

HistoryNext ==
  \/ \E T \in SUBSET Pieces : AbsorbView(T, T)
  \/ \E T \in SUBSET Pieces, p \in Pieces : AbsorbView(T \ {p}, T)
  \/ \E s \in Of("compile") : Verify(s) \/ SetAside(s) \/ RestoreBytes(s) \/ MergeRevert(s)
  \/ \E p \in Pieces : Retire(p) \/ Edit("edit", p) \/ Edit("merge", p)
  \/ EditLinks

HistorySpec == HistoryInit /\ [][HistoryNext]_historyvars

-----------------------------------------------------------------------------
(* The walk from commit i to commit j.                                     *)

\* git rev-list of the view: the commits that changed it.
Window(i, j) == {k \in (i + 1)..j : View(k) # View(k - 1)}

\* A reverted run's commit, whose revert comes later in the window.
RevertedInside(W, k) == \E r \in Of("driver-revert") \cap W : commits[r].over = k /\ r > k

\* Is the change of commit k one the engine can account for? open: the reverted
\* runs whose reverts have not come yet.
Accounted(W, open, k) ==
  LET c == commits[k]
      old == View(k - 1)
  IN CASE c.kind = "retire" -> c.view = c.post
       [] c.kind = "driver-revert" -> c.over \in open /\ c.view = View(c.over - 1)
       [] c.kind = "compile" -> IF k \in RevertedRuns THEN RevertedInside(W, k)
                                ELSE k \in Resolved /\ c.view = c.post
       [] c.kind = "merge" -> FALSE
       [] OTHER -> \/ Body(c.view) = Body(old)
                   \/ flightPlan
                   \/ c.view.there /\ old.there /\ c.view.text = old.text

\* from: where grading starts. safe: the same, when the first open run was met; span:
\* the view before that run. stop: the first change that is not accounted for. named:
\* the commits that the verifier is told the engine accounts for; kept: those before
\* the first open run.
Start(i) == [from |-> i, open |-> {}, safe |-> i, span |-> Absent, stop |-> 0,
             named |-> {}, kept |-> {}]

\* A walk that stops with runs open goes back to before the first of them.
Stop(w, k) == IF w.open = {} THEN [w EXCEPT !.stop = k]
              ELSE [w EXCEPT !.stop = k, !.from = w.safe, !.named = w.kept]

Opened(w, k) ==
  IF w.open # {} THEN [w EXCEPT !.open = @ \cup {k}, !.named = @ \cup {k}]
  ELSE [w EXCEPT !.open = {k}, !.safe = w.from, !.span = View(k - 1),
                 !.kept = w.named, !.named = @ \cup {k}]

\* Mutated form: runs and their reverts are released pair by pair.
ClosedEach(w, k) ==
  LET rest == w.open \ {commits[k].over}
      going == [w EXCEPT !.open = rest, !.named = @ \cup {k}]
  IN IF rest # {} THEN going ELSE [going EXCEPT !.from = k]

\* The last open run is closed by a revert; the view has to be what it was before
\* the first of them.
Closed(w, k) ==
  LET rest == w.open \ {commits[k].over}
      going == [w EXCEPT !.open = rest, !.named = @ \cup {k}]
  IN IF rest # {} THEN going
     ELSE IF View(k) # w.span THEN Stop(w, k)
     ELSE [going EXCEPT !.from = k]

Advance(W, w, k) ==
  IF w.stop # 0 THEN w
  ELSE IF ~Accounted(W, w.open, k) THEN Stop(w, k)
  ELSE IF commits[k].kind = "driver-revert" THEN Closed(w, k)
  ELSE IF k \in RevertedRuns THEN Opened(w, k)
  ELSE [w EXCEPT !.named = @ \cup {k}, !.from = IF w.open = {} THEN k ELSE @]

\* The walk after each commit up to j; git lists the ones in the window alone.
Progress(i, j) ==
  LET W == Window(i, j)
      upto[k \in i..j] == IF k = i THEN Start(i)
                          ELSE IF k \in W THEN Advance(W, upto[k - 1], k) ELSE upto[k - 1]
  IN upto

\* A revert that never comes stops the walk at its run.
Walk(i, j) ==
  LET w == Progress(i, j)[j]
  IN IF w.open # {} /\ w.stop = 0 THEN Stop(w, CHOOSE k \in w.open : \A q \in w.open : k <= q) ELSE w

-----------------------------------------------------------------------------
HistoryTypeOK ==
  /\ flightPlan \in BOOLEAN
  /\ commits \in Seq([kind : Kinds, over : Nat, view : Views, post : Views])
  /\ Tip \in 1..MaxCommits
  /\ \A k \in DOMAIN commits : commits[k].over <= k

\* Changes that somebody has answered for: a verified or set-aside run that stands, a
\* retirement, anybody's edit of a flight plan; and nothing else is in the commit.
AnsweredFor(k) ==
  /\ View(k) = commits[k].post
  /\ \/ k \in Resolved
     \/ commits[k].kind = "retire"
     \/ flightPlan /\ commits[k].kind = "edit"

\* The commits K lead from i to `to`: each starts from the bytes that the one before it
\* left, and changes the text only when somebody has answered for it. What lies between
\* two of them was undone to the byte.
LeadsTo(K, i, to) ==
  \A a \in K \cup {i} :
    /\ \A b \in K : a < b /\ (\A c \in K : c <= a \/ b <= c) =>
         /\ View(b - 1) = View(a)
         /\ View(b).there # View(a).there \/ View(b).text # View(a).text => AnsweredFor(b)
    /\ (\A c \in K : c <= a) => View(to) = View(a)

\* The gate never stops grading a change that the engine did not make and record
\* (OPERATIONS.md:286). Whatever the approved commit and the parent of the run under
\* verification: the view where grading starts is what it was at the approved commit,
\* changed only by commits that somebody has answered for and that the verifier is
\* told of; what is graded is not named as accounted for. The commit that stopped the
\* walk is graded, and a walk that nothing stopped has come to the parent's bytes.
NothingSlipsThrough ==
  \A j \in 1..Tip : \A i \in 1..j :
    LET w == Walk(i, j)
    IN /\ w.from \in i..j /\ w.named \subseteq (i + 1)..w.from
       /\ \E K \in SUBSET w.named : LeadsTo(K, i, w.from)
       /\ IF w.stop = 0 THEN View(w.from) = View(j) ELSE w.stop \in (w.from + 1)..j

\* Types, and nothing ungraded that nobody answered for.
WalkInv == HistoryTypeOK /\ NothingSlipsThrough
=============================================================================
