--------------------------- MODULE RetirePublish ---------------------------
(***************************************************************************)
(* Retirements of wiki text: prepared by retire.py as commits that only a  *)
(* work ref holds, published by promote.py and trust.py, which move the    *)
(* branch to them, and rolled back by an inverse commit. A terminal runs   *)
(* one command at a time; a compile session commits to the same branch.    *)
(*                                                                         *)
(* Commits are immutable, so a commit stands for its proposal, its digest  *)
(* and its record. What is abstracted: which lines retire, signatures (a   *)
(* tag here is a promotion record or a signed tag), the choice of a mode.  *)
(***************************************************************************)
EXTENDS Naturals, Sequences, FiniteSets

CONSTANTS Views,
          Terminals,
          Quiet,         \* do sessions and publications keep out of each other's way?
          Synced,        \* does a person bring a lagging tree to the branch before a session?
          MembersAlone,  \* does an operator promote one member of a batch by its own digest?
          MaxMade,       \* bound: commits ever made
          MaxCrashes     \* bound: commands killed

ASSUME RetirePublishAssumption ==
  /\ Quiet \in BOOLEAN /\ Synced \in BOOLEAN /\ MembersAlone \in BOOLEAN
  /\ MaxMade \in Nat /\ MaxCrashes \in Nat

VARIABLES obj,       \* the commits, by number; 0 is the commit before them
          made,      \* numbers given out
          head,      \* the branch
          prepared,  \* commits that refs/retire/<seq> and refs/retire/batch/<id> name
          tags,      \* commits that a promotion record names
          tree,      \* the working tree
          session,   \* the compile session: the number and the view it has written
          pc, job,   \* the terminals
          crashes

vars == <<obj, made, head, prepared, tags, tree, session, pc, job, crashes>>

-----------------------------------------------------------------------------
\* Commits and trees. A view's text is the sequence of the commits whose text
\* it holds, the newest last; the journal maps a seq to the commit that wrote it.

Empty == [text |-> [v \in Views |-> << >>], journal |-> << >>]
TreeOf(c) == IF c = 0 THEN Empty ELSE obj[c].tree
Past(c) == IF c = 0 THEN {0} ELSE obj[c].past
Parent(c) == obj[c].parent

With(f, k, x) == [i \in DOMAIN f \cup {k} |-> IF i = k THEN x ELSE f[i]]
Written(t, v, s, c, text) == [text |-> [t.text EXCEPT ![v] = text], journal |-> With(t.journal, s, c)]

NewCommit(parent, kind, seq, view, of, batch, members, t) ==
  [parent |-> parent, past |-> Past(parent) \cup {made + 1}, kind |-> kind, seq |-> seq,
   view |-> view, of |-> of, batch |-> batch, members |-> members, tree |-> t]

Make(commit) == obj' = With(obj, made + 1, commit) /\ made' = made + 1

Is(c, kind) == c # 0 /\ obj[c].kind = kind
Records(c) == {x \in Past(c) : Is(x, "retire") \/ Is(x, "rollback")}
Next1(journal) == Cardinality(DOMAIN journal) + 1
NextSeq(c) == Next1(TreeOf(c).journal)
Contiguous(journal) == DOMAIN journal = 1..(Next1(journal) - 1)

\* A ref or a tag is named by the seq, that of a binder by the batch.
Name(x) == IF obj[x].kind = "binder" THEN obj[x].batch ELSE <<obj[x].seq>>
Taken(S, name) == \E x \in S : Name(x) = name
Members(x) == {obj[x].members[i] : i \in DOMAIN obj[x].members}
Binders == {x \in prepared : obj[x].kind = "binder"}

\* Mutated form: the members of the chain that are not on the branch yet.
ChainLeft(x) == IF Members(x) \subseteq Past(head) THEN obj[x].members
                ELSE LET IsLeft(m) == m \notin Past(head) IN SelectSeq(obj[x].members, IsLeft)

\* The chain C1..CN under a binder M, and the commit it was prepared on.
Chain(x) == obj[x].members
BaseOf(x) == IF obj[x].kind = "binder" THEN Parent(Chain(x)[1]) ELSE Parent(x)

-----------------------------------------------------------------------------
Idle == [cmd |-> "none", todo |-> << >>, old |-> 0, cur |-> 0, x |-> 0, views |-> << >>]

Goto(p, to, locals) == pc' = [pc EXCEPT ![p] = to] /\ job' = [job EXCEPT ![p] = locals]
Stop(p) == Goto(p, "idle", Idle)

NoSession == [id |-> 0, wrote |-> {}, seq |-> 0]
AtWork == session # NoSession
AllIdle == \A p \in Terminals : pc[p] = "idle"

Init == /\ obj = << >> /\ made = 0 /\ head = 0
        /\ prepared = {} /\ tags = {}
        /\ tree = Empty
        /\ session = NoSession
        /\ pc = [p \in Terminals |-> "idle"] /\ job = [p \in Terminals |-> Idle]
        /\ crashes = 0

-----------------------------------------------------------------------------
\* Preparing. The commit is built on the branch head, or on the member before
\* it, and its ref is created only if there is none of that name.

CanPropose(parent, v) ==
  /\ made < MaxMade
  /\ tree.text[v] = TreeOf(head).text[v]
  /\ Contiguous(TreeOf(parent).journal)
  /\ ~Taken(prepared, <<NextSeq(parent)>>)
  /\ \A x \in Records(parent) : obj[x].seq # NextSeq(parent)

Retirement(parent, v, batch) ==
  LET s == NextSeq(parent)
      t == TreeOf(parent)
  IN NewCommit(parent, "retire", s, v, 0, batch, << >>,
               Written(t, v, s, made + 1, Append(t.text[v], made + 1)))

Propose(p, v) ==
  /\ pc[p] = "idle"
  /\ CanPropose(head, v)
  /\ Make(Retirement(head, v, << >>))
  /\ prepared' = prepared \cup {made + 1}
  /\ UNCHANGED <<head, tags, tree, session, pc, job, crashes>>

\* propose_batch: the members one by one, each with its ref, then the binder.
\* The seqs of the batch are known, and its name free, before the first.
BatchName(base, n) == <<NextSeq(base), NextSeq(base) + n - 1>>

ProposeBatch(p, views) ==
  /\ pc[p] = "idle" /\ made + Len(views) < MaxMade
  /\ Contiguous(TreeOf(head).journal) /\ ~Taken(prepared, BatchName(head, Len(views)))
  /\ Goto(p, "member", [Idle EXCEPT !.cmd = "batch", !.old = head, !.cur = head,
                                    !.views = views])
  /\ UNCHANGED <<obj, made, head, prepared, tags, tree, session, crashes>>

Member(p) ==
  LET j == job[p]
      v == j.views[Len(j.todo) + 1]
  IN /\ pc[p] = "member" /\ CanPropose(j.cur, v)
     /\ Make(Retirement(j.cur, v, BatchName(j.old, Len(j.views))))
     /\ prepared' = prepared \cup {made + 1}
     /\ Goto(p, IF Len(j.todo) + 1 = Len(j.views) THEN "binder" ELSE "member",
             [j EXCEPT !.cur = made + 1, !.todo = Append(@, made + 1)])
     /\ UNCHANGED <<head, tags, tree, session, crashes>>

Binder(p) ==
  LET j == job[p]
  IN /\ pc[p] = "binder" /\ made < MaxMade
     /\ ~Taken(prepared, BatchName(j.old, Len(j.views)))
     /\ Make(NewCommit(j.cur, "binder", 0, j.views[1], 0, BatchName(j.old, Len(j.views)), j.todo, TreeOf(j.cur)))
     /\ prepared' = prepared \cup {made + 1}
     /\ Stop(p)
     /\ UNCHANGED <<head, tags, tree, session, crashes>>

\* A refusal on the way takes back the refs made so far.
BatchRefused(p) ==
  LET j == job[p]
  IN /\ \/ pc[p] = "member" /\ ~CanPropose(j.cur, j.views[Len(j.todo) + 1])
        \/ pc[p] = "binder" /\ Taken(prepared, BatchName(j.old, Len(j.views)))
     /\ prepared' = {x \in prepared : \A i \in DOMAIN j.todo : Name(x) # Name(j.todo[i])}
     /\ Stop(p)
     /\ UNCHANGED <<obj, made, head, tags, tree, session, crashes>>

-----------------------------------------------------------------------------
\* Leaving a preparation.

\* --discard of a retirement that no batch claims, or of a whole batch.
Claimed(x) == \/ obj[x].batch # << >>
              \/ \E b \in Binders : obj[b].batch[1] <= obj[x].seq /\ obj[x].seq <= obj[b].batch[2]

RefsOf(b) == {b} \cup {x \in prepared : \E m \in Members(b) : Name(x) = Name(m)}

Discard(p, x) ==
  /\ pc[p] = "idle" /\ x \in prepared
  /\ IF x \in Binders THEN prepared' = prepared \ RefsOf(x)
                      ELSE ~Claimed(x) /\ prepared' = prepared \ {x}
  /\ UNCHANGED <<obj, made, head, tags, tree, session, pc, job, crashes>>

\* --recover keeps what is prepared on the head: a binder with its members, or
\* a retirement of no batch. Everything else is published, stale or orphaned.
Recover(p) ==
  LET kept == {b \in Binders : BaseOf(b) = head}
      dropped == UNION {RefsOf(b) : b \in Binders \ kept}
      held == UNION {RefsOf(b) : b \in kept}
  IN /\ pc[p] = "idle"
     /\ prepared' = (prepared \ dropped) \cap
                      (held \cup {x \in prepared \ Past(head) :
                                    obj[x].batch = << >> /\ Parent(x) = head})
     /\ UNCHANGED <<obj, made, head, tags, tree, session, pc, job, crashes>>

-----------------------------------------------------------------------------
\* Publishing: promote.py writes the promotion record, checks, moves the branch
\* with a compare-and-swap, updates the working tree and drops the spent refs.

CleanOn(x) == LET t == TreeOf(head)
              IN /\ tree.text[obj[x].view] = t.text[obj[x].view]
                 /\ obj[x].seq \in DOMAIN tree.journal => obj[x].seq \in DOMAIN t.journal

Starts(p) == pc[p] = "idle" /\ (Quiet => ~AtWork)

\* A record of that name must be this proposal's.
TagFits(x) == \A y \in tags : Name(y) = Name(x) => y = x

Promote(p, c) ==
  /\ Starts(p)
  /\ c \in prepared \ Binders
  /\ obj[c].batch # << >> => MembersAlone
  /\ Parent(c) = head /\ CleanOn(c) /\ TagFits(c)
  /\ tags' = tags \cup {c}
  /\ Goto(p, "check", [Idle EXCEPT !.cmd = "promote", !.todo = <<c>>, !.old = head,
                                   !.cur = head, !.x = c])
  /\ UNCHANGED <<obj, made, head, prepared, tree, session, crashes>>

\* halt is the number of views after which the brake stops the batch; the binder
\* goes last, after all of them.
PromoteBatch(p, b, halt) ==
  LET todo == SubSeq(Chain(b), 1, halt)
  IN /\ Starts(p)
     /\ b \in Binders /\ halt \in 1..Len(Chain(b))
     /\ BaseOf(b) = head /\ TagFits(b)
     /\ \A m \in Members(b) : CleanOn(m)
     /\ tags' = tags \cup {b}
     /\ Goto(p, "check", [Idle EXCEPT !.cmd = "promote", !.old = head, !.cur = head, !.x = b,
                            !.todo = IF halt = Len(Chain(b)) THEN Append(todo, b) ELSE todo])
     /\ UNCHANGED <<obj, made, head, prepared, tree, session, crashes>>

\* trust.py --publish of a tagged retirement moves the branch and nothing else.
Publish(p, c) ==
  /\ Starts(p)
  /\ c \in tags /\ ~Is(c, "binder")
  /\ Goto(p, "check", [Idle EXCEPT !.cmd = "publish", !.todo = <<c>>, !.old = head,
                                   !.cur = head, !.x = c])
  /\ UNCHANGED <<obj, made, head, prepared, tags, tree, session, crashes>>

Refused(p) == Stop(p) /\ UNCHANGED <<obj, made, head, prepared, tags, tree, session, crashes>>

\* Neither a record nor a file of the branch has taken the seq.
Unused(x) == /\ \A y \in Records(head) : obj[y].seq # obj[x].seq
             /\ obj[x].seq \notin DOMAIN TreeOf(head).journal

\* Mutated form: the promotion record is enough.
Tagged(j) == j.x \in tags

\* check_publishable and its twin for batches, against the branch as it is now.
Publishable(j) == /\ j.x \in tags /\ BaseOf(j.x) = head
                  /\ \A i \in DOMAIN j.todo : Is(j.todo[i], "binder") \/ Unused(j.todo[i])

Check(p) ==
  LET j == job[p]
  IN /\ pc[p] = "check"
     /\ IF Publishable(j)
          THEN /\ Goto(p, "move", [j EXCEPT !.cur = head])
               /\ UNCHANGED <<obj, made, head, prepared, tags, tree, session, crashes>>
          ELSE Refused(p)

\* What follows the last move, or a move that was refused part of the way.
Landed(p, j) == IF j.cmd = "publish" THEN Stop(p) ELSE Goto(p, "sync", j)

\* update-ref with the old value: one commit, which is one view.
Move(p) ==
  LET j == job[p]
      c == j.todo[1]
      left == [j EXCEPT !.cur = c, !.todo = Tail(@)]
  IN /\ pc[p] = "move"
     /\ IF head = j.cur
          THEN /\ head' = c
               /\ IF left.todo = << >> THEN Landed(p, left) ELSE Goto(p, "move", left)
          ELSE /\ UNCHANGED head
               /\ IF Is(j.x, "binder") /\ j.cur # BaseOf(j.x) THEN Landed(p, j) ELSE Stop(p)
     /\ UNCHANGED <<obj, made, prepared, tags, tree, session, crashes>>

\* read-tree -m -u: paths that differ between the two commits follow, unless one
\* of them holds something else: then none does, and the command only says so.
ReadTree(old, new) ==
  LET a == TreeOf(old)
      b == TreeOf(new)
      At(j, s) == IF s \in DOMAIN j THEN j[s] ELSE 0
      Views1 == {v \in Views : a.text[v] # b.text[v]}
      Seqs1 == {s \in DOMAIN b.journal : At(a.journal, s) # b.journal[s]}
      Free == /\ \A v \in Views1 : tree.text[v] \in {a.text[v], b.text[v]}
              /\ \A s \in Seqs1 : At(tree.journal, s) \in {At(a.journal, s), b.journal[s]}
  IN tree' = IF Free
               THEN [text |-> [v \in Views |-> IF v \in Views1 THEN b.text[v] ELSE tree.text[v]],
                     journal |-> [s \in DOMAIN tree.journal \cup Seqs1 |->
                                    IF s \in Seqs1 THEN b.journal[s] ELSE tree.journal[s]]]
               ELSE tree

\* A promotion follows to the commit it published last, a rollback to the head.
SyncTree(p) ==
  LET j == job[p]
      to == IF j.cmd = "rollback" THEN head ELSE j.cur
  IN /\ pc[p] = "sync"
     /\ ReadTree(j.old, to)
     /\ Goto(p, "drop", [j EXCEPT !.old = to])
     /\ UNCHANGED <<obj, made, head, prepared, tags, session, crashes>>

\* Mutated form: the promotion record goes with the refs.
DropRefsAndTag(p) ==
  LET j == job[p]
  IN /\ pc[p] = "drop"
     /\ prepared' = prepared \ (IF Is(j.x, "binder") THEN RefsOf(j.x) ELSE {j.x})
     /\ tags' = tags \ {j.x}
     /\ IF j.views # << >> THEN Goto(p, "undo", j) ELSE Stop(p)
     /\ UNCHANGED <<obj, made, head, tree, session, crashes>>

\* The refs of a batch go by name, the ref of a retirement only if it is still its.
DropRefs(p) ==
  LET j == job[p]
  IN /\ pc[p] = "drop"
     /\ prepared' = prepared \ (IF Is(j.x, "binder")
                                  THEN RefsOf(j.x) \cup {x \in prepared : Name(x) = Name(j.x)}
                                  ELSE {j.x})
     /\ IF j.views # << >> THEN Goto(p, "undo", j) ELSE Stop(p)
     /\ UNCHANGED <<obj, made, head, tags, tree, session, crashes>>

-----------------------------------------------------------------------------
\* --rollback of what a digest names: the members of a tagged batch that are on
\* the branch, the newest first, or one published retirement; at most `last`.

Reversed(s) == [i \in DOMAIN s |-> s[Len(s) + 1 - i]]
OnBranch(x) == x \in Past(head)
Undoes(x) == IF Is(x, "binder") THEN Reversed(SelectSeq(obj[x].members, OnBranch)) ELSE <<x>>

Rollback(p, x, last) ==
  /\ Starts(p)
  /\ IF Is(x, "binder") THEN x \in tags ELSE x \in Records(head) /\ Is(x, "retire")
  /\ Undoes(x) # << >> /\ last \in 1..Len(Undoes(x))
  /\ Goto(p, "undo", [Idle EXCEPT !.cmd = "rollback", !.old = head,
                                  !.views = SubSeq(Undoes(x), 1, last)])
  /\ UNCHANGED <<obj, made, head, prepared, tags, tree, session, crashes>>

Inverse(m) ==
  LET s == NextSeq(head)
      v == obj[m].view
  IN NewCommit(head, "rollback", s, v, m, << >>, << >>,
               Written(TreeOf(head), v, s, made + 1, TreeOf(Parent(m)).text[v]))

\* Mutated form: the view may have moved past the retirement.
MayUndoAnyGeneration(m) ==
  /\ Is(m, "retire") /\ m \in Records(head)
  /\ \A x \in Records(head) : obj[x].of # m
  /\ tree.text[obj[m].view] = TreeOf(head).text[obj[m].view]
  /\ Contiguous(TreeOf(head).journal) /\ ~Taken(prepared, <<NextSeq(head)>>)

\* prepare_rollback: only the current generation of a view is rolled back, once.
MayUndo(m) ==
  /\ Is(m, "retire") /\ m \in Records(head)
  /\ \A x \in Records(head) : obj[x].of # m
  /\ TreeOf(head).text[obj[m].view] = TreeOf(m).text[obj[m].view]
  /\ tree.text[obj[m].view] = TreeOf(head).text[obj[m].view]
  /\ Contiguous(TreeOf(head).journal) /\ ~Taken(prepared, <<NextSeq(head)>>)

PrepareRollback(p) ==
  LET m == job[p].views[1]
  IN /\ pc[p] = "undo" /\ MayUndo(m) /\ made < MaxMade
     /\ Make(Inverse(m))
     /\ prepared' = prepared \cup {made + 1}
     /\ Goto(p, "name", [job[p] EXCEPT !.views = Tail(@), !.x = made + 1, !.todo = <<made + 1>>])
     /\ UNCHANGED <<head, tags, tree, session, crashes>>

\* The first refusal ends the command; what was rolled back stays so.
RollbackStops(p) ==
  /\ \/ pc[p] = "undo" /\ ~MayUndo(job[p].views[1])
     \/ pc[p] = "name" /\ Taken(tags, Name(job[p].x))
  /\ Refused(p)

TagRollback(p) ==
  /\ pc[p] = "name" /\ ~Taken(tags, Name(job[p].x))
  /\ tags' = tags \cup {job[p].x}
  /\ Goto(p, "check", job[p])
  /\ UNCHANGED <<obj, made, head, prepared, tree, session, crashes>>

-----------------------------------------------------------------------------
\* A compile session (CompileRun): it writes a view and the next record into the
\* working tree, later commits these two paths onto the branch. It does not look
\* whether the tree is that of the branch: a publication killed before its
\* read-tree leaves it behind, and so does trust.py --publish.

SessionWrites(v) ==
  /\ ~AtWork /\ made < MaxMade
  /\ Quiet => AllIdle
  /\ Synced => tree = TreeOf(head)
  /\ Contiguous(tree.journal)
  /\ made' = made + 1
  /\ session' = [id |-> made', wrote |-> {v}, seq |-> Next1(tree.journal)]
  /\ tree' = Written(tree, v, Next1(tree.journal), made', Append(tree.text[v], made'))
  /\ UNCHANGED <<obj, head, prepared, tags, pc, job, crashes>>

SessionCommits ==
  LET c == session.id
  IN \E v \in session.wrote :
       /\ obj' = With(obj, c, [parent |-> head, past |-> Past(head) \cup {c}, kind |-> "run",
                               seq |-> session.seq, view |-> v, of |-> 0, batch |-> << >>,
                               members |-> << >>,
                               tree |-> Written(TreeOf(head), v, session.seq, c, tree.text[v])])
       /\ head' = c
       /\ session' = NoSession
       /\ UNCHANGED <<made, prepared, tags, tree, pc, job, crashes>>

\* A terminal is killed.
Crash(p) ==
  /\ pc[p] # "idle" /\ crashes < MaxCrashes
  /\ crashes' = crashes + 1
  /\ Stop(p)
  /\ UNCHANGED <<obj, made, head, prepared, tags, tree, session>>

\* The operator brings the working tree to the branch (git reset --hard).
ResetTree ==
  /\ AllIdle /\ ~AtWork /\ tree # TreeOf(head)
  /\ tree' = TreeOf(head)
  /\ UNCHANGED <<obj, made, head, prepared, tags, session, pc, job, crashes>>

Command(p) == \/ \E v \in Views : Propose(p, v)
              \/ \E v, w \in Views : v # w /\ ProposeBatch(p, <<v, w>>)
              \/ Recover(p)
              \/ \E x \in prepared : Discard(p, x) \/ Promote(p, x)
              \/ \E b \in Binders : \E halt \in 1..2 : PromoteBatch(p, b, halt)
              \/ \E c \in tags : Publish(p, c)
              \/ \E x \in DOMAIN obj : \E last \in 1..2 : Rollback(p, x, last)

Step(p) == \/ Member(p) \/ Binder(p) \/ BatchRefused(p)
           \/ Check(p) \/ Move(p) \/ SyncTree(p) \/ DropRefs(p)
           \/ PrepareRollback(p) \/ RollbackStops(p) \/ TagRollback(p)

Next == \/ \E p \in Terminals : Command(p) \/ Step(p) \/ Crash(p)
        \/ \E v \in Views : SessionWrites(v)
        \/ SessionCommits \/ ResetTree

Spec == Init /\ [][Next]_vars

-----------------------------------------------------------------------------
TypeOK ==
  /\ made \in 0..MaxMade
  /\ DOMAIN obj \subseteq 1..made
  /\ head \in {0} \cup DOMAIN obj
  /\ prepared \subseteq DOMAIN obj /\ tags \subseteq DOMAIN obj
  /\ \A x, y \in prepared : Name(x) = Name(y) => x = y
  /\ \A x, y \in tags : Name(x) = Name(y) => x = y
  /\ session.id \in 0..made
  /\ pc \in [Terminals -> {"idle", "member", "binder", "check", "move", "sync", "drop",
                           "undo", "name"}]
  /\ crashes \in 0..MaxCrashes

\* The branch only moves forward: no publication loses a commit that another
\* terminal or session has put on it (promote.py:16, "fast-forwards the branch").
ForwardOnly == [][Past(head) \subseteq (Past(head))']_vars

\* The reader of retire_records_status: the record is on the branch as it was
\* published, under its own tag, or for a member under the tag of its batch.
Reads(c) == /\ obj[c].seq \in DOMAIN TreeOf(head).journal
            /\ TreeOf(head).journal[obj[c].seq] = c
            /\ IF obj[c].batch = << >> THEN c \in tags
                                       ELSE \E b \in tags : Is(b, "binder") /\ c \in Members(b)

\* What the publisher let onto the branch, the reader reads as published.
PublishedReads == \A c \in Records(head) : Reads(c)

\* Types, and a reader that agrees with the publisher.
Inv == TypeOK /\ PublishedReads

\* The remainder of a batch that stopped part of the way never publishes
\* (trust.py:1151, "the remainder never does"): a member goes onto the branch only
\* by a command that found the branch where the batch was prepared.
Published(m) == m \notin Past(head) /\ m \in (Past(head))'
RemainderStaysOut ==
  [][\A b \in DOMAIN obj : Is(b, "binder") =>
       \A m \in Members(b) : Published(m) =>
         \E p \in Terminals : pc[p] = "move" /\ job[p].old = Parent(obj[b].members[1])]_vars

-----------------------------------------------------------------------------
Stacks == INSTANCE Publication
            WITH Layers <- 1..MaxMade, text <- TreeOf(head).text,
                 retired <- {c \in Records(head) : Is(c, "retire")}

\* The published texts behave like stacks: a rollback brings back exactly what
\* its retirement covered, whatever was published in between.
ImplementsPublication == Stacks!Spec
=============================================================================
