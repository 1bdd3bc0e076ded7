------------------------ MODULE RetirePublish_proofs ------------------------
(***************************************************************************)
(* Proofs about RetirePublish, for any number of views, terminals and      *)
(* commits, whatever crashes: no publication loses a commit of the branch; *)
(* names and types; the remainder of a stopped batch stays out; the reader *)
(* agrees with the publisher; and each view is a stack of texts.           *)
(*                                                                         *)
(* A move publishes the next commit of a chain, and it is refused unless   *)
(* the branch is where the chain says. IInv says that what a command has   *)
(* in hand is such a chain, from the moment a batch is prepared to its     *)
(* last move. BatchInv adds whose each commit is, and TreeInv what the     *)
(* tree of each commit holds.                                              *)
(***************************************************************************)
EXTENDS RetirePublish, TLAPS

\* The invariant, over any collection o of commits.
Kind(o, c) == c # 0 /\ o[c].kind = "binder"
Reached(o, c) == IF c = 0 THEN {0} ELSE o[c].past
Commits(o, s) == \A i \in DOMAIN s : s[i] \in DOMAIN o

\* The commits of s follow each other, the first on base.
Linked(o, s, base) == \A i \in DOMAIN s : o[s[i]].parent = IF i = 1 THEN base ELSE s[i - 1]

Root(o, x) == IF o[x].kind = "binder" THEN o[o[x].members[1]].parent ELSE o[x].parent

CommitOK(o, c) ==
  /\ o[c].parent \in {0} \cup DOMAIN o /\ Reached(o, o[c].parent) \subseteq o[c].past
  /\ Kind(o, c) => /\ \E S : o[c].members \in Seq(S)
                   /\ o[c].members # << >> /\ Commits(o, o[c].members)
                   /\ Linked(o, o[c].members, o[o[c].members[1]].parent)
                   /\ o[c].parent = o[c].members[Len(o[c].members)]

ObjOK(o, n) == n \in Nat /\ DOMAIN o \subseteq 1..n /\ \A c \in DOMAIN o : CommitOK(o, c)

Fields == {"cmd", "todo", "old", "cur", "x", "views"}
InHand(o, s) == (\E S : s \in Seq(S)) /\ Commits(o, s)

\* What a command at step `to` has in hand.
JobOK(o, to, j) ==
  /\ to \in {"member", "binder"} =>
       /\ InHand(o, j.todo) /\ j.old \in {0} \cup DOMAIN o /\ Linked(o, j.todo, j.old)
       /\ j.cur = IF j.todo = << >> THEN j.old ELSE j.todo[Len(j.todo)]
  /\ to = "binder" => j.todo # << >>
  /\ to = "name" => j.x \in DOMAIN o /\ o[j.x].kind # "binder" /\ j.todo = <<j.x>>
  /\ to = "check" => /\ j.x \in DOMAIN o
                     /\ InHand(o, j.todo) /\ j.todo # << >> /\ Linked(o, j.todo, Root(o, j.x))
  /\ to = "move" => InHand(o, j.todo) /\ j.todo # << >> /\ Linked(o, j.todo, j.cur)

RefsOK == /\ head \in {0} \cup DOMAIN obj
          /\ prepared \subseteq DOMAIN obj /\ tags \subseteq DOMAIN obj
          /\ session.wrote # {} => session.id \in (1..made) \ DOMAIN obj

ShapeOK == /\ DOMAIN pc = Terminals /\ DOMAIN job = Terminals
           /\ \A q \in Terminals : DOMAIN job[q] = Fields

JobsOK == \A q \in Terminals : JobOK(obj, pc[q], job[q])

IInv == ObjOK(obj, made) /\ RefsOK /\ ShapeOK /\ JobsOK

-----------------------------------------------------------------------------
\* Chains stay chains when one commit is taken off the front or put at the end.

LEMMA TailLinked ==
  ASSUME NEW o, NEW S, NEW s \in Seq(S), s # << >>, NEW base, Linked(o, s, base)
  PROVE  Linked(o, Tail(s), s[1])
<1>1. /\ DOMAIN Tail(s) = 1..(Len(s) - 1) /\ DOMAIN s = 1..Len(s) /\ Len(s) \in Nat \ {0}
      /\ \A i \in DOMAIN Tail(s) : Tail(s)[i] = s[i + 1]
  OBVIOUS
<1>2. ASSUME NEW i \in DOMAIN Tail(s)
      PROVE  o[Tail(s)[i]].parent = IF i = 1 THEN s[1] ELSE Tail(s)[i - 1]
  <2>1. i + 1 \in DOMAIN s /\ i + 1 # 1 /\ (i + 1) - 1 = i /\ Tail(s)[i] = s[i + 1]
    BY <1>1
  <2>2. o[s[i + 1]].parent = s[i]
    BY <2>1 DEF Linked
  <2>3. i # 1 => i - 1 \in DOMAIN Tail(s) /\ Tail(s)[i - 1] = s[i]
    BY <1>1
  <2> QED
    BY <2>1, <2>2, <2>3
<1> QED
  BY <1>2 DEF Linked

LEMMA TailCommits ==
  ASSUME NEW o, NEW S, NEW s \in Seq(S), s # << >>, Commits(o, s)
  PROVE  Tail(s) \in Seq(S) /\ Commits(o, Tail(s)) /\ s[1] \in DOMAIN o
  BY DEF Commits

LEMMA PrefixLinked ==
  ASSUME NEW o, NEW S, NEW s \in Seq(S), NEW k \in 1..Len(s), NEW base, Linked(o, s, base), Commits(o, s)
  PROVE  LET t == SubSeq(s, 1, k)
         IN /\ t \in Seq(S) /\ t # << >> /\ Len(t) = k /\ t[k] = s[k]
            /\ Linked(o, t, base) /\ Commits(o, t)
<1> DEFINE t == SubSeq(s, 1, k)
<1>1. /\ t \in Seq(S) /\ Len(t) = k /\ k \in Nat \ {0} /\ DOMAIN t = 1..k /\ DOMAIN s = 1..Len(s)
      /\ k <= Len(s) /\ Len(s) \in Nat
  OBVIOUS
<1>2. \A i \in 1..k : t[i] = s[i] /\ i \in DOMAIN s
  BY <1>1
<1>3. Linked(o, t, base)
  <2>1. ASSUME NEW i \in 1..k
        PROVE  o[t[i]].parent = IF i = 1 THEN base ELSE t[i - 1]
    <3>1. i # 1 => i - 1 \in 1..k
      BY <1>1
    <3> QED
      BY <1>2, <3>1 DEF Linked
  <2> QED
    BY <1>1, <2>1 DEF Linked
<1>4. Commits(o, t)
  BY <1>1, <1>2 DEF Commits
<1> HIDE DEF t
<1>5. t # << >> /\ t[k] = s[k]
  BY <1>1, <1>2
<1> QED
  BY <1>1, <1>3, <1>4, <1>5 DEF t

LEMMA AppendLinked ==
  ASSUME NEW o, NEW S, NEW s \in Seq(S), NEW base, NEW x \in DOMAIN o, Linked(o, s, base), Commits(o, s),
         o[x].parent = IF s = << >> THEN base ELSE s[Len(s)]
  PROVE  LET t == Append(s, x)
         IN /\ \E T : t \in Seq(T)
            /\ t # << >> /\ t[Len(t)] = x
            /\ Linked(o, t, base) /\ Commits(o, t)
<1> DEFINE t == Append(s, x)
<1>0. s \in Seq(S \cup {x})
  OBVIOUS
<1>1. /\ t \in Seq(S \cup {x}) /\ DOMAIN t = 1..(Len(s) + 1) /\ DOMAIN s = 1..Len(s)
      /\ Len(s) \in Nat /\ Len(t) = Len(s) + 1
      /\ t[Len(s) + 1] = x
      /\ \A i \in 1..Len(s) : t[i] = s[i]
  BY <1>0
<1> HIDE DEF t
<1>2. s = << >> <=> Len(s) = 0
  OBVIOUS
<1>3. ASSUME NEW i \in DOMAIN t
      PROVE  o[t[i]].parent = IF i = 1 THEN base ELSE t[i - 1]
  <2>1. CASE i = Len(s) + 1
    <3>1. CASE Len(s) = 0
      BY <1>1, <1>2, <2>1, <3>1
    <3>2. CASE Len(s) # 0
      <4>1. i # 1 /\ i - 1 = Len(s) /\ t[i - 1] = s[Len(s)] /\ t[i] = x
        BY <1>1, <2>1, <3>2
      <4> QED
        BY <1>2, <3>2, <4>1
    <3> QED
      BY <3>1, <3>2
  <2>2. CASE i # Len(s) + 1
    <3>1. i \in DOMAIN s /\ t[i] = s[i] /\ (i # 1 => i - 1 \in 1..Len(s))
      BY <1>1, <2>2
    <3> QED
      BY <1>1, <3>1 DEF Linked
  <2> QED
    BY <2>1, <2>2
<1>4. Linked(o, t, base)
  BY <1>3 DEF Linked
<1>5. Commits(o, t)
  BY <1>1 DEF Commits
<1>6. t # << >>
  BY <1>1
<1> QED
  BY <1>1, <1>4, <1>5, <1>6 DEF t
-----------------------------------------------------------------------------
\* Commits are only added: everything said of the old ones stays.

Grows(o, n) == \A c \in DOMAIN o : c \in DOMAIN n /\ n[c] = o[c]

\* A commit that may be added.
NewOK(o, c) ==
  /\ c.parent \in {0} \cup DOMAIN o /\ Reached(o, c.parent) \subseteq c.past
  /\ c.kind = "binder" => /\ InHand(o, c.members) /\ c.members # << >>
                          /\ Linked(o, c.members, o[c.members[1]].parent)
                          /\ c.parent = c.members[Len(c.members)]

LEMMA ChainStays ==
  ASSUME NEW o, NEW n, Grows(o, n), NEW s, NEW base, Commits(o, s)
  PROVE  /\ Commits(n, s)
         /\ Linked(o, s, base) => Linked(n, s, base)
  BY DEF Grows, Commits, Linked

LEMMA CommitStays ==
  ASSUME NEW o, NEW n, Grows(o, n), 0 \notin DOMAIN o, NEW c \in DOMAIN o, CommitOK(o, c)
  PROVE  CommitOK(n, c) /\ Root(n, c) = Root(o, c)
<1>1. c \in DOMAIN n /\ n[c] = o[c]
  BY DEF Grows
<1>2. o[c].parent \in {0} \cup DOMAIN n /\ Reached(n, o[c].parent) \subseteq o[c].past
  BY DEF CommitOK, Reached, Grows
<1>3. CASE o[c].kind = "binder"
  <2> DEFINE s == o[c].members
  <2>1. PICK S : s \in Seq(S)
    BY <1>3 DEF CommitOK, Kind
  <2>2. s # << >> /\ Commits(o, s) /\ Linked(o, s, o[s[1]].parent) /\ o[c].parent = s[Len(s)]
    BY <1>3 DEF CommitOK, Kind
  <2>3. s[1] \in DOMAIN o
    <3> HIDE DEF s
    <3>1. 1 \in DOMAIN s
      BY <2>1, <2>2
    <3> QED
      BY <2>2, <3>1 DEF Commits
  <2>4. n[s[1]] = o[s[1]]
    BY <2>3 DEF Grows
  <2>5. Commits(n, s) /\ Linked(n, s, n[s[1]].parent)
    BY <2>2, <2>4, ChainStays
  <2> QED
    BY <1>1, <1>2, <1>3, <2>1, <2>2, <2>4, <2>5 DEF CommitOK, Root
<1>4. CASE o[c].kind # "binder"
  BY <1>1, <1>2, <1>4 DEF CommitOK, Kind, Root
<1> QED
  BY <1>3, <1>4

LEMMA JobStays ==
  ASSUME NEW o, NEW n, Grows(o, n), NEW m, ObjOK(o, m), NEW to, NEW j, JobOK(o, to, j)
  PROVE  JobOK(n, to, j)
<1>1. 0 \notin DOMAIN o
  BY DEF ObjOK
<1>2. \A c \in DOMAIN o : Root(n, c) = Root(o, c) /\ c \in DOMAIN n /\ n[c] = o[c]
  BY <1>1, CommitStays DEF ObjOK, Grows
<1>3. \A base : InHand(o, j.todo) => InHand(n, j.todo) /\ (Linked(o, j.todo, base) => Linked(n, j.todo, base))
  BY ChainStays DEF InHand
<1>4. to \in {"member", "binder"} =>
       /\ InHand(n, j.todo) /\ j.old \in {0} \cup DOMAIN n /\ Linked(n, j.todo, j.old)
       /\ j.cur = IF j.todo = << >> THEN j.old ELSE j.todo[Len(j.todo)]
  BY <1>2, <1>3 DEF JobOK
<1>5. to = "name" => j.x \in DOMAIN n /\ n[j.x].kind # "binder" /\ j.todo = <<j.x>>
  BY <1>2 DEF JobOK
<1>6. to = "check" => /\ j.x \in DOMAIN n
                     /\ InHand(n, j.todo) /\ j.todo # << >> /\ Linked(n, j.todo, Root(n, j.x))
  BY <1>2, <1>3 DEF JobOK
<1>7. to = "move" => InHand(n, j.todo) /\ j.todo # << >> /\ Linked(n, j.todo, j.cur)
  BY <1>3 DEF JobOK
<1> QED
  BY <1>4, <1>5, <1>6, <1>7 DEF JobOK

LEMMA Added ==
  ASSUME NEW o, NEW m, ObjOK(o, m), NEW k, k \in Nat, k >= m, NEW i, i \in 1..k, i \notin DOMAIN o,
         NEW c, NEW n, n = With(o, i, c), NewOK(o, c)
  PROVE  /\ ObjOK(n, k) /\ Grows(o, n)
         /\ DOMAIN n = DOMAIN o \cup {i} /\ n[i] = c
<1>1. DOMAIN n = DOMAIN o \cup {i} /\ n[i] = c /\ Grows(o, n)
  BY DEF With, Grows
<1>2. 0 \notin DOMAIN o /\ m \in Nat /\ DOMAIN n \subseteq 1..k
  BY <1>1 DEF ObjOK
<1>3. \A d \in DOMAIN o : CommitOK(n, d)
  BY <1>1, <1>2, CommitStays DEF ObjOK
<1>4. CommitOK(n, i)
  <2>1. c.parent \in {0} \cup DOMAIN n /\ Reached(n, c.parent) \subseteq c.past
    BY <1>1 DEF Reached, Grows, NewOK
  <2>2. ASSUME c.kind = "binder"
        PROVE  /\ \E S : c.members \in Seq(S)
               /\ c.members # << >> /\ Commits(n, c.members)
               /\ Linked(n, c.members, n[c.members[1]].parent)
               /\ c.parent = c.members[Len(c.members)]
    <3> DEFINE s == c.members
    <3>1. PICK S : s \in Seq(S)
      BY <2>2 DEF InHand, NewOK
    <3>2. s # << >> /\ Commits(o, s) /\ Linked(o, s, o[s[1]].parent)
      BY <2>2 DEF InHand, NewOK
    <3>3. s[1] \in DOMAIN o
      <4> HIDE DEF s
      <4>1. 1 \in DOMAIN s
        BY <3>1, <3>2
      <4> QED
        BY <3>2, <4>1 DEF Commits
    <3>4. n[s[1]] = o[s[1]]
      BY <1>1, <3>3 DEF Grows
    <3>5. Commits(n, s) /\ Linked(n, s, n[s[1]].parent)
      BY <1>1, <3>2, <3>4, ChainStays
    <3> QED
      BY <2>2, <3>1, <3>2, <3>5 DEF NewOK
  <2> QED
    BY <1>1, <2>1, <2>2 DEF CommitOK, Kind
<1> QED
  BY <1>1, <1>2, <1>3, <1>4 DEF ObjOK
-----------------------------------------------------------------------------
\* One step.

LEMMA Going ==
  ASSUME IInv, Grows(obj, obj'), NEW p \in Terminals, NEW to, NEW l, DOMAIN l = Fields,
         pc' = [pc EXCEPT ![p] = to], job' = [job EXCEPT ![p] = l], JobOK(obj', to, l)
  PROVE  JobsOK' /\ ShapeOK'
<1>1. /\ DOMAIN pc' = Terminals /\ DOMAIN job' = Terminals /\ pc'[p] = to /\ job'[p] = l
      /\ \A q \in Terminals \ {p} : pc'[q] = pc[q] /\ job'[q] = job[q]
  BY DEF IInv, ShapeOK
<1>2. \A q \in Terminals : JobOK(obj', pc[q], job[q])
  BY JobStays DEF IInv, JobsOK
<1>3. \A q \in Terminals : JobOK(obj', pc'[q], job'[q])
  BY <1>1, <1>2
<1> QED
  BY <1>1, <1>3 DEF IInv, ShapeOK, JobsOK

LEMMA Waiting ==
  ASSUME IInv, Grows(obj, obj'), UNCHANGED <<pc, job>>
  PROVE  JobsOK' /\ ShapeOK'
<1>1. \A q \in Terminals : JobOK(obj', pc[q], job[q])
  BY JobStays DEF IInv, JobsOK
<1> QED
  BY <1>1 DEF IInv, ShapeOK, JobsOK

LEMMA NothingInHand ==
  ASSUME NEW o, NEW j, NEW to \in {"idle", "sync", "drop", "undo"}
  PROVE  JobOK(o, to, j)
  BY DEF JobOK

LEMMA Stopping ==
  ASSUME IInv, Grows(obj, obj'), NEW p \in Terminals, Stop(p)
  PROVE  JobsOK' /\ ShapeOK'
<1>1. pc' = [pc EXCEPT ![p] = "idle"] /\ job' = [job EXCEPT ![p] = Idle] /\ DOMAIN Idle = Fields
  BY DEF Stop, Goto, Idle, Fields
<1> QED
  BY <1>1, Going, NothingInHand

LEMMA SameObj ==
  ASSUME IInv, UNCHANGED <<obj, made>>
  PROVE  ObjOK(obj', made') /\ Grows(obj, obj')
  BY DEF IInv, Grows

LEMMA Making ==
  ASSUME IInv, NEW c, obj' = With(obj, made + 1, c), made' = made + 1,
         NewOK(obj, c),
         head' = head, tags' = tags, session' = session, prepared' = prepared \cup {made + 1}
  PROVE  /\ ObjOK(obj', made') /\ Grows(obj, obj') /\ RefsOK'
         /\ made + 1 \in DOMAIN obj' /\ obj'[made + 1] = c
<1>1. /\ made \in Nat /\ made + 1 \in Nat /\ made + 1 >= made /\ made + 1 \in 1..(made + 1)
      /\ made + 1 \notin DOMAIN obj
  BY DEF IInv, ObjOK
<1>2. DOMAIN obj' = DOMAIN obj \cup {made + 1} /\ obj'[made + 1] = c
  BY DEF With
<1>3. ASSUME NEW i, i = made + 1
      PROVE  ObjOK(obj', i) /\ Grows(obj, obj')
  <2>1. ObjOK(obj, made) /\ i \in Nat /\ i >= made /\ i \in 1..i /\ i \notin DOMAIN obj
    BY <1>1, <1>3 DEF IInv
  <2>2. obj' = With(obj, i, c)
    BY <1>3
  <2> QED
    BY <2>1, <2>2, Added
<1>4. ObjOK(obj', made') /\ Grows(obj, obj')
  BY <1>3
<1>5. RefsOK'
  BY <1>1, <1>2 DEF IInv, RefsOK, ObjOK
<1> QED
  BY <1>2, <1>4, <1>5

\* What a preparing command holds as its tip is a commit.
LEMMA TipIsCommit ==
  ASSUME NEW o, NEW j, JobOK(o, "member", j)
  PROVE  j.cur \in {0} \cup DOMAIN o
<1>1. CASE j.todo = << >>
  BY <1>1 DEF JobOK
<1>2. CASE j.todo # << >>
  <2>1. PICK S : j.todo \in Seq(S)
    BY DEF JobOK, InHand
  <2>2. Len(j.todo) \in DOMAIN j.todo
    BY <1>2, <2>1
  <2> QED
    BY <1>2, <2>2 DEF JobOK, InHand, Commits
<1> QED
  BY <1>1, <1>2

LEMMA SingleOK ==
  ASSUME NEW o, NEW x \in DOMAIN o, o[x].kind # "binder"
  PROVE  /\ InHand(o, <<x>>) /\ <<x>> # << >>
         /\ Linked(o, <<x>>, Root(o, x))
<1>1. <<x>> \in Seq({x}) /\ DOMAIN <<x>> = {1} /\ <<x>>[1] = x
  OBVIOUS
<1> QED
  BY <1>1 DEF InHand, Commits, Linked, Root

-----------------------------------------------------------------------------
\* The commands that prepare.

LEMMA ProposeOK ==
  ASSUME IInv, NEW p \in Terminals, NEW v \in Views, Propose(p, v)
  PROVE  IInv'
<1> DEFINE c == Retirement(head, v, << >>)
<1>1. NewOK(obj, c)
  BY DEF IInv, RefsOK, NewOK, Retirement, NewCommit, Reached, Past
<1>2. /\ obj' = With(obj, made + 1, c) /\ made' = made + 1
      /\ head' = head /\ tags' = tags /\ session' = session /\ prepared' = prepared \cup {made + 1}
      /\ UNCHANGED <<pc, job>>
  BY DEF Propose, Make
<1> HIDE DEF c
<1>3. ObjOK(obj', made') /\ Grows(obj, obj') /\ RefsOK'
  BY <1>1, <1>2, Making
<1> QED
  BY <1>2, <1>3, Waiting DEF IInv

LEMMA ProposeBatchOK ==
  ASSUME IInv, NEW p \in Terminals, NEW views, ProposeBatch(p, views)
  PROVE  IInv'
<1> DEFINE l == [Idle EXCEPT !.cmd = "batch", !.old = head, !.cur = head, !.views = views]
<1>1. ObjOK(obj', made') /\ Grows(obj, obj') /\ RefsOK'
  BY SameObj DEF ProposeBatch, IInv, RefsOK
<1>2. l.todo = << >> /\ l.old = head /\ l.cur = head /\ DOMAIN l = Fields
  BY DEF Idle, Fields
<1>3. pc' = [pc EXCEPT ![p] = "member"] /\ job' = [job EXCEPT ![p] = l] /\ obj' = obj
  BY DEF ProposeBatch, Goto
<1> HIDE DEF l
<1>4. << >> \in Seq({}) /\ DOMAIN << >> = {}
  OBVIOUS
<1>5. JobOK(obj', "member", l)
  BY <1>2, <1>3, <1>4 DEF JobOK, InHand, Commits, Linked, IInv, RefsOK
<1> QED
  BY <1>1, <1>2, <1>3, <1>5, Going DEF IInv

LEMMA MemberOK ==
  ASSUME IInv, NEW p \in Terminals, Member(p)
  PROVE  IInv'
<1> DEFINE j == job[p]
           v == j.views[Len(j.todo) + 1]
           c == Retirement(j.cur, v, BatchName(j.old, Len(j.views)))
           l == [j EXCEPT !.cur = made + 1, !.todo = Append(@, made + 1)]
           to == IF Len(j.todo) + 1 = Len(j.views) THEN "binder" ELSE "member"
<1>1. /\ pc[p] = "member" /\ obj' = With(obj, made + 1, c) /\ made' = made + 1
      /\ head' = head /\ tags' = tags /\ session' = session /\ prepared' = prepared \cup {made + 1}
      /\ pc' = [pc EXCEPT ![p] = to] /\ job' = [job EXCEPT ![p] = l]
  BY DEF Member, Make, Goto
<1>2. DOMAIN j = Fields /\ JobOK(obj, "member", j)
  BY <1>1 DEF IInv, ShapeOK, JobsOK
<1>3. j.cur \in {0} \cup DOMAIN obj
  BY <1>2, TipIsCommit
<1>4. NewOK(obj, c) /\ c.parent = j.cur
  BY <1>3 DEF NewOK, Retirement, NewCommit, Reached, Past
<1>5. /\ DOMAIN l = Fields /\ l.cur = made + 1 /\ l.old = j.old
      /\ l.todo = Append(j.todo, made + 1) /\ to \in {"member", "binder"}
  BY <1>2 DEF Fields
<1> HIDE DEF c, l, to
<1>6. /\ ObjOK(obj', made') /\ Grows(obj, obj') /\ RefsOK'
      /\ made + 1 \in DOMAIN obj' /\ obj'[made + 1] = c
  BY <1>1, <1>4, Making
<1>7. JobOK(obj', "member", j)
  BY <1>2, <1>6, JobStays DEF IInv
<1> HIDE DEF j
<1>8. PICK S : j.todo \in Seq(S)
  BY <1>7 DEF JobOK, InHand
<1>9. ASSUME NEW x, x = made + 1
      PROVE  /\ \E T : Append(j.todo, x) \in Seq(T)
             /\ Append(j.todo, x) # << >> /\ Append(j.todo, x)[Len(Append(j.todo, x))] = x
             /\ Linked(obj', Append(j.todo, x), j.old) /\ Commits(obj', Append(j.todo, x))
  <2>1. x \in DOMAIN obj' /\ obj'[x].parent = IF j.todo = << >> THEN j.old ELSE j.todo[Len(j.todo)]
    BY <1>4, <1>6, <1>7, <1>9 DEF JobOK
  <2>2. Linked(obj', j.todo, j.old) /\ Commits(obj', j.todo)
    BY <1>7 DEF JobOK, InHand
  <2> QED
    BY <1>8, <2>1, <2>2, AppendLinked
<1>10. /\ \E T : l.todo \in Seq(T)
       /\ l.todo # << >> /\ l.todo[Len(l.todo)] = l.cur
       /\ Linked(obj', l.todo, l.old) /\ Commits(obj', l.todo)
  BY <1>5, <1>9
<1>11. j.old \in {0} \cup DOMAIN obj'
  BY <1>7 DEF JobOK
<1>12. JobOK(obj', to, l)
  BY <1>5, <1>10, <1>11 DEF JobOK, InHand
<1> QED
  BY <1>1, <1>5, <1>6, <1>12, Going DEF IInv

LEMMA BinderOK ==
  ASSUME IInv, NEW p \in Terminals, Binder(p)
  PROVE  IInv'
<1> DEFINE j == job[p]
           c == NewCommit(j.cur, "binder", 0, j.views[1], 0, BatchName(j.old, Len(j.views)),
                          j.todo, TreeOf(j.cur))
<1>1. /\ pc[p] = "binder" /\ obj' = With(obj, made + 1, c) /\ made' = made + 1
      /\ head' = head /\ tags' = tags /\ session' = session /\ prepared' = prepared \cup {made + 1}
      /\ Stop(p)
  BY DEF Binder, Make
<1>2. JobOK(obj, "binder", j)
  BY <1>1 DEF IInv, JobsOK
<1>3. JobOK(obj, "member", j) /\ j.todo # << >>
  BY <1>2 DEF JobOK
<1>4. j.cur \in {0} \cup DOMAIN obj
  BY <1>3, TipIsCommit
<1>5. /\ c.parent = j.cur /\ c.members = j.todo /\ Reached(obj, c.parent) \subseteq c.past
  BY DEF NewCommit, Reached, Past
<1> HIDE DEF c, j
<1>6. /\ InHand(obj, j.todo) /\ Linked(obj, j.todo, j.old) /\ j.cur = j.todo[Len(j.todo)]
  BY <1>3 DEF JobOK
<1>7. obj[j.todo[1]].parent = j.old
  <2>1. PICK S : j.todo \in Seq(S)
    BY <1>6 DEF InHand
  <2>2. 1 \in DOMAIN j.todo
    BY <1>3, <2>1
  <2> QED
    BY <1>6, <2>2 DEF Linked
<1>8. NewOK(obj, c)
  BY <1>3, <1>4, <1>5, <1>6, <1>7 DEF NewOK
<1>9. ObjOK(obj', made') /\ Grows(obj, obj') /\ RefsOK'
  BY <1>1, <1>8, Making
<1> QED
  BY <1>1, <1>9, Stopping DEF IInv

\* The commands that only drop refs or change the working tree.
LEMMA DroppingOK ==
  ASSUME IInv, UNCHANGED <<obj, made, head, tags, session>>, prepared' \subseteq prepared
  PROVE  ObjOK(obj', made') /\ Grows(obj, obj') /\ RefsOK'
  BY SameObj DEF IInv, RefsOK

LEMMA QuietOK ==
  ASSUME IInv, NEW p \in Terminals,
         \/ BatchRefused(p) \/ Crash(p) \/ RollbackStops(p)
         \/ Recover(p) \/ (\E x \in prepared : Discard(p, x))
         \/ ResetTree
  PROVE  IInv'
<1>1. CASE BatchRefused(p) \/ Crash(p) \/ RollbackStops(p)
  <2>1. UNCHANGED <<obj, made, head, tags, session>> /\ prepared' \subseteq prepared /\ Stop(p)
    BY <1>1 DEF BatchRefused, Crash, RollbackStops, Refused
  <2> QED
    BY <2>1, DroppingOK, Stopping DEF IInv
<1>2. CASE Recover(p) \/ (\E x \in prepared : Discard(p, x)) \/ ResetTree
  <2>1. UNCHANGED <<obj, made, head, tags, session, pc, job>> /\ prepared' \subseteq prepared
    BY <1>2 DEF Recover, Discard, ResetTree
  <2> QED
    BY <2>1, DroppingOK, Waiting DEF IInv
<1> QED
  BY <1>1, <1>2

-----------------------------------------------------------------------------
\* The commands that publish.

LEMMA TaggingOK ==
  ASSUME IInv, UNCHANGED <<obj, made, head, prepared, session>>,
         NEW x \in DOMAIN obj, tags' \subseteq tags \cup {x}
  PROVE  ObjOK(obj', made') /\ Grows(obj, obj') /\ RefsOK'
  BY SameObj DEF IInv, RefsOK

\* What a command holds as it begins to publish.
LEMMA CheckOK ==
  ASSUME NEW o, NEW l, NEW x \in DOMAIN o, l.x = x,
         InHand(o, l.todo), l.todo # << >>, Linked(o, l.todo, Root(o, x))
  PROVE  JobOK(o, "check", l)
  BY DEF JobOK

LEMMA PromoteOK ==
  ASSUME IInv, NEW p \in Terminals, NEW c \in DOMAIN obj, obj[c].kind # "binder",
         Promote(p, c) \/ Publish(p, c)
  PROVE  IInv'
<1>1. PICK cmd \in {"promote", "publish"} :
        /\ job' = [job EXCEPT ![p] = [Idle EXCEPT !.cmd = cmd, !.todo = <<c>>, !.old = head,
                                                  !.cur = head, !.x = c]]
        /\ pc' = [pc EXCEPT ![p] = "check"]
        /\ UNCHANGED <<obj, made, head, prepared, session>> /\ tags' \subseteq tags \cup {c}
  BY DEF Promote, Publish, Goto
<1> DEFINE l == [Idle EXCEPT !.cmd = cmd, !.todo = <<c>>, !.old = head, !.cur = head, !.x = c]
<1>2. l.todo = <<c>> /\ l.x = c /\ DOMAIN l = Fields
  BY DEF Idle, Fields
<1>3. job' = [job EXCEPT ![p] = l]
  BY <1>1
<1> HIDE DEF l
<1>4. ObjOK(obj', made') /\ Grows(obj, obj') /\ RefsOK'
  BY <1>1, TaggingOK
<1>5. JobOK(obj, "check", l)
  BY <1>2, SingleOK, CheckOK
<1> QED
  BY <1>1, <1>2, <1>3, <1>4, <1>5, Going DEF IInv

LEMMA PromoteBatchOK ==
  ASSUME IInv, NEW p \in Terminals, NEW b, NEW halt, PromoteBatch(p, b, halt)
  PROVE  IInv'
<1> DEFINE s == Chain(b)
           todo == SubSeq(s, 1, halt)
           all == IF halt = Len(s) THEN Append(todo, b) ELSE todo
           l == [Idle EXCEPT !.cmd = "promote", !.old = head, !.cur = head, !.x = b, !.todo = all]
<1>1. /\ b \in DOMAIN obj /\ obj[b].kind = "binder" /\ halt \in 1..Len(s)
      /\ pc' = [pc EXCEPT ![p] = "check"] /\ job' = [job EXCEPT ![p] = l]
      /\ UNCHANGED <<obj, made, head, prepared, session>> /\ tags' = tags \cup {b}
  BY DEF PromoteBatch, Binders, IInv, RefsOK, Goto
<1>2. l.todo = all /\ l.x = b /\ DOMAIN l = Fields
  BY DEF Idle, Fields
<1>3. b # 0 /\ CommitOK(obj, b)
  BY <1>1 DEF IInv, ObjOK
<1>4. /\ \E S : s \in Seq(S)
      /\ s # << >> /\ Commits(obj, s) /\ Linked(obj, s, Root(obj, b))
      /\ obj[b].parent = s[Len(s)]
  BY <1>1, <1>3 DEF CommitOK, Kind, Chain, Root
<1> HIDE DEF l, s
<1>5. PICK S : s \in Seq(S)
  BY <1>4
<1>6. /\ todo \in Seq(S) /\ todo # << >> /\ Len(todo) = halt /\ todo[halt] = s[halt]
      /\ Linked(obj, todo, Root(obj, b)) /\ Commits(obj, todo)
  BY <1>1, <1>4, <1>5, PrefixLinked
<1> HIDE DEF todo
<1>7. /\ \E T : all \in Seq(T)
      /\ all # << >> /\ Linked(obj, all, Root(obj, b)) /\ Commits(obj, all)
  <2>1. CASE halt = Len(s)
    <3>1. obj[b].parent = IF todo = << >> THEN Root(obj, b) ELSE todo[Len(todo)]
      BY <1>4, <1>6, <2>1
    <3>2. LET t == Append(todo, b)
          IN (\E T : t \in Seq(T)) /\ t # << >> /\ Linked(obj, t, Root(obj, b)) /\ Commits(obj, t)
      BY <1>1, <1>6, <3>1, AppendLinked
    <3> QED
      BY <2>1, <3>2
  <2>2. CASE halt # Len(s)
    BY <1>6, <2>2
  <2> QED
    BY <2>1, <2>2
<1> HIDE DEF all
<1>8. JobOK(obj, "check", l)
  BY <1>1, <1>2, <1>7, CheckOK DEF InHand
<1>9. ObjOK(obj', made') /\ Grows(obj, obj') /\ RefsOK'
  BY <1>1, TaggingOK
<1> QED
  BY <1>1, <1>2, <1>8, <1>9, Going DEF IInv

LEMMA CheckStepOK ==
  ASSUME IInv, NEW p \in Terminals, Check(p)
  PROVE  IInv'
<1> DEFINE j == job[p]
           l == [j EXCEPT !.cur = head]
<1>1. /\ pc[p] = "check" /\ UNCHANGED <<obj, made, head, prepared, tags, session>>
  BY DEF Check, Refused
<1>2. ObjOK(obj', made') /\ Grows(obj, obj') /\ RefsOK'
  BY <1>1, DroppingOK
<1>3. CASE Publishable(j)
  <2>1. pc' = [pc EXCEPT ![p] = "move"] /\ job' = [job EXCEPT ![p] = l]
    BY <1>3 DEF Check, Goto
  <2>2. JobOK(obj, "check", j) /\ DOMAIN j = Fields
    BY <1>1 DEF IInv, JobsOK, ShapeOK
  <2>3. Root(obj, j.x) = head
    BY <1>3, <2>2 DEF Publishable, BaseOf, Root, Parent, Chain
  <2>4. l.todo = j.todo /\ l.cur = head /\ DOMAIN l = Fields
    BY <2>2 DEF Fields
  <2> HIDE DEF l, j
  <2>5. JobOK(obj, "move", l)
    BY <2>2, <2>3, <2>4 DEF JobOK
  <2> QED
    BY <1>1, <1>2, <2>1, <2>4, <2>5, Going DEF IInv
<1>4. CASE ~Publishable(j)
  <2>1. Stop(p)
    BY <1>4 DEF Check, Refused
  <2> QED
    BY <1>2, <2>1, Stopping DEF IInv
<1> QED
  BY <1>3, <1>4

\* A move goes from the head to a child of it.
LEMMA MoveGoesToChild ==
  ASSUME IInv, NEW p \in Terminals, Move(p), head = job[p].cur
  PROVE  /\ head' = job[p].todo[1] /\ head' \in DOMAIN obj /\ obj[head'].parent = head
         /\ \E S : job[p].todo \in Seq(S)
         /\ job[p].todo # << >>
<1> DEFINE j == job[p]
<1>1. pc[p] = "move" /\ head' = j.todo[1]
  BY DEF Move
<1>2. InHand(obj, j.todo) /\ j.todo # << >> /\ Linked(obj, j.todo, head)
  BY <1>1 DEF IInv, JobsOK, JobOK
<1>3. PICK S : j.todo \in Seq(S)
  BY <1>2 DEF InHand
<1> HIDE DEF j
<1>4. 1 \in DOMAIN j.todo
  BY <1>2, <1>3
<1>5. j.todo[1] \in DOMAIN obj /\ obj[j.todo[1]].parent = head
  BY <1>2, <1>4 DEF InHand, Commits, Linked
<1> QED
  BY <1>1, <1>2, <1>3, <1>5 DEF j

LEMMA MoveOK ==
  ASSUME IInv, NEW p \in Terminals, Move(p)
  PROVE  IInv'
<1> DEFINE j == job[p]
           l == [j EXCEPT !.cur = j.todo[1], !.todo = Tail(@)]
<1>1. pc[p] = "move" /\ UNCHANGED <<obj, made, prepared, tags, session>>
  BY DEF Move
<1>2. JobOK(obj, "move", j) /\ DOMAIN j = Fields
  BY <1>1 DEF IInv, JobsOK, ShapeOK
<1>3. ObjOK(obj', made') /\ Grows(obj, obj')
  BY <1>1, SameObj
<1>5. CASE head = j.cur
  <2>1. /\ head' = j.todo[1] /\ head' \in DOMAIN obj /\ j.todo # << >>
        /\ \E S : j.todo \in Seq(S)
    BY <1>5, MoveGoesToChild
  <2>2. RefsOK'
    BY <1>1, <2>1 DEF IInv, RefsOK
  <2>3. l.todo = Tail(j.todo) /\ l.cur = j.todo[1] /\ DOMAIN l = Fields
    BY <1>2 DEF Fields
  <2>4. IF l.todo = << >> THEN Landed(p, l)
        ELSE pc' = [pc EXCEPT ![p] = "move"] /\ job' = [job EXCEPT ![p] = l]
    BY <1>5 DEF Move, Goto
  <2> HIDE DEF l, j
  <2>5. CASE l.todo = << >>
    <3>1. Landed(p, l)
      BY <2>4, <2>5
    <3>2. JobsOK' /\ ShapeOK'
      <4>1. CASE Stop(p)
        BY <1>3, <4>1, Stopping
      <4>2. CASE pc' = [pc EXCEPT ![p] = "sync"] /\ job' = [job EXCEPT ![p] = l]
        BY <1>3, <2>3, <4>2, NothingInHand, Going
      <4> QED
        BY <3>1, <4>1, <4>2 DEF Landed, Goto
    <3> QED
      BY <1>3, <2>2, <3>2 DEF IInv
  <2>6. CASE l.todo # << >>
    <3>1. PICK S : j.todo \in Seq(S)
      BY <2>1
    <3>2. Commits(obj, j.todo) /\ Linked(obj, j.todo, j.cur)
      BY <1>2 DEF JobOK, InHand
    <3>3. /\ Tail(j.todo) \in Seq(S) /\ Commits(obj, Tail(j.todo))
          /\ Linked(obj, Tail(j.todo), j.todo[1])
      BY <2>1, <3>1, <3>2, TailLinked, TailCommits
    <3>4. JobOK(obj', "move", l)
      BY <1>1, <2>3, <2>6, <3>3 DEF JobOK, InHand
    <3> QED
      BY <1>3, <2>2, <2>3, <2>4, <2>6, <3>4, Going DEF IInv
  <2> QED
    BY <2>5, <2>6
<1>6. CASE head # j.cur
  <2>1. head' = head /\ (Landed(p, j) \/ Stop(p))
    BY <1>6 DEF Move
  <2>2. RefsOK'
    BY <1>1, <2>1 DEF IInv, RefsOK
  <2> HIDE DEF j
  <2>3. CASE Stop(p)
    BY <1>3, <2>2, <2>3, Stopping DEF IInv
  <2>4. CASE pc' = [pc EXCEPT ![p] = "sync"] /\ job' = [job EXCEPT ![p] = j]
    BY <1>2, <1>3, <2>2, <2>4, NothingInHand, Going DEF IInv
  <2> QED
    BY <2>1, <2>3, <2>4 DEF Landed, Goto
<1> QED
  BY <1>5, <1>6


LEMMA CleanUpOK ==
  ASSUME IInv, NEW p \in Terminals, SyncTree(p) \/ DropRefs(p)
  PROVE  IInv'
<1>1. /\ UNCHANGED <<obj, made, head, tags, session>> /\ prepared' \subseteq prepared
  BY DEF SyncTree, DropRefs
<1>2. ObjOK(obj', made') /\ Grows(obj, obj') /\ RefsOK'
  BY <1>1, DroppingOK
<1>3. DOMAIN job[p] = Fields
  BY DEF IInv, ShapeOK
<1>4. CASE Stop(p)
  BY <1>2, <1>4, Stopping DEF IInv
<1>5. CASE \E to \in {"drop", "undo"} : \E l :
                                           /\ DOMAIN l = Fields
                                           /\ pc' = [pc EXCEPT ![p] = to] /\ job' = [job EXCEPT ![p] = l]
  BY <1>2, <1>5, NothingInHand, Going DEF IInv
<1> QED
  <2>1. CASE SyncTree(p)
    <3> DEFINE l == [job[p] EXCEPT !.old = IF job[p].cmd = "rollback" THEN head ELSE job[p].cur]
    <3>1. DOMAIN l = Fields
      BY <1>3 DEF Fields
    <3>2. pc' = [pc EXCEPT ![p] = "drop"] /\ job' = [job EXCEPT ![p] = l]
      BY <2>1 DEF SyncTree, Goto
    <3> QED
      BY <1>5, <3>1, <3>2
  <2>2. CASE DropRefs(p)
    <3>1. Stop(p) \/ (pc' = [pc EXCEPT ![p] = "undo"] /\ job' = [job EXCEPT ![p] = job[p]])
      BY <2>2 DEF DropRefs, Goto
    <3> QED
      BY <1>3, <1>4, <1>5, <3>1
  <2> QED
    BY <2>1, <2>2

-----------------------------------------------------------------------------
\* Rolling back.

LEMMA RollbackOK ==
  ASSUME IInv, NEW p \in Terminals, NEW x, NEW last, Rollback(p, x, last)
  PROVE  IInv'
<1> DEFINE l == [Idle EXCEPT !.cmd = "rollback", !.old = head, !.views = SubSeq(Undoes(x), 1, last)]
<1>1. /\ UNCHANGED <<obj, made, head, prepared, tags, session>>
      /\ pc' = [pc EXCEPT ![p] = "undo"] /\ job' = [job EXCEPT ![p] = l]
  BY DEF Rollback, Goto
<1>2. DOMAIN l = Fields
  BY DEF Idle, Fields
<1> HIDE DEF l
<1>3. ObjOK(obj', made') /\ Grows(obj, obj') /\ RefsOK'
  BY <1>1, DroppingOK
<1> QED
  BY <1>1, <1>2, <1>3, NothingInHand, Going DEF IInv

LEMMA PrepareRollbackOK ==
  ASSUME IInv, NEW p \in Terminals, PrepareRollback(p)
  PROVE  IInv'
<1> DEFINE c == Inverse(job[p].views[1])
           l == [job[p] EXCEPT !.views = Tail(@), !.x = made + 1, !.todo = <<made + 1>>]
<1>1. /\ obj' = With(obj, made + 1, c) /\ made' = made + 1
      /\ head' = head /\ tags' = tags /\ session' = session /\ prepared' = prepared \cup {made + 1}
      /\ pc' = [pc EXCEPT ![p] = "name"] /\ job' = [job EXCEPT ![p] = l]
  BY DEF PrepareRollback, Make, Goto
<1>2. NewOK(obj, c) /\ c.kind = "rollback"
  BY DEF IInv, RefsOK, NewOK, Inverse, NewCommit, Reached, Past
<1>3. l.x = made + 1 /\ l.todo = <<made + 1>> /\ DOMAIN l = Fields
  BY DEF IInv, ShapeOK, Fields
<1> HIDE DEF c, l
<1>4. /\ ObjOK(obj', made') /\ Grows(obj, obj') /\ RefsOK'
      /\ made + 1 \in DOMAIN obj' /\ obj'[made + 1] = c
  BY <1>1, <1>2, Making
<1>5. JobOK(obj', "name", l)
  BY <1>2, <1>3, <1>4 DEF JobOK
<1> QED
  BY <1>1, <1>3, <1>4, <1>5, Going DEF IInv

LEMMA TagRollbackOK ==
  ASSUME IInv, NEW p \in Terminals, TagRollback(p)
  PROVE  IInv'
<1> DEFINE l == job[p]
<1>1. /\ pc[p] = "name" /\ UNCHANGED <<obj, made, head, prepared, session>> /\ tags' = tags \cup {l.x}
      /\ pc' = [pc EXCEPT ![p] = "check"] /\ job' = [job EXCEPT ![p] = l]
  BY DEF TagRollback, Goto
<1>2. JobOK(obj, "name", l) /\ DOMAIN l = Fields
  BY <1>1 DEF IInv, JobsOK, ShapeOK
<1> HIDE DEF l
<1>3. l.x \in DOMAIN obj /\ obj[l.x].kind # "binder" /\ l.todo = <<l.x>>
  BY <1>2 DEF JobOK
<1>4. JobOK(obj, "check", l)
  BY <1>3, SingleOK, CheckOK
<1>5. ObjOK(obj', made') /\ Grows(obj, obj') /\ RefsOK'
  BY <1>1, <1>3, TaggingOK
<1> QED
  BY <1>1, <1>2, <1>4, <1>5, Going DEF IInv

-----------------------------------------------------------------------------
\* The compile session.

LEMMA SessionWritesOK ==
  ASSUME IInv, NEW v \in Views, SessionWrites(v)
  PROVE  IInv'
<1>1. /\ made \in Nat /\ made' = made + 1 /\ obj' = obj /\ session'.id = made + 1
      /\ UNCHANGED <<head, prepared, tags, pc, job>>
  BY DEF SessionWrites, IInv, ObjOK
<1>2. ObjOK(obj', made') /\ RefsOK' /\ Grows(obj, obj')
  BY <1>1 DEF IInv, ObjOK, RefsOK, Grows
<1> QED
  BY <1>1, <1>2, Waiting DEF IInv

LEMMA SessionCommitsOK ==
  ASSUME IInv, SessionCommits
  PROVE  IInv' /\ Past(head) \subseteq (Past(head))'
<1>1. PICK c : /\ obj' = With(obj, session.id, c) /\ head' = session.id
               /\ c.parent = head /\ c.past = Past(head) \cup {session.id} /\ c.kind = "run"
               /\ session' = NoSession /\ session.wrote # {}
               /\ UNCHANGED <<made, prepared, tags, pc, job>>
  BY DEF SessionCommits
<1>2. /\ ObjOK(obj, made) /\ made \in Nat /\ made >= made /\ session.id \in 1..made
      /\ session.id \notin DOMAIN obj /\ session.id # 0
  BY <1>1 DEF IInv, RefsOK, ObjOK
<1>3. NewOK(obj, c)
  BY <1>1 DEF IInv, RefsOK, NewOK, Reached, Past
<1>4. DOMAIN obj' = DOMAIN obj \cup {session.id} /\ obj'[session.id] = c
  BY <1>1 DEF With
<1>5. ASSUME NEW k, k = made, NEW i, i = session.id
      PROVE  ObjOK(obj', k) /\ Grows(obj, obj')
  <2>1. obj' = With(obj, i, c)
    BY <1>1, <1>5
  <2>2. ObjOK(obj, k) /\ k \in Nat /\ k >= k /\ i \in 1..k /\ i \notin DOMAIN obj
    BY <1>2, <1>5
  <2> QED
    BY <1>3, <2>1, <2>2, Added
<1>6. ObjOK(obj', made') /\ RefsOK'
  BY <1>1, <1>2, <1>4, <1>5 DEF IInv, RefsOK, NoSession
<1>7. IInv'
  BY <1>1, <1>5, <1>6, Waiting DEF IInv
<1>8. (Past(head))' = c.past
  BY <1>1, <1>2, <1>4 DEF Past
<1> QED
  BY <1>1, <1>7, <1>8

-----------------------------------------------------------------------------
\* The head is where it was, as it was, after every other step.
LEMMA HeadStays ==
  ASSUME IInv, IInv', head' = head, Grows(obj, obj')
  PROVE  Past(head) \subseteq (Past(head))'
<1>1. (Past(head))' = Past(head)
  BY DEF Past, Grows, IInv, RefsOK
<1> QED
  BY <1>1

LEMMA MoveForward ==
  ASSUME IInv, NEW p \in Terminals, Move(p)
  PROVE  Past(head) \subseteq (Past(head))'
<1>1. obj' = obj /\ 0 \notin DOMAIN obj
  BY DEF Move, IInv, ObjOK
<1>2. CASE head = job[p].cur
  <2>1. head' \in DOMAIN obj /\ obj[head'].parent = head
    BY <1>2, MoveGoesToChild
  <2>2. Reached(obj, head) \subseteq obj[head'].past
    BY <2>1 DEF IInv, ObjOK, CommitOK
  <2> QED
    BY <1>1, <2>1, <2>2 DEF Reached, Past
<1>3. CASE head # job[p].cur
  <2>1. head' = head
    BY <1>3 DEF Move
  <2> QED
    BY <1>1, <2>1 DEF Past
<1> QED
  BY <1>2, <1>3

LEMMA StepKeeps ==
  ASSUME IInv, [Next]_vars
  PROVE  IInv' /\ Past(head) \subseteq (Past(head))'
<1>1. ASSUME NEW p \in Terminals, Command(p)
      PROVE  IInv' /\ head' = head /\ Grows(obj, obj')
  <2>1. CASE \E v \in Views : Propose(p, v)
    <3>1. PICK v \in Views : Propose(p, v)
      BY <2>1
    <3>2. head' = head /\ Grows(obj, obj')
      BY <3>1 DEF Propose, Make, With, Grows, IInv, ObjOK
    <3> QED
      BY <3>1, <3>2, ProposeOK
  <2>2. CASE \E v, w \in Views : v # w /\ ProposeBatch(p, <<v, w>>)
    BY <2>2, ProposeBatchOK DEF ProposeBatch, Grows
  <2>3. CASE Recover(p) \/ \E x \in prepared : Discard(p, x)
    <3>1. head' = head /\ obj' = obj
      BY <2>3 DEF Recover, Discard
    <3> QED
      BY <2>3, <3>1, QuietOK DEF Grows
  <2>4. CASE \E x \in prepared : Promote(p, x)
    <3>1. PICK x \in prepared : Promote(p, x)
      BY <2>4
    <3>2. x \in DOMAIN obj /\ obj[x].kind # "binder" /\ head' = head /\ obj' = obj
      BY <3>1 DEF Promote, Binders, IInv, RefsOK
    <3> QED
      BY <3>1, <3>2, PromoteOK DEF Grows
  <2>5. CASE \E b \in Binders : \E halt \in 1..2 : PromoteBatch(p, b, halt)
    BY <2>5, PromoteBatchOK DEF PromoteBatch, Grows
  <2>6. CASE \E c \in tags : Publish(p, c)
    <3>1. PICK c \in tags : Publish(p, c)
      BY <2>6
    <3>2. c \in DOMAIN obj /\ c # 0
      BY DEF IInv, RefsOK, ObjOK
    <3>3. obj[c].kind # "binder" /\ head' = head /\ obj' = obj
      BY <3>1, <3>2 DEF Publish, Is
    <3> QED
      BY <3>1, <3>2, <3>3, PromoteOK DEF Grows
  <2>7. CASE \E x \in DOMAIN obj : \E last \in 1..2 : Rollback(p, x, last)
    BY <2>7, RollbackOK DEF Rollback, Grows
  <2> QED
    BY <1>1, <2>1, <2>2, <2>3, <2>4, <2>5, <2>6, <2>7 DEF Command
<1>2. ASSUME NEW p \in Terminals, Step(p), ~Move(p)
      PROVE  IInv' /\ head' = head /\ Grows(obj, obj')
  <2>1. CASE Member(p) \/ Binder(p) \/ PrepareRollback(p)
    <3>1. head' = head /\ Grows(obj, obj')
      BY <2>1 DEF Member, Binder, PrepareRollback, Make, With, Grows, IInv, ObjOK
    <3> QED
      BY <2>1, <3>1, MemberOK, BinderOK, PrepareRollbackOK
  <2>2. CASE BatchRefused(p) \/ RollbackStops(p)
    <3>1. head' = head /\ obj' = obj
      BY <2>2 DEF BatchRefused, RollbackStops, Refused
    <3> QED
      BY <2>2, <3>1, QuietOK DEF Grows
  <2>3. CASE Check(p)
    BY <2>3, CheckStepOK DEF Check, Refused, Grows
  <2>4. CASE SyncTree(p) \/ DropRefs(p)
    BY <2>4, CleanUpOK DEF SyncTree, DropRefs, Grows
  <2>5. CASE TagRollback(p)
    BY <2>5, TagRollbackOK DEF TagRollback, Grows
  <2> QED
    BY <1>2, <2>1, <2>2, <2>3, <2>4, <2>5 DEF Step
<1>3. ASSUME NEW p \in Terminals, Crash(p) \/ ResetTree
      PROVE  IInv' /\ head' = head /\ Grows(obj, obj')
  <2>1. head' = head /\ obj' = obj
    BY <1>3 DEF Crash, ResetTree
  <2> QED
    BY <1>3, <2>1, QuietOK DEF Grows
<1>4. CASE ResetTree \/ UNCHANGED vars
  <2>1. UNCHANGED <<obj, made, head, tags, session, pc, job>> /\ prepared' = prepared
    BY <1>4 DEF ResetTree, vars
  <2>2. IInv' /\ Grows(obj, obj')
    BY <2>1, DroppingOK, Waiting DEF IInv
  <2> QED
    BY <2>1, <2>2, HeadStays
<1>5. CASE \E v \in Views : SessionWrites(v)
  <2>1. head' = head /\ Grows(obj, obj')
    BY <1>5 DEF SessionWrites, Grows
  <2> QED
    BY <1>5, <2>1, SessionWritesOK, HeadStays
<1>6. CASE SessionCommits
  BY <1>6, SessionCommitsOK
<1>7. CASE \E p \in Terminals : Command(p) \/ Step(p) \/ Crash(p)
  BY <1>1, <1>2, <1>3, <1>7, HeadStays, MoveOK, MoveForward
<1> QED
  BY <1>4, <1>5, <1>6, <1>7 DEF Next

LEMMA StartOK == Init => IInv
<1> SUFFICES ASSUME Init PROVE IInv
  OBVIOUS
<1>1. obj = << >> /\ DOMAIN obj = {} /\ made = 0 /\ head = 0 /\ prepared = {} /\ tags = {}
  BY DEF Init
<1>2. ObjOK(obj, made) /\ RefsOK
  BY <1>1 DEF Init, ObjOK, RefsOK, NoSession
<1>3. DOMAIN Idle = Fields
  BY DEF Idle, Fields
<1>4. ShapeOK
  BY <1>3 DEF Init, ShapeOK
<1>5. \A q \in Terminals : pc[q] = "idle"
  BY DEF Init
<1>6. JobsOK
  BY <1>5, NothingInHand DEF JobsOK
<1> QED
  BY <1>2, <1>4, <1>6 DEF IInv

\* Whatever the commands, the sessions and the crashes do, the branch keeps every
\* commit that was ever on it (promote.py:16, update-ref with the old value).
THEOREM BranchMovesForward == Spec => ForwardOnly
<1>1. Init => IInv
  BY StartOK
<1>2. IInv /\ [Next]_vars => IInv' /\ Past(head) \subseteq (Past(head))'
  BY StepKeeps
<1>3. IInv /\ [Next]_vars => [Past(head) \subseteq (Past(head))']_vars
  BY <1>2
<1> QED
  BY <1>1, <1>2, <1>3, PTL DEF Spec, ForwardOnly

-----------------------------------------------------------------------------
(* Batches: a member belongs to one binder, and what a promotion has in    *)
(* hand is one retirement or the chain of one binder, in order.            *)

MembersIn(o, b) == {o[b].members[i] : i \in DOMAIN o[b].members}
BindersIn(o) == {b \in DOMAIN o : o[b].kind = "binder"}
OfBatch(o, m) == o[m].kind = "retire" /\ o[m].batch # << >>

BatchesOK(o) ==
  /\ \A b \in BindersIn(o) : \A m \in MembersIn(o, b) : OfBatch(o, m)
  /\ \A b, d \in BindersIn(o) : MembersIn(o, b) \cap MembersIn(o, d) # {} => b = d

\* Members prepared so far, which no binder has claimed and nobody else has in hand.
Preparing == {"member", "binder"}
FreeMembers(o, s) ==
  \A i \in DOMAIN s : OfBatch(o, s[i]) /\ \A b \in BindersIn(o) : s[i] \notin MembersIn(o, b)
Apart(s, t) == \A i \in DOMAIN s : \A k \in DOMAIN t : s[i] # t[k]

HandsOK ==
  /\ \A q \in Terminals : pc[q] \in Preparing => FreeMembers(obj, job[q].todo)
  /\ \A q, r \in Terminals : q # r /\ pc[q] \in Preparing /\ pc[r] \in Preparing
                               => Apart(job[q].todo, job[r].todo)

\* What a publishing command has in hand, with its tag once it was checked.
PublishOK(o, named, to, j) ==
  /\ to \in {"check", "move"} =>
       /\ j.x \in DOMAIN o
       /\ IF o[j.x].kind = "binder"
            THEN /\ j.old = Root(o, j.x)
                 /\ \A i \in DOMAIN j.todo : j.todo[i] \in MembersIn(o, j.x) \cup {j.x}
            ELSE \A i \in DOMAIN j.todo : j.todo[i] = j.x
  /\ to = "move" => j.x \in named
  /\ to = "name" => o[j.x].batch = << >>

\* A member has no tag of its own unless an operator promotes it alone.
TagsOK == MembersAlone \/ \A c \in tags : obj[c].kind = "binder" \/ obj[c].batch = << >>

\* A commit has what its parent has, and itself.
PlacesOK(o) == \A c \in DOMAIN o : o[c].past = Reached(o, o[c].parent) \cup {c}

BatchInv == /\ PlacesOK(obj) /\ BatchesOK(obj) /\ HandsOK /\ TagsOK
            /\ \A q \in Terminals : PublishOK(obj, tags, pc[q], job[q])

LEMMA MembersAreCommits ==
  ASSUME NEW o, NEW k, ObjOK(o, k), NEW b \in BindersIn(o)
  PROVE  MembersIn(o, b) \subseteq DOMAIN o
<1>1. CommitOK(o, b) /\ b # 0
  BY DEF ObjOK, BindersIn
<1>2. Commits(o, o[b].members)
  BY <1>1 DEF CommitOK, Kind, BindersIn
<1>3. QED
  BY <1>2 DEF Commits, MembersIn

LEMMA BatchesGrow ==
  ASSUME NEW o, NEW k, ObjOK(o, k), NEW n, Grows(o, n)
  PROVE  /\ BindersIn(o) \subseteq BindersIn(n)
         /\ \A b \in DOMAIN o : MembersIn(n, b) = MembersIn(o, b)
         /\ \A x \in DOMAIN o : OfBatch(n, x) <=> OfBatch(o, x)
BY DEF Grows, BindersIn, MembersIn, OfBatch

\* A commit that is no binder leaves the batches as they are.
LEMMA PlainCommit ==
  ASSUME NEW o, NEW k, ObjOK(o, k), NEW n, Grows(o, n), NEW i, DOMAIN n = DOMAIN o \cup {i},
         i \notin DOMAIN o, n[i].kind # "binder", BatchesOK(o)
  PROVE  BatchesOK(n) /\ BindersIn(n) = BindersIn(o)
<1>1. BindersIn(n) = BindersIn(o)
  BY DEF BindersIn, Grows
<1>2. \A b \in BindersIn(o) : MembersIn(n, b) = MembersIn(o, b) /\ MembersIn(o, b) \subseteq DOMAIN o
  BY BatchesGrow, MembersAreCommits DEF BindersIn
<1>3. \A x \in DOMAIN o : OfBatch(n, x) <=> OfBatch(o, x)
  BY BatchesGrow
<1>4. QED
  BY <1>1, <1>2, <1>3 DEF BatchesOK

LEMMA NewBinder ==
  ASSUME NEW o, NEW k, ObjOK(o, k), NEW n, Grows(o, n), NEW i, DOMAIN n = DOMAIN o \cup {i},
         i \notin DOMAIN o, n[i].kind = "binder", BatchesOK(o),
         Commits(o, n[i].members), FreeMembers(o, n[i].members)
  PROVE  BatchesOK(n) /\ BindersIn(n) = BindersIn(o) \cup {i}
<1>1. BindersIn(n) = BindersIn(o) \cup {i}
  BY DEF BindersIn, Grows
<1>2. \A b \in BindersIn(o) : MembersIn(n, b) = MembersIn(o, b) /\ MembersIn(o, b) \subseteq DOMAIN o
  BY BatchesGrow, MembersAreCommits DEF BindersIn
<1>3. \A x \in DOMAIN o : OfBatch(n, x) <=> OfBatch(o, x)
  BY BatchesGrow
<1>4. /\ \A m \in MembersIn(n, i) : m \in DOMAIN o /\ OfBatch(o, m)
      /\ \A b \in BindersIn(o) : MembersIn(o, b) \cap MembersIn(n, i) = {}
  BY DEF MembersIn, Commits, FreeMembers
<1>5. \A b \in BindersIn(n) : \A m \in MembersIn(n, b) : OfBatch(n, m)
  BY <1>1, <1>2, <1>3, <1>4 DEF BatchesOK
<1>6. \A b, d \in BindersIn(n) : MembersIn(n, b) \cap MembersIn(n, d) # {} => b = d
  BY <1>1, <1>2, <1>4 DEF BatchesOK
<1>7. QED
  BY <1>1, <1>5, <1>6 DEF BatchesOK

LEMMA FreeStays ==
  ASSUME NEW o, NEW k, ObjOK(o, k), NEW n, Grows(o, n), NEW s, Commits(o, s), FreeMembers(o, s),
         \A b \in BindersIn(n) \ BindersIn(o) : \A i \in DOMAIN s : s[i] \notin MembersIn(n, b)
  PROVE  FreeMembers(n, s)
<1>1. \A i \in DOMAIN s : s[i] \in DOMAIN o /\ OfBatch(n, s[i])
  BY BatchesGrow DEF Commits, FreeMembers
<1>2. \A b \in BindersIn(o) : MembersIn(n, b) = MembersIn(o, b)
  BY BatchesGrow DEF BindersIn
<1>3. QED
  BY <1>1, <1>2 DEF FreeMembers

LEMMA PublishStays ==
  ASSUME NEW o, NEW k, ObjOK(o, k), NEW n, Grows(o, n), NEW named, NEW more, named \subseteq more,
         NEW to, NEW j, JobOK(o, to, j), PublishOK(o, named, to, j)
  PROVE  PublishOK(n, more, to, j)
<1>1. 0 \notin DOMAIN o
  BY DEF ObjOK
<1>2. ASSUME to \in {"check", "move"}
      PROVE  /\ j.x \in DOMAIN n
             /\ IF n[j.x].kind = "binder"
                  THEN /\ j.old = Root(n, j.x)
                       /\ \A i \in DOMAIN j.todo : j.todo[i] \in MembersIn(n, j.x) \cup {j.x}
                  ELSE \A i \in DOMAIN j.todo : j.todo[i] = j.x
  <2>1. j.x \in DOMAIN o /\ n[j.x] = o[j.x] /\ j.x \in DOMAIN n
    BY <1>2 DEF PublishOK, Grows
  <2>2. Root(n, j.x) = Root(o, j.x)
    BY <1>1, <2>1, CommitStays DEF ObjOK
  <2>3. MembersIn(n, j.x) = MembersIn(o, j.x)
    BY <2>1, BatchesGrow
  <2>4. QED
    BY <1>2, <2>1, <2>2, <2>3 DEF PublishOK
<1>3. to = "name" => n[j.x].batch = << >>
  BY DEF PublishOK, JobOK, Grows
<1>4. QED
  BY <1>2, <1>3 DEF PublishOK

LEMMA NothingToPublish ==
  ASSUME NEW o, NEW named, NEW j, NEW to \in {"idle", "sync", "drop", "undo", "member", "binder"}
  PROVE  PublishOK(o, named, to, j)
BY DEF PublishOK

LEMMA InHandCommits ==
  ASSUME IInv, NEW q \in Terminals, pc[q] \in Preparing
  PROVE  Commits(obj, job[q].todo)
BY DEF IInv, JobsOK, JobOK, InHand, Preparing

-----------------------------------------------------------------------------
\* One step of a terminal, as far as batches go.
LEMMA BatchGoing ==
  ASSUME IInv, BatchInv, Grows(obj, obj'), PlacesOK(obj'), BatchesOK(obj'), tags \subseteq tags', TagsOK',
         NEW p \in Terminals, NEW to, NEW l,
         pc' = [pc EXCEPT ![p] = to], job' = [job EXCEPT ![p] = l],
         \A q \in Terminals \ {p} : pc[q] \in Preparing => FreeMembers(obj', job[q].todo),
         to \in Preparing =>
            /\ FreeMembers(obj', l.todo)
            /\ \A q \in Terminals \ {p} : pc[q] \in Preparing => Apart(l.todo, job[q].todo),
         PublishOK(obj', tags', to, l)
  PROVE  BatchInv'
<1>1. /\ pc'[p] = to /\ job'[p] = l
      /\ \A q \in Terminals \ {p} : pc'[q] = pc[q] /\ job'[q] = job[q]
  BY DEF IInv, ShapeOK
<1>2. \A q \in Terminals \ {p} : PublishOK(obj', tags', pc[q], job[q])
  <2>1. ASSUME NEW q \in Terminals \ {p} PROVE PublishOK(obj', tags', pc[q], job[q])
    <3>1. ObjOK(obj, made) /\ JobOK(obj, pc[q], job[q]) /\ PublishOK(obj, tags, pc[q], job[q])
      BY DEF IInv, JobsOK, BatchInv
    <3>2. QED
      BY <3>1, PublishStays
  <2>2. QED
    BY <2>1
<1>3. \A q \in Terminals : PublishOK(obj', tags', pc'[q], job'[q])
  BY <1>1, <1>2
<1>4. \A q \in Terminals : pc'[q] \in Preparing => FreeMembers(obj', job'[q].todo)
  BY <1>1
<1>5. \A s, t : Apart(s, t) => Apart(t, s)
  BY DEF Apart
<1>6. \A q, r \in Terminals : q # r /\ pc'[q] \in Preparing /\ pc'[r] \in Preparing
                               => Apart(job'[q].todo, job'[r].todo)
  BY <1>1, <1>5 DEF BatchInv, HandsOK
<1>7. HandsOK'
  BY <1>4, <1>6 DEF HandsOK
<1>8. QED
  BY <1>3, <1>7 DEF BatchInv

LEMMA BatchWaiting ==
  ASSUME IInv, BatchInv, Grows(obj, obj'), PlacesOK(obj'), BatchesOK(obj'), tags \subseteq tags', TagsOK',
         UNCHANGED <<pc, job>>,
         \A q \in Terminals : pc[q] \in Preparing => FreeMembers(obj', job[q].todo)
  PROVE  BatchInv'
<1>1. ASSUME NEW q \in Terminals PROVE PublishOK(obj', tags', pc[q], job[q])
  <2>1. ObjOK(obj, made) /\ JobOK(obj, pc[q], job[q]) /\ PublishOK(obj, tags, pc[q], job[q])
    BY DEF IInv, JobsOK, BatchInv
  <2>2. QED
    BY <2>1, PublishStays
<1>2. HandsOK'
  BY DEF HandsOK, BatchInv
<1>3. QED
  BY <1>1, <1>2 DEF BatchInv

\* A step that makes no binder leaves what the others have in hand free.
LEMMA OthersFree ==
  ASSUME IInv, BatchInv, Grows(obj, obj'), BindersIn(obj') = BindersIn(obj)
  PROVE  \A q \in Terminals : pc[q] \in Preparing => FreeMembers(obj', job[q].todo)
<1>1. ASSUME NEW q \in Terminals, pc[q] \in Preparing PROVE FreeMembers(obj', job[q].todo)
  <2>1. ObjOK(obj, made) /\ Commits(obj, job[q].todo) /\ FreeMembers(obj, job[q].todo)
    BY <1>1, InHandCommits DEF IInv, BatchInv, HandsOK
  <2>2. QED
    BY <2>1, FreeStays
<1>2. QED
  BY <1>1

LEMMA TagsStay ==
  ASSUME IInv, BatchInv, Grows(obj, obj'), tags' = tags
  PROVE  TagsOK'
BY DEF IInv, RefsOK, BatchInv, TagsOK, Grows

LEMMA PlacesGrow ==
  ASSUME NEW o, NEW k, ObjOK(o, k), NEW n, Grows(o, n), NEW i, DOMAIN n = DOMAIN o \cup {i},
         n[i].parent \in {0} \cup DOMAIN o, n[i].past = Reached(o, n[i].parent) \cup {i}, PlacesOK(o)
  PROVE  PlacesOK(n)
<1>1. \A c \in {0} \cup DOMAIN o : Reached(n, c) = Reached(o, c)
  BY DEF Reached, Grows
<1>2. \A c \in DOMAIN o : o[c].parent \in {0} \cup DOMAIN o /\ n[c] = o[c]
  BY DEF ObjOK, CommitOK, Grows
<1>3. QED
  BY <1>1, <1>2 DEF PlacesOK

\* A commit added, one that is no binder.
LEMMA PlainMade ==
  ASSUME IInv, BatchInv, NEW c, NEW i, obj' = With(obj, i, c), i \notin DOMAIN obj,
         c.kind # "binder", c.parent \in {0} \cup DOMAIN obj,
         c.past = Reached(obj, c.parent) \cup {i}
  PROVE  /\ Grows(obj, obj') /\ BatchesOK(obj') /\ BindersIn(obj') = BindersIn(obj)
         /\ PlacesOK(obj') /\ obj'[i] = c
<1>1. DOMAIN obj' = DOMAIN obj \cup {i} /\ obj'[i] = c /\ Grows(obj, obj')
  BY DEF With, Grows
<1>2. ObjOK(obj, made) /\ BatchesOK(obj) /\ PlacesOK(obj)
  BY DEF IInv, BatchInv
<1>3. BatchesOK(obj') /\ BindersIn(obj') = BindersIn(obj)
  BY <1>1, <1>2, PlainCommit
<1>4. PlacesOK(obj')
  BY <1>1, <1>2, PlacesGrow
<1>5. QED
  BY <1>1, <1>3, <1>4

\* A step that makes nothing.
LEMMA NothingMade ==
  ASSUME IInv, BatchInv, obj' = obj
  PROVE  /\ Grows(obj, obj') /\ BatchesOK(obj') /\ BindersIn(obj') = BindersIn(obj)
         /\ PlacesOK(obj')
BY DEF Grows, BatchInv

\* A terminal goes on to a step that prepares nothing.
LEMMA GoingOn ==
  ASSUME IInv, BatchInv, obj' = obj, tags' = tags,
         NEW p \in Terminals, NEW to, to \notin Preparing, NEW l,
         pc' = [pc EXCEPT ![p] = to], job' = [job EXCEPT ![p] = l],
         PublishOK(obj, tags, to, l)
  PROVE  BatchInv'
<1>1. /\ Grows(obj, obj') /\ BatchesOK(obj') /\ BindersIn(obj') = BindersIn(obj) /\ PlacesOK(obj')
      /\ tags \subseteq tags'
  BY NothingMade
<1>2. TagsOK'
  BY <1>1, TagsStay
<1>3. \A q \in Terminals \ {p} : pc[q] \in Preparing => FreeMembers(obj', job[q].todo)
  BY <1>1, OthersFree
<1>4. QED
  BY <1>1, <1>2, <1>3, BatchGoing

\* A step that leaves the commits, the terminals and the tags alone.
LEMMA BatchUnmoved ==
  ASSUME IInv, BatchInv, UNCHANGED <<obj, tags, pc, job>>
  PROVE  BatchInv'
<1>1. /\ Grows(obj, obj') /\ BatchesOK(obj') /\ BindersIn(obj') = BindersIn(obj) /\ PlacesOK(obj')
      /\ tags \subseteq tags'
  BY NothingMade
<1>2. TagsOK'
  BY <1>1, TagsStay
<1>3. \A q \in Terminals : pc[q] \in Preparing => FreeMembers(obj', job[q].todo)
  BY <1>1, OthersFree
<1>4. QED
  BY <1>1, <1>2, <1>3, BatchWaiting

LEMMA BatchStops ==
  ASSUME IInv, BatchInv, obj' = obj, tags' = tags, NEW p \in Terminals, Stop(p)
  PROVE  BatchInv'
<1>1. pc' = [pc EXCEPT ![p] = "idle"] /\ job' = [job EXCEPT ![p] = Idle] /\ "idle" \notin Preparing
  BY DEF Stop, Goto, Preparing
<1>2. PublishOK(obj, tags, "idle", Idle)
  BY NothingToPublish
<1>3. QED
  BY <1>1, <1>2, GoingOn

LEMMA ProposeKeepsBatches ==
  ASSUME IInv, BatchInv, NEW p \in Terminals, NEW v \in Views, Propose(p, v)
  PROVE  BatchInv'
<1> DEFINE c == Retirement(head, v, << >>)
<1>1. c.kind = "retire" /\ c.parent = head /\ c.past = Reached(obj, head) \cup {made + 1}
  BY DEF Retirement, NewCommit, Reached, Past
<1>2. obj' = With(obj, made + 1, c) /\ UNCHANGED <<tags, pc, job>>
  BY DEF Propose, Make
<1> HIDE DEF c
<1>3. made + 1 \notin DOMAIN obj /\ head \in {0} \cup DOMAIN obj
  BY DEF IInv, ObjOK, RefsOK
<1>4. /\ Grows(obj, obj') /\ BatchesOK(obj') /\ BindersIn(obj') = BindersIn(obj) /\ PlacesOK(obj')
  BY <1>1, <1>2, <1>3, PlainMade
<1>5. TagsOK'
  BY <1>2, <1>4, TagsStay
<1>6. \A q \in Terminals : pc[q] \in Preparing => FreeMembers(obj', job[q].todo)
  BY <1>4, OthersFree
<1>7. QED
  BY <1>2, <1>4, <1>5, <1>6, BatchWaiting

LEMMA ProposeBatchKeepsBatches ==
  ASSUME IInv, BatchInv, NEW p \in Terminals, NEW views, ProposeBatch(p, views)
  PROVE  BatchInv'
<1> DEFINE l == [Idle EXCEPT !.cmd = "batch", !.old = head, !.cur = head, !.views = views]
<1>1. /\ pc' = [pc EXCEPT ![p] = "member"] /\ job' = [job EXCEPT ![p] = l]
      /\ obj' = obj /\ tags' = tags
  BY DEF ProposeBatch, Goto
<1>2. l.todo = << >> /\ DOMAIN << >> = {}
  BY DEF Idle
<1> HIDE DEF l
<1>3. /\ Grows(obj, obj') /\ BatchesOK(obj') /\ BindersIn(obj') = BindersIn(obj) /\ PlacesOK(obj')
      /\ tags \subseteq tags'
  BY <1>1, NothingMade
<1>4. TagsOK'
  BY <1>1, <1>3, TagsStay
<1>5. \A q \in Terminals \ {p} : pc[q] \in Preparing => FreeMembers(obj', job[q].todo)
  BY <1>3, OthersFree
<1>6. /\ FreeMembers(obj', l.todo)
      /\ \A q \in Terminals \ {p} : pc[q] \in Preparing => Apart(l.todo, job[q].todo)
  BY <1>2 DEF FreeMembers, Apart
<1>7. PublishOK(obj', tags', "member", l)
  BY NothingToPublish
<1>8. QED
  BY <1>1, <1>3, <1>4, <1>5, <1>6, <1>7, BatchGoing

LEMMA FreeAppended ==
  ASSUME NEW o, NEW s, NEW S, s \in Seq(S), FreeMembers(o, s), NEW x, OfBatch(o, x),
         \A b \in BindersIn(o) : x \notin MembersIn(o, b)
  PROVE  FreeMembers(o, Append(s, x))
<1>0. s \in Seq(S \cup {x})
  OBVIOUS
<1>1. \A i \in DOMAIN Append(s, x) : Append(s, x)[i] = x \/ (i \in DOMAIN s /\ Append(s, x)[i] = s[i])
  BY <1>0
<1>2. QED
  BY <1>1 DEF FreeMembers

LEMMA ApartAppended ==
  ASSUME NEW s, NEW S, s \in Seq(S), NEW t, Apart(s, t), NEW x, \A k \in DOMAIN t : x # t[k]
  PROVE  Apart(Append(s, x), t)
<1>0. s \in Seq(S \cup {x})
  OBVIOUS
<1>1. \A i \in DOMAIN Append(s, x) : Append(s, x)[i] = x \/ (i \in DOMAIN s /\ Append(s, x)[i] = s[i])
  BY <1>0
<1>2. QED
  BY <1>1 DEF Apart

LEMMA MemberKeepsBatches ==
  ASSUME IInv, BatchInv, NEW p \in Terminals, Member(p)
  PROVE  BatchInv'
<1> DEFINE j == job[p]
           v == j.views[Len(j.todo) + 1]
           name == BatchName(j.old, Len(j.views))
           c == Retirement(j.cur, v, name)
           l == [j EXCEPT !.cur = made + 1, !.todo = Append(@, made + 1)]
           to == IF Len(j.todo) + 1 = Len(j.views) THEN "binder" ELSE "member"
<1>1. /\ pc[p] = "member" /\ obj' = With(obj, made + 1, c) /\ tags' = tags
      /\ pc' = [pc EXCEPT ![p] = to] /\ job' = [job EXCEPT ![p] = l]
  BY DEF Member, Make, Goto
<1>2. DOMAIN j = Fields /\ JobOK(obj, "member", j)
  BY <1>1 DEF IInv, ShapeOK, JobsOK
<1>3. j.cur \in {0} \cup DOMAIN obj
  BY <1>2, TipIsCommit
<1>4. /\ c.kind = "retire" /\ c.batch = name /\ name # << >> /\ c.parent = j.cur
      /\ c.past = Reached(obj, j.cur) \cup {made + 1}
  BY DEF Retirement, NewCommit, Reached, Past, BatchName
<1>5. l.todo = Append(j.todo, made + 1) /\ to \in {"member", "binder"}
  BY <1>2 DEF Fields
<1>6. made + 1 \notin DOMAIN obj
  BY DEF IInv, ObjOK
<1>7. PICK S : j.todo \in Seq(S)
  BY <1>2 DEF JobOK, InHand
<1>8. Commits(obj, j.todo) /\ FreeMembers(obj, j.todo) /\ "member" \in Preparing
  BY <1>1, <1>2 DEF JobOK, InHand, BatchInv, HandsOK, Preparing
<1> HIDE DEF c, l, to, name
<1>9. /\ Grows(obj, obj') /\ BatchesOK(obj') /\ BindersIn(obj') = BindersIn(obj) /\ PlacesOK(obj')
      /\ obj'[made + 1] = c
  BY <1>1, <1>3, <1>4, <1>6, PlainMade
<1>10. FreeMembers(obj', j.todo)
  <2>1. ObjOK(obj, made)
    BY DEF IInv
  <2> HIDE DEF j
  <2>2. QED
    BY <2>1, <1>8, <1>9, FreeStays
<1>11. \A b \in BindersIn(obj') : made + 1 \notin MembersIn(obj', b)
  <2>1. ObjOK(obj, made)
    BY DEF IInv
  <2>2. \A b \in BindersIn(obj) : MembersIn(obj, b) \subseteq DOMAIN obj
    BY <2>1, MembersAreCommits
  <2>3. \A b \in BindersIn(obj) : MembersIn(obj', b) = MembersIn(obj, b)
    BY <2>1, <1>9, BatchesGrow DEF BindersIn
  <2>4. QED
    BY <1>6, <1>9, <2>2, <2>3
<1>12. OfBatch(obj', made + 1)
  BY <1>4, <1>9 DEF OfBatch
<1>13. \A q \in Terminals \ {p} : pc[q] \in Preparing => Apart(j.todo, job[q].todo)
  BY <1>1, <1>8 DEF BatchInv, HandsOK
<1>14. \A q \in Terminals \ {p} : pc[q] \in Preparing =>
          \A k \in DOMAIN job[q].todo : job[q].todo[k] # made + 1
  BY <1>6, InHandCommits DEF Commits
<1>15. \A q \in Terminals \ {p} : pc[q] \in Preparing => FreeMembers(obj', job[q].todo)
  BY <1>9, OthersFree
<1>16. TagsOK' /\ tags \subseteq tags'
  BY <1>1, <1>9, TagsStay
<1> HIDE DEF j
<1>17. FreeMembers(obj', l.todo)
  BY <1>5, <1>7, <1>10, <1>11, <1>12, FreeAppended
<1>18. \A q \in Terminals \ {p} : pc[q] \in Preparing => Apart(l.todo, job[q].todo)
  <2>1. ASSUME NEW q \in Terminals \ {p}, pc[q] \in Preparing
        PROVE  Apart(l.todo, job[q].todo)
    <3>1. Apart(j.todo, job[q].todo) /\ \A k \in DOMAIN job[q].todo : made + 1 # job[q].todo[k]
      BY <2>1, <1>13, <1>14
    <3>2. QED
      BY <3>1, <1>5, <1>7, ApartAppended
  <2>2. QED
    BY <2>1
<1>19. PublishOK(obj', tags', to, l)
  BY <1>5, NothingToPublish
<1>20. QED
  BY <1>1, <1>9, <1>15, <1>16, <1>17, <1>18, <1>19, BatchGoing

LEMMA BinderKeepsBatches ==
  ASSUME IInv, BatchInv, NEW p \in Terminals, Binder(p)
  PROVE  BatchInv'
<1> DEFINE j == job[p]
           c == NewCommit(j.cur, "binder", 0, j.views[1], 0, BatchName(j.old, Len(j.views)),
                          j.todo, TreeOf(j.cur))
<1>1. /\ pc[p] = "binder" /\ obj' = With(obj, made + 1, c) /\ tags' = tags
      /\ pc' = [pc EXCEPT ![p] = "idle"] /\ job' = [job EXCEPT ![p] = Idle]
  BY DEF Binder, Make, Stop, Goto
<1>2. JobOK(obj, "binder", j) /\ "binder" \in Preparing
  BY <1>1 DEF IInv, JobsOK, Preparing
<1>3. JobOK(obj, "member", j)
  BY <1>2 DEF JobOK
<1>4. j.cur \in {0} \cup DOMAIN obj
  BY <1>3, TipIsCommit
<1>5. /\ c.parent = j.cur /\ c.members = j.todo /\ c.kind = "binder"
      /\ c.past = Reached(obj, j.cur) \cup {made + 1}
  BY DEF NewCommit, Reached, Past
<1>6. made + 1 \notin DOMAIN obj /\ ObjOK(obj, made)
  BY DEF IInv, ObjOK
<1>7. Commits(obj, j.todo) /\ FreeMembers(obj, j.todo)
  BY <1>1, <1>2 DEF JobOK, InHand, BatchInv, HandsOK
<1>8. \A q \in Terminals \ {p} : pc[q] \in Preparing => Apart(j.todo, job[q].todo)
  BY <1>1, <1>2 DEF BatchInv, HandsOK
<1> HIDE DEF c, j
<1>9. DOMAIN obj' = DOMAIN obj \cup {made + 1} /\ obj'[made + 1] = c /\ Grows(obj, obj')
  BY <1>1, <1>6 DEF With, Grows
<1>10. BatchesOK(obj') /\ BindersIn(obj') = BindersIn(obj) \cup {made + 1}
  <2>1. BatchesOK(obj)
    BY DEF BatchInv
  <2>2. QED
    BY <2>1, <1>5, <1>6, <1>7, <1>9, NewBinder
<1>11. PlacesOK(obj')
  <2>1. PlacesOK(obj)
    BY DEF BatchInv
  <2>2. QED
    BY <2>1, <1>4, <1>5, <1>6, <1>9, PlacesGrow
<1>12. ASSUME NEW q \in Terminals \ {p}, pc[q] \in Preparing
       PROVE  FreeMembers(obj', job[q].todo)
  <2>1. Commits(obj, job[q].todo) /\ FreeMembers(obj, job[q].todo)
    BY <1>12, InHandCommits DEF BatchInv, HandsOK
  <2>2. \A i \in DOMAIN job[q].todo : job[q].todo[i] \notin MembersIn(obj', made + 1)
    BY <1>5, <1>8, <1>9, <1>12 DEF Apart, MembersIn
  <2>3. QED
    BY <1>6, <1>9, <1>10, <2>1, <2>2, FreeStays
<1>13. TagsOK' /\ tags \subseteq tags'
  BY <1>1, <1>9, TagsStay
<1>14. PublishOK(obj', tags', "idle", Idle) /\ "idle" \notin Preparing
  BY NothingToPublish DEF Preparing
<1>15. QED
  BY <1>1, <1>9, <1>10, <1>11, <1>12, <1>13, <1>14, BatchGoing

-----------------------------------------------------------------------------
\* The commands that publish, and batches.

\* Beginning to publish x, which the step has tagged or found tagged.
LEMMA BeginPublishing ==
  ASSUME IInv, BatchInv, obj' = obj, NEW x \in DOMAIN obj, tags' \in {tags, tags \cup {x}},
         MembersAlone \/ obj[x].kind = "binder" \/ obj[x].batch = << >> \/ tags' = tags,
         NEW p \in Terminals, NEW l, l.x = x,
         pc' = [pc EXCEPT ![p] = "check"], job' = [job EXCEPT ![p] = l],
         IF obj[x].kind = "binder"
           THEN /\ l.old = Root(obj, x)
                /\ \A i \in DOMAIN l.todo : l.todo[i] \in MembersIn(obj, x) \cup {x}
           ELSE \A i \in DOMAIN l.todo : l.todo[i] = x
  PROVE  BatchInv'
<1>1. /\ Grows(obj, obj') /\ BatchesOK(obj') /\ BindersIn(obj') = BindersIn(obj) /\ PlacesOK(obj')
      /\ tags \subseteq tags'
  BY NothingMade
<1>2. TagsOK'
  BY DEF BatchInv, TagsOK
<1>3. \A q \in Terminals \ {p} : pc[q] \in Preparing => FreeMembers(obj', job[q].todo)
  BY <1>1, OthersFree
<1>4. PublishOK(obj', tags', "check", l) /\ "check" \notin Preparing
  BY DEF PublishOK, Preparing
<1>5. QED
  BY <1>1, <1>2, <1>3, <1>4, BatchGoing

LEMMA PromoteKeepsBatches ==
  ASSUME IInv, BatchInv, NEW p \in Terminals, NEW c \in DOMAIN obj, obj[c].kind # "binder",
         Promote(p, c) \/ Publish(p, c)
  PROVE  BatchInv'
<1>1. PICK cmd \in {"promote", "publish"} :
        /\ job' = [job EXCEPT ![p] = [Idle EXCEPT !.cmd = cmd, !.todo = <<c>>, !.old = head,
                                                  !.cur = head, !.x = c]]
        /\ pc' = [pc EXCEPT ![p] = "check"]
        /\ obj' = obj /\ tags' \in {tags, tags \cup {c}}
        /\ MembersAlone \/ obj[c].batch = << >> \/ tags' = tags
  BY DEF Promote, Publish, Goto
<1> DEFINE l == [Idle EXCEPT !.cmd = cmd, !.todo = <<c>>, !.old = head, !.cur = head, !.x = c]
<1>2. l.todo = <<c>> /\ l.x = c /\ job' = [job EXCEPT ![p] = l]
  BY <1>1 DEF Idle
<1> HIDE DEF l
<1>3. \A i \in DOMAIN l.todo : l.todo[i] = c
  BY <1>2
<1>4. MembersAlone \/ obj[c].kind = "binder" \/ obj[c].batch = << >> \/ tags' = tags
  BY <1>1
<1>5. IF obj[c].kind = "binder"
           THEN /\ l.old = Root(obj, c)
                /\ \A i \in DOMAIN l.todo : l.todo[i] \in MembersIn(obj, c) \cup {c}
           ELSE \A i \in DOMAIN l.todo : l.todo[i] = c
  BY <1>3
<1>6. obj' = obj /\ tags' \in {tags, tags \cup {c}} /\ pc' = [pc EXCEPT ![p] = "check"]
  BY <1>1
<1>7. QED
  BY <1>2, <1>4, <1>5, <1>6, BeginPublishing

LEMMA PromoteBatchKeepsBatches ==
  ASSUME IInv, BatchInv, NEW p \in Terminals, NEW b, NEW halt, PromoteBatch(p, b, halt)
  PROVE  BatchInv'
<1> DEFINE s == Chain(b)
           todo == SubSeq(s, 1, halt)
           all == IF halt = Len(s) THEN Append(todo, b) ELSE todo
           l == [Idle EXCEPT !.cmd = "promote", !.old = head, !.cur = head, !.x = b, !.todo = all]
<1>1. /\ b \in DOMAIN obj /\ obj[b].kind = "binder" /\ halt \in 1..Len(s)
      /\ pc' = [pc EXCEPT ![p] = "check"] /\ job' = [job EXCEPT ![p] = l]
      /\ obj' = obj /\ tags' = tags \cup {b} /\ BaseOf(b) = head
  BY DEF PromoteBatch, Binders, IInv, RefsOK, Goto
<1>2. l.todo = all /\ l.x = b /\ l.old = head
  BY DEF Idle
<1>3. b # 0 /\ CommitOK(obj, b)
  BY <1>1 DEF IInv, ObjOK
<1>4. \E S : s \in Seq(S)
  BY <1>1, <1>3 DEF CommitOK, Kind, Chain
<1>5. MembersIn(obj, b) = {s[i] : i \in DOMAIN s} /\ Root(obj, b) = head
  BY <1>1 DEF MembersIn, Chain, Root, BaseOf, Parent
<1> HIDE DEF l, s
<1>6. PICK S : s \in Seq(S)
  BY <1>4
<1>7. /\ todo \in Seq(S) /\ Len(todo) = halt /\ DOMAIN s = 1..Len(s)
      /\ \A i \in 1..halt : i \in DOMAIN s /\ todo[i] = s[i]
  BY <1>1, <1>6
<1>8. /\ DOMAIN todo = 1..halt /\ halt \in Nat
      /\ \A i \in DOMAIN todo : todo[i] \in MembersIn(obj, b)
  BY <1>1, <1>5, <1>7
<1> HIDE DEF todo
<1>9. \A i \in DOMAIN Append(todo, b) : Append(todo, b)[i] \in MembersIn(obj, b) \cup {b}
  <2>1. todo \in Seq(S \cup {b})
    BY <1>7
  <2>2. \A i \in DOMAIN Append(todo, b) :
           Append(todo, b)[i] = b \/ (i \in DOMAIN todo /\ Append(todo, b)[i] = todo[i])
    BY <2>1
  <2>3. QED
    BY <2>2, <1>8
<1>10. \A i \in DOMAIN all : all[i] \in MembersIn(obj, b) \cup {b}
  BY <1>8, <1>9
<1> HIDE DEF all
<1>11. QED
  BY <1>1, <1>2, <1>5, <1>10, BeginPublishing

LEMMA CheckKeepsBatches ==
  ASSUME IInv, BatchInv, NEW p \in Terminals, Check(p)
  PROVE  BatchInv'
<1> DEFINE j == job[p]
           l == [j EXCEPT !.cur = head]
<1>1. /\ pc[p] = "check" /\ obj' = obj /\ tags' = tags
  BY DEF Check, Refused
<1>2. CASE Publishable(j)
  <2>1. pc' = [pc EXCEPT ![p] = "move"] /\ job' = [job EXCEPT ![p] = l] /\ "move" \notin Preparing
    BY <1>2 DEF Check, Goto, Preparing
  <2>2. PublishOK(obj, tags, "check", j) /\ DOMAIN j = Fields
    BY <1>1 DEF IInv, ShapeOK, BatchInv
  <2>3. l.todo = j.todo /\ l.x = j.x /\ l.old = j.old
    BY <2>2 DEF Fields
  <2>4. j.x \in tags
    BY <1>2 DEF Publishable
  <2> HIDE DEF l, j
  <2>5. PublishOK(obj, tags, "move", l)
    BY <2>2, <2>3, <2>4 DEF PublishOK
  <2>6. QED
    BY <1>1, <2>1, <2>5, GoingOn
<1>3. CASE ~Publishable(j)
  <2>1. Stop(p)
    BY <1>3 DEF Check, Refused
  <2>2. QED
    BY <1>1, <2>1, BatchStops
<1>4. QED
  BY <1>2, <1>3

LEMMA MoveKeepsBatches ==
  ASSUME IInv, BatchInv, NEW p \in Terminals, Move(p)
  PROVE  BatchInv'
<1> DEFINE j == job[p]
           l == [j EXCEPT !.cur = j.todo[1], !.todo = Tail(@)]
<1>1. pc[p] = "move" /\ obj' = obj /\ tags' = tags
  BY DEF Move
<1>2. PublishOK(obj, tags, "move", j) /\ DOMAIN j = Fields
  BY <1>1 DEF IInv, ShapeOK, BatchInv
<1>3. \/ Stop(p)
      \/ \E k : pc' = [pc EXCEPT ![p] = "sync"] /\ job' = [job EXCEPT ![p] = k]
      \/ head = j.cur /\ pc' = [pc EXCEPT ![p] = "move"] /\ job' = [job EXCEPT ![p] = l]
  BY DEF Move, Landed, Goto
<1>4. CASE Stop(p)
  BY <1>1, <1>4, BatchStops
<1>5. CASE \E k : pc' = [pc EXCEPT ![p] = "sync"] /\ job' = [job EXCEPT ![p] = k]
  <2>1. PICK k : pc' = [pc EXCEPT ![p] = "sync"] /\ job' = [job EXCEPT ![p] = k]
    BY <1>5
  <2>2. PublishOK(obj, tags, "sync", k) /\ "sync" \notin Preparing
    BY NothingToPublish DEF Preparing
  <2>3. QED
    BY <1>1, <2>1, <2>2, GoingOn
<1>6. CASE head = j.cur /\ pc' = [pc EXCEPT ![p] = "move"] /\ job' = [job EXCEPT ![p] = l]
  <2>1. PICK S : j.todo \in Seq(S)
    BY <1>6, MoveGoesToChild
  <2>2. j.todo # << >>
    BY <1>6, MoveGoesToChild
  <2>3. l.todo = Tail(j.todo) /\ l.x = j.x /\ l.old = j.old
    BY <1>2 DEF Fields
  <2> HIDE DEF l, j
  <2>4. \A i \in DOMAIN Tail(j.todo) : i + 1 \in DOMAIN j.todo /\ Tail(j.todo)[i] = j.todo[i + 1]
    BY <2>1, <2>2
  <2>5. PublishOK(obj, tags, "move", l)
    BY <1>2, <2>3, <2>4 DEF PublishOK
  <2>6. "move" \notin Preparing
    BY DEF Preparing
  <2>7. QED
    BY <1>1, <1>6, <2>5, <2>6, GoingOn
<1>7. QED
  BY <1>3, <1>4, <1>5, <1>6

LEMMA TidyingKeepsBatches ==
  ASSUME IInv, BatchInv, NEW p \in Terminals,
         SyncTree(p) \/ DropRefs(p) \/ \E x, last : Rollback(p, x, last)
  PROVE  BatchInv'
<1>1. obj' = obj /\ tags' = tags
  BY DEF SyncTree, DropRefs, Rollback
<1>2. \/ Stop(p)
      \/ \E to \in {"drop", "undo"} : \E l :
             pc' = [pc EXCEPT ![p] = to] /\ job' = [job EXCEPT ![p] = l]
  BY DEF SyncTree, DropRefs, Rollback, Goto
<1>3. CASE Stop(p)
  BY <1>1, <1>3, BatchStops
<1>4. ASSUME NEW to \in {"drop", "undo"}, NEW l,
             pc' = [pc EXCEPT ![p] = to], job' = [job EXCEPT ![p] = l]
      PROVE  BatchInv'
  <2>1. PublishOK(obj, tags, to, l) /\ to \notin Preparing
    BY <1>4, NothingToPublish DEF Preparing
  <2>2. QED
    BY <1>1, <1>4, <2>1, GoingOn
<1>5. QED
  BY <1>2, <1>3, <1>4

LEMMA PrepareRollbackKeepsBatches ==
  ASSUME IInv, BatchInv, NEW p \in Terminals, PrepareRollback(p)
  PROVE  BatchInv'
<1> DEFINE c == Inverse(job[p].views[1])
           l == [job[p] EXCEPT !.views = Tail(@), !.x = made + 1, !.todo = <<made + 1>>]
<1>1. /\ obj' = With(obj, made + 1, c) /\ tags' = tags
      /\ pc' = [pc EXCEPT ![p] = "name"] /\ job' = [job EXCEPT ![p] = l]
  BY DEF PrepareRollback, Make, Goto
<1>2. /\ c.kind = "rollback" /\ c.batch = << >> /\ c.parent = head
      /\ c.past = Reached(obj, head) \cup {made + 1}
  BY DEF Inverse, NewCommit, Reached, Past
<1>3. l.x = made + 1
  BY DEF IInv, ShapeOK, Fields
<1> HIDE DEF c, l
<1>4. made + 1 \notin DOMAIN obj /\ head \in {0} \cup DOMAIN obj
  BY DEF IInv, ObjOK, RefsOK
<1>5. /\ Grows(obj, obj') /\ BatchesOK(obj') /\ BindersIn(obj') = BindersIn(obj) /\ PlacesOK(obj')
      /\ obj'[made + 1] = c
  BY <1>1, <1>2, <1>4, PlainMade
<1>6. TagsOK' /\ tags \subseteq tags'
  BY <1>1, <1>5, TagsStay
<1>7. \A q \in Terminals \ {p} : pc[q] \in Preparing => FreeMembers(obj', job[q].todo)
  BY <1>5, OthersFree
<1>8. PublishOK(obj', tags', "name", l) /\ "name" \notin Preparing
  BY <1>2, <1>3, <1>5 DEF PublishOK, Preparing
<1>9. QED
  BY <1>1, <1>5, <1>6, <1>7, <1>8, BatchGoing

LEMMA TagRollbackKeepsBatches ==
  ASSUME IInv, BatchInv, NEW p \in Terminals, TagRollback(p)
  PROVE  BatchInv'
<1> DEFINE l == job[p]
<1>1. /\ pc[p] = "name" /\ obj' = obj /\ tags' = tags \cup {l.x}
      /\ pc' = [pc EXCEPT ![p] = "check"] /\ job' = [job EXCEPT ![p] = l]
  BY DEF TagRollback, Goto
<1>2. JobOK(obj, "name", l) /\ PublishOK(obj, tags, "name", l)
  BY <1>1 DEF IInv, JobsOK, BatchInv
<1> HIDE DEF l
<1>3. /\ l.x \in DOMAIN obj /\ obj[l.x].kind # "binder" /\ obj[l.x].batch = << >>
      /\ l.todo = <<l.x>>
  BY <1>2 DEF JobOK, PublishOK
<1>4. \A i \in DOMAIN l.todo : l.todo[i] = l.x
  BY <1>3
<1>5. QED
  BY <1>1, <1>3, <1>4, BeginPublishing

LEMMA SessionCommitsKeepsBatches ==
  ASSUME IInv, BatchInv, SessionCommits
  PROVE  BatchInv'
<1>1. PICK c : /\ obj' = With(obj, session.id, c) /\ c.parent = head /\ c.kind = "run"
               /\ c.past = Past(head) \cup {session.id} /\ session.wrote # {}
               /\ UNCHANGED <<tags, pc, job>>
  BY DEF SessionCommits
<1>2. session.id \notin DOMAIN obj /\ head \in {0} \cup DOMAIN obj /\ Past(head) = Reached(obj, head)
  BY <1>1 DEF IInv, RefsOK, Past, Reached
<1>3. /\ Grows(obj, obj') /\ BatchesOK(obj') /\ BindersIn(obj') = BindersIn(obj) /\ PlacesOK(obj')
  BY <1>1, <1>2, PlainMade
<1>4. TagsOK' /\ tags \subseteq tags'
  BY <1>1, <1>3, TagsStay
<1>5. \A q \in Terminals : pc[q] \in Preparing => FreeMembers(obj', job[q].todo)
  BY <1>3, OthersFree
<1>6. QED
  BY <1>1, <1>3, <1>4, <1>5, BatchWaiting

LEMMA StepKeepsBatches ==
  ASSUME IInv, BatchInv, [Next]_vars
  PROVE  BatchInv'
<1>1. ASSUME NEW p \in Terminals, Command(p)
      PROVE  BatchInv'
  <2>1. CASE \E v \in Views : Propose(p, v)
    BY <2>1, ProposeKeepsBatches
  <2>2. CASE \E v, w \in Views : v # w /\ ProposeBatch(p, <<v, w>>)
    BY <2>2, ProposeBatchKeepsBatches
  <2>3. CASE Recover(p) \/ \E x \in prepared : Discard(p, x)
    <3>1. UNCHANGED <<obj, tags, pc, job>>
      BY <2>3 DEF Recover, Discard
    <3> QED
      BY <3>1, BatchUnmoved
  <2>4. CASE \E x \in prepared : Promote(p, x)
    <3>1. PICK x \in prepared : Promote(p, x)
      BY <2>4
    <3>2. x \in DOMAIN obj /\ obj[x].kind # "binder"
      BY <3>1 DEF Promote, Binders, IInv, RefsOK
    <3> QED
      BY <3>1, <3>2, PromoteKeepsBatches
  <2>5. CASE \E b \in Binders : \E halt \in 1..2 : PromoteBatch(p, b, halt)
    BY <2>5, PromoteBatchKeepsBatches
  <2>6. CASE \E c \in tags : Publish(p, c)
    <3>1. PICK c \in tags : Publish(p, c)
      BY <2>6
    <3>2. c \in DOMAIN obj /\ c # 0
      BY DEF IInv, RefsOK, ObjOK
    <3>3. obj[c].kind # "binder"
      BY <3>1, <3>2 DEF Publish, Is
    <3> QED
      BY <3>1, <3>2, <3>3, PromoteKeepsBatches
  <2>7. CASE \E x \in DOMAIN obj : \E last \in 1..2 : Rollback(p, x, last)
    BY <2>7, TidyingKeepsBatches
  <2> QED
    BY <1>1, <2>1, <2>2, <2>3, <2>4, <2>5, <2>6, <2>7 DEF Command
<1>2. ASSUME NEW p \in Terminals, Step(p)
      PROVE  BatchInv'
  <2>1. CASE Member(p) \/ Binder(p) \/ PrepareRollback(p)
    BY <2>1, MemberKeepsBatches, BinderKeepsBatches, PrepareRollbackKeepsBatches
  <2>2. CASE BatchRefused(p) \/ RollbackStops(p)
    <3>1. obj' = obj /\ tags' = tags /\ Stop(p)
      BY <2>2 DEF BatchRefused, RollbackStops, Refused
    <3> QED
      BY <3>1, BatchStops
  <2>3. CASE Check(p) \/ Move(p) \/ TagRollback(p)
    BY <2>3, CheckKeepsBatches, MoveKeepsBatches, TagRollbackKeepsBatches
  <2>4. CASE SyncTree(p) \/ DropRefs(p)
    BY <2>4, TidyingKeepsBatches
  <2> QED
    BY <1>2, <2>1, <2>2, <2>3, <2>4 DEF Step
<1>3. ASSUME NEW p \in Terminals, Crash(p)
      PROVE  BatchInv'
  <2>1. obj' = obj /\ tags' = tags /\ Stop(p)
    BY <1>3 DEF Crash
  <2> QED
    BY <2>1, BatchStops
<1>4. CASE ResetTree \/ (\E v \in Views : SessionWrites(v)) \/ UNCHANGED vars
  <2>1. UNCHANGED <<obj, tags, pc, job>>
    BY <1>4 DEF ResetTree, SessionWrites, vars
  <2> QED
    BY <2>1, BatchUnmoved
<1>5. CASE SessionCommits
  BY <1>5, SessionCommitsKeepsBatches
<1> QED
  BY <1>1, <1>2, <1>3, <1>4, <1>5 DEF Next

LEMMA StartBatches == Init => BatchInv
<1> SUFFICES ASSUME Init PROVE BatchInv
  OBVIOUS
<1>1. obj = << >> /\ DOMAIN obj = {} /\ tags = {} /\ \A q \in Terminals : pc[q] = "idle"
  BY DEF Init
<1>2. PlacesOK(obj) /\ BatchesOK(obj) /\ TagsOK
  BY <1>1 DEF PlacesOK, BatchesOK, BindersIn, TagsOK
<1>3. HandsOK
  BY <1>1 DEF HandsOK, Preparing
<1>4. \A q \in Terminals : PublishOK(obj, tags, pc[q], job[q])
  BY <1>1, NothingToPublish
<1> QED
  BY <1>2, <1>3, <1>4 DEF BatchInv

-----------------------------------------------------------------------------
\* What a step puts on the branch: nothing, the next commit of a chain that was
\* found publishable, or the commit of a session.

StartedThere == \A b \in DOMAIN obj : Is(b, "binder") =>
                  \A m \in Members(b) : Published(m) =>
                    \E p \in Terminals : /\ pc[p] = "move"
                                         /\ job[p].old = Parent(obj[b].members[1])

LEMMA PastStays ==
  ASSUME IInv, head' = head, Grows(obj, obj')
  PROVE  StartedThere
<1>1. (Past(head))' = Past(head)
  BY DEF Past, Grows, IInv, RefsOK
<1>2. \A m : ~Published(m)
  BY <1>1 DEF Published
<1>3. QED
  BY <1>2 DEF StartedThere

LEMMA OneCommit ==
  ASSUME IInv, PlacesOK(obj), NEW p \in Terminals, Move(p), head = job[p].cur
  PROVE  (Past(head))' = Past(head) \cup {job[p].todo[1]}
<1>1. head' = job[p].todo[1] /\ head' \in DOMAIN obj /\ obj[head'].parent = head
  BY MoveGoesToChild
<1>2. obj' = obj /\ head' # 0
  BY <1>1 DEF Move, IInv, ObjOK
<1>3. (Past(head))' = obj[head'].past
  BY <1>2 DEF Past
<1>4. obj[head'].past = Reached(obj, head) \cup {head'}
  BY <1>1 DEF PlacesOK
<1>5. QED
  BY <1>1, <1>3, <1>4 DEF Past, Reached

LEMMA MoveStartedThere ==
  ASSUME ~MembersAlone, IInv, BatchInv, NEW p \in Terminals, Move(p)
  PROVE  StartedThere
<1> DEFINE j == job[p]
           c == j.todo[1]
<1>1. pc[p] = "move" /\ obj' = obj /\ Grows(obj, obj')
  BY DEF Move, Grows
<1>2. CASE head # j.cur
  <2>1. head' = head
    BY <1>2 DEF Move
  <2>2. QED
    BY <1>1, <2>1, PastStays
<1>3. CASE head = j.cur
  <2>1. (Past(head))' = Past(head) \cup {c}
    BY <1>3, OneCommit DEF BatchInv
  <2>2. /\ PublishOK(obj, tags, "move", j) /\ BatchesOK(obj)
        /\ \A x \in tags : obj[x].kind = "binder" \/ obj[x].batch = << >>
    BY <1>1 DEF BatchInv, TagsOK
  <2>3. 1 \in DOMAIN j.todo
    <3>1. (\E S : j.todo \in Seq(S)) /\ j.todo # << >>
      BY <1>3, MoveGoesToChild
    <3> HIDE DEF j
    <3>2. QED
      BY <3>1
  <2> HIDE DEF j
  <2>4. ASSUME NEW b \in DOMAIN obj, Is(b, "binder"), NEW m \in Members(b), Published(m)
        PROVE  j.old = Parent(obj[b].members[1])
    <3>1. b \in BindersIn(obj) /\ m \in MembersIn(obj, b) /\ m = c
      BY <2>1, <2>4 DEF Is, BindersIn, Members, MembersIn, Published
    <3>2. OfBatch(obj, m)
      BY <2>2, <3>1 DEF BatchesOK
    <3>3. j.x \in DOMAIN obj /\ j.x \in tags
      BY <2>2 DEF PublishOK
    <3>4. CASE obj[j.x].kind = "binder"
      <4>1. j.old = Root(obj, j.x) /\ c \in MembersIn(obj, j.x) \cup {j.x}
        BY <2>2, <2>3, <3>4 DEF PublishOK
      <4>2. m # j.x
        BY <3>2, <3>4 DEF OfBatch
      <4>3. j.x = b
        BY <2>2, <3>1, <3>3, <3>4, <4>1, <4>2 DEF BatchesOK, BindersIn
      <4>4. QED
        BY <3>4, <4>1, <4>3 DEF Root, Parent
    <3>5. CASE obj[j.x].kind # "binder"
      <4>1. c = j.x
        BY <2>2, <2>3, <3>5 DEF PublishOK
      <4>2. QED
        BY <2>2, <3>1, <3>2, <3>3, <3>5, <4>1 DEF OfBatch
    <3>6. QED
      BY <3>4, <3>5
  <2>5. QED
    BY <1>1, <2>4 DEF StartedThere, j
<1>4. QED
  BY <1>2, <1>3

LEMMA SessionStartedThere ==
  ASSUME IInv, BatchInv, SessionCommits
  PROVE  StartedThere
<1>1. PICK c : /\ obj' = With(obj, session.id, c) /\ head' = session.id
               /\ c.past = Past(head) \cup {session.id} /\ session.wrote # {}
  BY DEF SessionCommits
<1>2. session.id \notin DOMAIN obj /\ session.id # 0
  BY <1>1 DEF IInv, RefsOK, ObjOK
<1>3. (Past(head))' = Past(head) \cup {session.id}
  BY <1>1, <1>2 DEF Past, With
<1>4. \A b \in BindersIn(obj) : MembersIn(obj, b) \subseteq DOMAIN obj
  BY MembersAreCommits DEF IInv
<1>5. ASSUME NEW b \in DOMAIN obj, Is(b, "binder"), NEW m \in Members(b)
      PROVE  ~Published(m)
  <2>1. m \in DOMAIN obj
    BY <1>4, <1>5 DEF Is, BindersIn, Members, MembersIn
  <2>2. QED
    BY <1>2, <1>3, <2>1 DEF Published
<1>6. QED
  BY <1>5 DEF StartedThere

LEMMA StepStartedThere ==
  ASSUME ~MembersAlone, IInv, BatchInv, [Next]_vars
  PROVE  StartedThere
<1>1. CASE \E p \in Terminals : Move(p)
  BY <1>1, MoveStartedThere
<1>2. CASE SessionCommits
  BY <1>2, SessionStartedThere
<1>3. CASE head' = head /\ Grows(obj, obj')
  BY <1>3, PastStays
<1>4. ASSUME NEW p \in Terminals, Command(p) \/ Crash(p) \/ (Step(p) /\ ~Move(p))
      PROVE  head' = head /\ Grows(obj, obj')
  <2>1. head' = head
    BY <1>4 DEF Command, Crash, Step, Propose, ProposeBatch, Recover, Discard, Promote, PromoteBatch,
                Publish, Rollback, Member, Binder, BatchRefused, Check, SyncTree, DropRefs,
                PrepareRollback, RollbackStops, TagRollback, Refused
  <2>2. obj' = obj \/ \E c : obj' = With(obj, made + 1, c)
    BY <1>4 DEF Command, Crash, Step, Propose, ProposeBatch, Recover, Discard, Promote, PromoteBatch,
                Publish, Rollback, Member, Binder, BatchRefused, Check, SyncTree, DropRefs,
                PrepareRollback, RollbackStops, TagRollback, Refused, Make
  <2>3. made + 1 \notin DOMAIN obj
    BY DEF IInv, ObjOK
  <2>4. Grows(obj, obj')
    BY <2>2, <2>3 DEF With, Grows
  <2>5. QED
    BY <2>1, <2>4
<1>5. ASSUME ResetTree \/ (\E v \in Views : SessionWrites(v)) \/ UNCHANGED vars
      PROVE  head' = head /\ Grows(obj, obj')
  BY <1>5 DEF ResetTree, SessionWrites, vars, Grows
<1>6. QED
  BY <1>1, <1>2, <1>3, <1>4, <1>5 DEF Next

\* Unless an operator promotes a member of a batch by its own digest, a member goes
\* onto the branch only by a command that began where the batch was prepared: what
\* is left of a batch that stopped never publishes (trust.py:1151).
THEOREM RemainderStaysOutHolds == ~MembersAlone => (Spec => RemainderStaysOut)
<1> SUFFICES ASSUME ~MembersAlone PROVE Spec => RemainderStaysOut
  OBVIOUS
<1>1. Init => IInv /\ BatchInv
  BY StartOK, StartBatches
<1>2. IInv /\ BatchInv /\ [Next]_vars => IInv' /\ BatchInv'
  BY StepKeeps, StepKeepsBatches
<1>3. IInv /\ BatchInv /\ [Next]_vars => [StartedThere]_vars
  BY StepStartedThere
<1>4. Spec => [][StartedThere]_vars
  BY <1>1, <1>2, <1>3, PTL DEF Spec
<1>5. [StartedThere]_vars <=>
        [\A b \in DOMAIN obj : Is(b, "binder") =>
           \A m \in Members(b) : Published(m) =>
             \E p \in Terminals : pc[p] = "move" /\ job[p].old = Parent(obj[b].members[1])]_vars
  BY DEF StartedThere
<1> QED
  BY <1>4, <1>5, PTL DEF RemainderStaysOut

-----------------------------------------------------------------------------
(* Trees. The journal of a commit holds the record of every retirement and *)
(* rollback behind it. Its text is the text of its parent with one layer   *)
(* more, or for a rollback with one layer less, which was a retirement.    *)

TreeIn(o, c) == IF c = 0 THEN Empty ELSE o[c].tree
Record(o, x) == x # 0 /\ o[x].kind \in {"retire", "rollback"}
Kinds == {"retire", "rollback", "run", "binder"}

JournalOK(o, c) == \A y \in o[c].past : Record(o, y) => /\ o[y].seq \in DOMAIN o[c].tree.journal
                                                        /\ o[c].tree.journal[o[y].seq] = y

Pushed(f, v, x) == [f EXCEPT ![v] = Append(@, x)]
Popped(f, v) == [f EXCEPT ![v] = SubSeq(@, 1, Len(@) - 1)]
Top(s) == s[Len(s)]

\* The texts of a commit, new, from those of its parent, old.
TextOK(o, c, old, new) ==
  LET v == o[c].view
  IN /\ o[c].kind \in Kinds /\ new \in [Views -> Seq(o[c].past \ {0})]
     /\ o[c].kind \in {"retire", "run"} => v \in Views /\ new = Pushed(old, v, c)
     /\ o[c].kind = "binder" => new = old
     /\ o[c].kind = "rollback" =>
          /\ v \in Views /\ old[v] # << >> /\ new = Popped(old, v)
          /\ Top(old[v]) \in Reached(o, o[c].parent) \ {0} /\ o[Top(old[v])].kind = "retire"

TreeOK(o, c) == /\ o[c].past \subseteq {0} \cup DOMAIN o /\ c \notin Reached(o, o[c].parent)
                /\ JournalOK(o, c)
                /\ TextOK(o, c, TreeIn(o, o[c].parent).text, o[c].tree.text)

TreesOK(o) == \A c \in DOMAIN o : TreeOK(o, c)

\* What a batch has yet to prepare.
ViewsOK == \A q \in Terminals : pc[q] = "member" =>
              job[q].views \in Seq(Views) /\ Len(job[q].todo) < Len(job[q].views)

\* While a session writes nobody publishes, so it holds the next layer and record.
Aside == {"idle", "member", "binder"}
SessionOK == session.wrote # {} =>
   /\ \A q \in Terminals : pc[q] \in Aside
   /\ session # NoSession /\ session.wrote \subseteq Views
   /\ \A v \in session.wrote : tree.text[v] = Append(TreeOf(head).text[v], session.id)
   /\ session.seq = NextSeq(head) /\ Contiguous(TreeOf(head).journal)

TreeInv == TreesOK(obj) /\ ViewsOK /\ SessionOK

LEMMA TextFrom ==
  ASSUME NEW o, TreesOK(o), NEW k, ObjOK(o, k), NEW q \in {0} \cup DOMAIN o
  PROVE  /\ TreeIn(o, q).text \in [Views -> Seq(Reached(o, q) \ {0})]
         /\ Reached(o, q) \subseteq {0} \cup DOMAIN o
<1>1. CASE q = 0
  <2>1. Reached(o, q) = {0} /\ TreeIn(o, q).text = [v \in Views |-> << >>]
    BY <1>1 DEF Reached, TreeIn, Empty
  <2>2. << >> \in Seq({0} \ {0})
    OBVIOUS
  <2>3. QED
    BY <2>1, <2>2
<1>2. CASE q # 0
  <2>1. TreeOK(o, q) /\ Reached(o, q) = o[q].past /\ TreeIn(o, q) = o[q].tree
    BY <1>2 DEF TreesOK, Reached, TreeIn
  <2>2. QED
    BY <2>1 DEF TreeOK, TextOK
<1>3. QED
  BY <1>1, <1>2

LEMMA TreeStays ==
  ASSUME NEW o, NEW k, ObjOK(o, k), NEW n, Grows(o, n), NEW c \in DOMAIN o, TreeOK(o, c)
  PROVE  TreeOK(n, c)
<1> DEFINE p == o[c].parent
<1>1. n[c] = o[c] /\ c \in DOMAIN n /\ DOMAIN o \subseteq DOMAIN n
  BY DEF Grows
<1>2. p \in {0} \cup DOMAIN o
  BY DEF ObjOK, CommitOK
<1>3. Reached(n, p) = Reached(o, p) /\ TreeIn(n, p) = TreeIn(o, p)
  BY <1>2 DEF Reached, TreeIn, Grows
<1>4. Reached(o, p) \subseteq {0} \cup DOMAIN o
  BY DEF ObjOK, CommitOK, TreeOK
<1>5. \A y \in {0} \cup DOMAIN o : (Record(n, y) <=> Record(o, y)) /\ (y # 0 => n[y] = o[y])
  BY DEF Record, Grows
<1>6. JournalOK(n, c)
  BY <1>1, <1>5 DEF JournalOK, TreeOK, Record
<1>7. TextOK(n, c, TreeIn(n, p).text, o[c].tree.text)
  <2>1. TextOK(o, c, TreeIn(o, p).text, o[c].tree.text)
    BY DEF TreeOK
  <2> DEFINE old == TreeIn(o, p).text
             new == o[c].tree.text
             t == Top(old[o[c].view])
  <2> HIDE DEF p, old, new
  <2>2. t \in Reached(o, p) \ {0} => n[t] = o[t]
    BY <1>4, <1>5
  <2>3. QED
    BY <1>1, <1>3, <2>1, <2>2 DEF TextOK, p, old, new
<1>8. QED
  BY <1>1, <1>3, <1>6, <1>7 DEF TreeOK

LEMMA TreesGrow ==
  ASSUME NEW o, NEW k, ObjOK(o, k), NEW n, Grows(o, n), NEW i, DOMAIN n = DOMAIN o \cup {i},
         TreesOK(o), TreeOK(n, i)
  PROVE  TreesOK(n)
<1>1. \A c \in DOMAIN o : TreeOK(n, c)
  BY TreeStays DEF TreesOK
<1>2. QED
  BY <1>1 DEF TreesOK

\* A record, or the file of a run, that the journal had no entry for.
LEMMA JournalAdded ==
  ASSUME NEW o, NEW k, ObjOK(o, k), NEW n, Grows(o, n), TreesOK(o), NEW q \in {0} \cup DOMAIN o,
         NEW i, n[i].past = Reached(o, q) \cup {i}, NEW s, n[i].seq = s,
         s \notin DOMAIN TreeIn(o, q).journal,
         n[i].tree.journal = With(TreeIn(o, q).journal, s, i)
  PROVE  JournalOK(n, i)
<1> DEFINE f == TreeIn(o, q).journal
<1>1. ASSUME NEW y \in Reached(o, q), Record(n, y)
      PROVE  n[y].seq \in DOMAIN f /\ f[n[y].seq] = y
  <2>1. q # 0 /\ y # 0
    BY <1>1 DEF Reached, Record
  <2>2. TreeOK(o, q) /\ Reached(o, q) = o[q].past /\ f = o[q].tree.journal
    BY <2>1 DEF TreesOK, Reached, TreeIn
  <2>3. y \in DOMAIN o /\ n[y] = o[y]
    BY <1>1, <2>1, <2>2 DEF TreeOK, Grows
  <2>4. Record(o, y)
    BY <1>1, <2>3 DEF Record
  <2>5. QED
    BY <1>1, <2>2, <2>3, <2>4 DEF TreeOK, JournalOK
<1> HIDE DEF f
<1>2. \A y \in Reached(o, q) : Record(n, y) =>
          n[y].seq \in DOMAIN With(f, s, i) /\ With(f, s, i)[n[y].seq] = y
  BY <1>1 DEF With, f
<1>3. s \in DOMAIN With(f, s, i) /\ With(f, s, i)[s] = i
  BY DEF With
<1>4. QED
  BY <1>2, <1>3 DEF JournalOK, f

LEMMA JournalKept ==
  ASSUME NEW o, NEW k, ObjOK(o, k), NEW n, Grows(o, n), TreesOK(o), NEW q \in {0} \cup DOMAIN o,
         NEW i, n[i].past = Reached(o, q) \cup {i}, ~Record(n, i),
         n[i].tree.journal = TreeIn(o, q).journal
  PROVE  JournalOK(n, i)
<1>1. ASSUME NEW y \in Reached(o, q), Record(n, y)
      PROVE  n[y].seq \in DOMAIN n[i].tree.journal /\ n[i].tree.journal[n[y].seq] = y
  <2>1. q # 0 /\ y # 0
    BY <1>1 DEF Reached, Record
  <2>2. TreeOK(o, q) /\ Reached(o, q) = o[q].past /\ n[i].tree.journal = o[q].tree.journal
    BY <2>1 DEF TreesOK, Reached, TreeIn
  <2>3. y \in DOMAIN o /\ n[y] = o[y]
    BY <1>1, <2>1, <2>2 DEF TreeOK, Grows
  <2>4. Record(o, y)
    BY <1>1, <2>3 DEF Record
  <2>5. QED
    BY <1>1, <2>2, <2>3, <2>4 DEF TreeOK, JournalOK
<1>2. QED
  BY <1>1 DEF JournalOK

\* The next number of a journal without holes is free.
LEMMA NextIsFree ==
  ASSUME NEW f, Contiguous(f)
  PROVE  Next1(f) \notin DOMAIN f
<1> DEFINE m == Next1(f)
<1>1. DOMAIN f = 1..(m - 1)
  BY DEF Contiguous
<1> HIDE DEF m
<1>2. m \notin 1..(m - 1)
  OBVIOUS
<1>3. QED
  BY <1>1, <1>2 DEF m

LEMMA PushedText ==
  ASSUME NEW S, NEW f \in [Views -> Seq(S)], NEW v \in Views, NEW x, NEW T, S \subseteq T, x \in T
  PROVE  Pushed(f, v, x) \in [Views -> Seq(T)] /\ Pushed(f, v, x)[v] = Append(f[v], x)
<1>1. \A w \in Views : f[w] \in Seq(T)
  <2>1. ASSUME NEW w \in Views PROVE f[w] \in Seq(T)
    <3>1. f[w] \in Seq(S)
      OBVIOUS
    <3>2. QED
      BY <3>1
  <2>2. QED
    BY <2>1
<1>2. Append(f[v], x) \in Seq(T)
  BY <1>1
<1>3. QED
  BY <1>1, <1>2 DEF Pushed

LEMMA PoppedText ==
  ASSUME NEW S, NEW f \in [Views -> Seq(S)], NEW v \in Views, f[v] # << >>, NEW T, S \subseteq T
  PROVE  Popped(f, v) \in [Views -> Seq(T)] /\ Top(f[v]) \in S
<1>1. \A w \in Views : f[w] \in Seq(T)
  <2>1. ASSUME NEW w \in Views PROVE f[w] \in Seq(T)
    <3>1. f[w] \in Seq(S)
      OBVIOUS
    <3>2. QED
      BY <3>1
  <2>2. QED
    BY <2>1
<1>2. f[v] \in Seq(S) /\ Len(f[v]) \in Nat /\ Len(f[v]) >= 1
  OBVIOUS
<1>3. Len(f[v]) \in 1..Len(f[v])
  BY <1>2
<1>4. Top(f[v]) \in S
  BY <1>2, <1>3 DEF Top
<1>5. SubSeq(f[v], 1, Len(f[v]) - 1) \in Seq(T)
  BY <1>1, <1>2
<1>6. QED
  BY <1>1, <1>4, <1>5 DEF Popped

LEMMA LayerAdded ==
  ASSUME NEW o, NEW k, ObjOK(o, k), NEW n, Grows(o, n), NEW i, DOMAIN n = DOMAIN o \cup {i},
         i \notin {0} \cup DOMAIN o, TreesOK(o),
         NEW q \in {0} \cup DOMAIN o, n[i].parent = q, n[i].past = Reached(o, q) \cup {i},
         n[i].kind \in {"retire", "run"}, NEW v \in Views, n[i].view = v,
         NEW s, n[i].seq = s, s \notin DOMAIN TreeIn(o, q).journal,
         n[i].tree.journal = With(TreeIn(o, q).journal, s, i),
         n[i].tree.text = Pushed(TreeIn(o, q).text, v, i)
  PROVE  TreesOK(n)
<1>1. JournalOK(n, i)
  BY JournalAdded
<1>2. /\ TreeIn(o, q).text \in [Views -> Seq(Reached(o, q) \ {0})]
      /\ Reached(o, q) \subseteq {0} \cup DOMAIN o
  BY TextFrom
<1>3. Reached(n, q) = Reached(o, q) /\ TreeIn(n, q) = TreeIn(o, q)
  BY DEF Reached, TreeIn, Grows
<1>4. Reached(o, q) \ {0} \subseteq n[i].past \ {0} /\ i \in n[i].past \ {0}
  OBVIOUS
<1>5. n[i].tree.text \in [Views -> Seq(n[i].past \ {0})]
  <2> DEFINE S == Reached(o, q) \ {0}
             T == n[i].past \ {0}
             f == TreeIn(o, q).text
  <2>1. f \in [Views -> Seq(S)] /\ S \subseteq T /\ i \in T
    BY <1>2, <1>4
  <2> HIDE DEF S, T, f
  <2>2. Pushed(f, v, i) \in [Views -> Seq(T)]
    BY <2>1, PushedText
  <2>3. QED
    BY <2>2 DEF f, T
<1>6. TextOK(n, i, TreeIn(n, q).text, n[i].tree.text)
  BY <1>3, <1>5 DEF TextOK, Kinds
<1>7. TreeOK(n, i)
  BY <1>1, <1>2, <1>3, <1>6 DEF TreeOK
<1>8. QED
  BY <1>7, TreesGrow

LEMMA NothingLayered ==
  ASSUME NEW o, NEW k, ObjOK(o, k), NEW n, Grows(o, n), NEW i, DOMAIN n = DOMAIN o \cup {i},
         i \notin {0} \cup DOMAIN o, TreesOK(o),
         NEW q \in {0} \cup DOMAIN o, n[i].parent = q, n[i].past = Reached(o, q) \cup {i},
         n[i].kind = "binder", n[i].tree = TreeIn(o, q)
  PROVE  TreesOK(n)
<1>1. JournalOK(n, i)
  BY JournalKept DEF Record
<1>2. /\ TreeIn(o, q).text \in [Views -> Seq(Reached(o, q) \ {0})]
      /\ Reached(o, q) \subseteq {0} \cup DOMAIN o
  BY TextFrom
<1>3. Reached(n, q) = Reached(o, q) /\ TreeIn(n, q) = TreeIn(o, q)
  BY DEF Reached, TreeIn, Grows
<1>4. Reached(o, q) \ {0} \subseteq n[i].past \ {0}
  OBVIOUS
<1>5. n[i].tree.text \in [Views -> Seq(n[i].past \ {0})]
  <2>1. ASSUME NEW w \in Views PROVE n[i].tree.text[w] \in Seq(n[i].past \ {0})
    <3>1. n[i].tree.text[w] \in Seq(Reached(o, q) \ {0})
      BY <1>2
    <3>2. QED
      BY <3>1, <1>4
  <2>2. QED
    BY <1>2, <2>1
<1>6. TextOK(n, i, TreeIn(n, q).text, n[i].tree.text)
  BY <1>3, <1>5 DEF TextOK, Kinds
<1>7. TreeOK(n, i)
  BY <1>1, <1>2, <1>3, <1>6 DEF TreeOK
<1>8. QED
  BY <1>7, TreesGrow

\* The inverse of a retirement m that is the current generation of its view.
LEMMA LayerTaken ==
  ASSUME NEW o, NEW k, ObjOK(o, k), NEW n, Grows(o, n), NEW i, DOMAIN n = DOMAIN o \cup {i},
         i \notin {0} \cup DOMAIN o, TreesOK(o),
         NEW q \in {0} \cup DOMAIN o, n[i].parent = q, n[i].past = Reached(o, q) \cup {i},
         n[i].kind = "rollback", NEW m \in Reached(o, q), m # 0, o[m].kind = "retire",
         NEW v, v = o[m].view, n[i].view = v,
         NEW s, n[i].seq = s, s \notin DOMAIN TreeIn(o, q).journal,
         n[i].tree.journal = With(TreeIn(o, q).journal, s, i),
         TreeIn(o, q).text[v] = o[m].tree.text[v],
         n[i].tree.text = [TreeIn(o, q).text EXCEPT ![v] = TreeIn(o, o[m].parent).text[v]]
  PROVE  TreesOK(n)
<1> DEFINE old == TreeIn(o, q).text
           under == TreeIn(o, o[m].parent).text
<1>1. JournalOK(n, i)
  BY JournalAdded
<1>2. old \in [Views -> Seq(Reached(o, q) \ {0})] /\ Reached(o, q) \subseteq {0} \cup DOMAIN o
  BY TextFrom
<1>3. Reached(n, q) = Reached(o, q) /\ TreeIn(n, q) = TreeIn(o, q)
  BY DEF Reached, TreeIn, Grows
<1>4. m \in DOMAIN o /\ n[m] = o[m]
  BY <1>2 DEF Grows
<1>5. TextOK(o, m, under, o[m].tree.text)
  BY <1>4 DEF TreesOK, TreeOK
<1>6. v \in Views /\ o[m].tree.text = Pushed(under, v, m)
  BY <1>5 DEF TextOK
<1>7. under \in [Views -> Seq(Reached(o, o[m].parent) \ {0})]
  BY <1>4, TextFrom DEF ObjOK, CommitOK
<1> HIDE DEF old, under
<1>8. old[v] = Append(under[v], m)
  <2> DEFINE S == Reached(o, o[m].parent) \ {0}
  <2>1. under \in [Views -> Seq(S)]
    BY <1>7
  <2> HIDE DEF S
  <2>2. Pushed(under, v, m)[v] = Append(under[v], m)
    BY <1>6, <2>1 DEF Pushed
  <2>3. QED
    BY <1>6, <2>2 DEF old
<1>9. \E S : under[v] \in Seq(S)
  BY <1>6, <1>7
<1>10. old[v] # << >> /\ Top(old[v]) = m /\ SubSeq(old[v], 1, Len(old[v]) - 1) = under[v]
  <2>1. PICK S : under[v] \in Seq(S)
    BY <1>9
  <2>2. under[v] \in Seq(S \cup {m})
    BY <2>1
  <2> DEFINE u == under[v]
  <2> HIDE DEF u
  <2>3. u \in Seq(S \cup {m})
    BY <2>2 DEF u
  <2>4. /\ Append(u, m) # << >> /\ Len(Append(u, m)) = Len(u) + 1 /\ Len(u) \in Nat
        /\ Append(u, m)[Len(u) + 1] = m
    BY <2>3
  <2>5. SubSeq(Append(u, m), 1, Len(u)) = u
    BY <2>3
  <2>6. QED
    BY <1>8, <2>4, <2>5 DEF u, Top
<1>11. n[i].tree.text = Popped(old, v)
  BY <1>10 DEF Popped, old, under
<1>12. Reached(o, q) \ {0} \subseteq n[i].past \ {0}
  OBVIOUS
<1>13. n[i].tree.text \in [Views -> Seq(n[i].past \ {0})]
  <2> DEFINE S == Reached(o, q) \ {0}
             T == n[i].past \ {0}
  <2>1. old \in [Views -> Seq(S)] /\ S \subseteq T
    BY <1>2, <1>12
  <2> HIDE DEF S, T
  <2>2. Popped(old, v) \in [Views -> Seq(T)]
    BY <1>6, <1>10, <2>1, PoppedText
  <2>3. QED
    BY <1>11, <2>2 DEF T
<1>14. Top(old[v]) \in Reached(n, q) \ {0} /\ n[Top(old[v])].kind = "retire"
  BY <1>3, <1>4, <1>10
<1>15. TextOK(n, i, old, n[i].tree.text)
  BY <1>6, <1>10, <1>11, <1>13, <1>14 DEF TextOK, Kinds
<1>16. TextOK(n, i, TreeIn(n, q).text, n[i].tree.text)
  BY <1>3, <1>15 DEF old
<1>17. TreeOK(n, i)
  BY <1>1, <1>2, <1>3, <1>16 DEF TreeOK
<1>18. QED
  BY <1>17, TreesGrow

-----------------------------------------------------------------------------
\* The steps that make a commit, as far as trees go.

LEMMA TreeOfIn == \A c : TreeOf(c) = TreeIn(obj, c) /\ Past(c) = Reached(obj, c)
BY DEF TreeOf, TreeIn, Past, Reached

LEMMA RetirementAdded ==
  ASSUME IInv, TreesOK(obj), NEW q \in {0} \cup DOMAIN obj, NEW v \in Views, NEW batch,
         Contiguous(TreeOf(q).journal), obj' = With(obj, made + 1, Retirement(q, v, batch))
  PROVE  TreesOK(obj')
<1> DEFINE c == Retirement(q, v, batch)
           i == made + 1
<1>1. /\ c.parent = q /\ c.past = Reached(obj, q) \cup {i} /\ c.kind = "retire" /\ c.view = v
      /\ c.seq = NextSeq(q) /\ c.tree.journal = With(TreeIn(obj, q).journal, NextSeq(q), i)
      /\ c.tree.text = Pushed(TreeIn(obj, q).text, v, i)
  BY TreeOfIn DEF Retirement, NewCommit, Written, Pushed
<1>2. NextSeq(q) \notin DOMAIN TreeIn(obj, q).journal
  BY NextIsFree, TreeOfIn DEF NextSeq
<1>3. i \notin {0} \cup DOMAIN obj /\ ObjOK(obj, made)
  BY DEF IInv, ObjOK
<1> HIDE DEF c, i
<1>4. DOMAIN obj' = DOMAIN obj \cup {i} /\ obj'[i] = c /\ Grows(obj, obj')
  BY <1>3 DEF With, Grows, c, i
<1>5. QED
  BY <1>1, <1>2, <1>3, <1>4, LayerAdded

LEMMA ProposeTrees ==
  ASSUME IInv, TreesOK(obj), NEW p \in Terminals, NEW v \in Views, Propose(p, v)
  PROVE  TreesOK(obj')
<1>1. /\ Contiguous(TreeOf(head).journal) /\ head \in {0} \cup DOMAIN obj
      /\ obj' = With(obj, made + 1, Retirement(head, v, << >>))
  BY DEF Propose, CanPropose, Make, IInv, RefsOK
<1>2. QED
  BY <1>1, RetirementAdded

LEMMA MemberTrees ==
  ASSUME IInv, TreesOK(obj), ViewsOK, NEW p \in Terminals, Member(p)
  PROVE  TreesOK(obj')
<1> DEFINE j == job[p]
           v == j.views[Len(j.todo) + 1]
           name == BatchName(j.old, Len(j.views))
<1>1. /\ pc[p] = "member" /\ Contiguous(TreeOf(j.cur).journal)
      /\ obj' = With(obj, made + 1, Retirement(j.cur, v, name))
  BY DEF Member, CanPropose, Make
<1>2. JobOK(obj, "member", j)
  BY <1>1 DEF IInv, JobsOK
<1>3. j.cur \in {0} \cup DOMAIN obj
  BY <1>2, TipIsCommit
<1>4. v \in Views
  <2>1. j.views \in Seq(Views) /\ Len(j.todo) < Len(j.views)
    BY <1>1 DEF ViewsOK
  <2>2. PICK S : j.todo \in Seq(S)
    BY <1>2 DEF JobOK, InHand
  <2> HIDE DEF j
  <2>3. Len(j.todo) \in Nat /\ Len(j.views) \in Nat /\ Len(j.todo) + 1 \in 1..Len(j.views)
    BY <2>1, <2>2
  <2>4. QED
    BY <2>1, <2>3
<1>5. QED
  BY <1>1, <1>3, <1>4, RetirementAdded

LEMMA BinderTrees ==
  ASSUME IInv, TreesOK(obj), NEW p \in Terminals, Binder(p)
  PROVE  TreesOK(obj')
<1> DEFINE j == job[p]
           i == made + 1
           c == NewCommit(j.cur, "binder", 0, j.views[1], 0, BatchName(j.old, Len(j.views)),
                          j.todo, TreeOf(j.cur))
<1>1. pc[p] = "binder" /\ obj' = With(obj, i, c)
  BY DEF Binder, Make
<1>2. JobOK(obj, "member", j)
  BY <1>1 DEF IInv, JobsOK, JobOK
<1>3. j.cur \in {0} \cup DOMAIN obj
  BY <1>2, TipIsCommit
<1>4. /\ c.parent = j.cur /\ c.past = Reached(obj, j.cur) \cup {i} /\ c.kind = "binder"
      /\ c.tree = TreeIn(obj, j.cur)
  BY TreeOfIn DEF NewCommit
<1>5. i \notin {0} \cup DOMAIN obj /\ ObjOK(obj, made)
  BY DEF IInv, ObjOK
<1> HIDE DEF c, i, j
<1>6. DOMAIN obj' = DOMAIN obj \cup {i} /\ obj'[i] = c /\ Grows(obj, obj')
  BY <1>1, <1>5 DEF With, Grows
<1>7. QED
  BY <1>3, <1>4, <1>5, <1>6, NothingLayered

LEMMA PrepareRollbackTrees ==
  ASSUME IInv, TreesOK(obj), NEW p \in Terminals, PrepareRollback(p)
  PROVE  TreesOK(obj')
<1> DEFINE m == job[p].views[1]
           i == made + 1
           v == obj[m].view
           c == Inverse(m)
<1>1. obj' = With(obj, i, c) /\ MayUndo(m)
  BY DEF PrepareRollback, Make
<1>2. /\ c.parent = head /\ c.past = Reached(obj, head) \cup {i} /\ c.kind = "rollback"
      /\ c.view = v /\ c.seq = NextSeq(head)
      /\ c.tree.journal = With(TreeIn(obj, head).journal, NextSeq(head), i)
      /\ c.tree.text = [TreeIn(obj, head).text EXCEPT ![v] = TreeIn(obj, obj[m].parent).text[v]]
  BY TreeOfIn DEF Inverse, NewCommit, Written, Parent
<1>3. /\ m # 0 /\ obj[m].kind = "retire" /\ m \in Reached(obj, head)
      /\ TreeIn(obj, head).text[v] = obj[m].tree.text[v]
      /\ Contiguous(TreeIn(obj, head).journal)
  BY <1>1, TreeOfIn DEF MayUndo, Is, Records, TreeIn
<1>4. NextSeq(head) \notin DOMAIN TreeIn(obj, head).journal
  BY <1>3, NextIsFree, TreeOfIn DEF NextSeq
<1>5. i \notin {0} \cup DOMAIN obj /\ ObjOK(obj, made) /\ head \in {0} \cup DOMAIN obj
  BY DEF IInv, ObjOK, RefsOK
<1> HIDE DEF c, i, m, v
<1>6. DOMAIN obj' = DOMAIN obj \cup {i} /\ obj'[i] = c /\ Grows(obj, obj')
  BY <1>1, <1>5 DEF With, Grows
<1>7. v = obj[m].view
  BY DEF v
<1>8. QED
  BY <1>2, <1>3, <1>4, <1>5, <1>6, <1>7, LayerTaken

LEMMA SessionCommitsTrees ==
  ASSUME IInv, TreesOK(obj), SessionOK, SessionCommits
  PROVE  TreesOK(obj')
<1> DEFINE i == session.id
<1>1. PICK v \in session.wrote :
         obj' = With(obj, i, [parent |-> head, past |-> Past(head) \cup {i}, kind |-> "run",
                               seq |-> session.seq, view |-> v, of |-> 0, batch |-> << >>,
                               members |-> << >>,
                               tree |-> Written(TreeOf(head), v, session.seq, i, tree.text[v])])
  BY DEF SessionCommits
<1> DEFINE c == [parent |-> head, past |-> Past(head) \cup {i}, kind |-> "run",
                 seq |-> session.seq, view |-> v, of |-> 0, batch |-> << >>, members |-> << >>,
                 tree |-> Written(TreeOf(head), v, session.seq, i, tree.text[v])]
<1>2. /\ v \in Views /\ tree.text[v] = Append(TreeOf(head).text[v], i)
      /\ session.seq = NextSeq(head) /\ Contiguous(TreeOf(head).journal)
  BY <1>1 DEF SessionOK
<1>3. /\ c.parent = head /\ c.past = Reached(obj, head) \cup {i} /\ c.kind = "run" /\ c.view = v
      /\ c.seq = NextSeq(head) /\ c.tree.journal = With(TreeIn(obj, head).journal, NextSeq(head), i)
      /\ c.tree.text = Pushed(TreeIn(obj, head).text, v, i)
  BY <1>2, TreeOfIn DEF Written, Pushed
<1>4. NextSeq(head) \notin DOMAIN TreeIn(obj, head).journal
  BY <1>2, NextIsFree, TreeOfIn DEF NextSeq
<1>5. i \notin {0} \cup DOMAIN obj /\ ObjOK(obj, made) /\ head \in {0} \cup DOMAIN obj
  BY <1>1 DEF IInv, ObjOK, RefsOK
<1>6. obj' = With(obj, i, c)
  BY <1>1
<1> HIDE DEF c, i
<1>7. DOMAIN obj' = DOMAIN obj \cup {i} /\ obj'[i] = c /\ Grows(obj, obj')
  BY <1>5, <1>6 DEF With, Grows
<1>8. QED
  BY <1>2, <1>3, <1>4, <1>5, <1>7, LayerAdded

LEMMA StepKeepsTrees ==
  ASSUME IInv, TreeInv, [Next]_vars
  PROVE  TreesOK(obj')
<1>1. TreesOK(obj) /\ ViewsOK /\ SessionOK
  BY DEF TreeInv
<1>2. CASE obj' = obj
  BY <1>1, <1>2
<1>3. CASE \/ \E p \in Terminals : \/ \E v \in Views : Propose(p, v)
                                   \/ Member(p) \/ Binder(p) \/ PrepareRollback(p)
           \/ SessionCommits
  BY <1>1, <1>3, ProposeTrees, MemberTrees, BinderTrees, PrepareRollbackTrees, SessionCommitsTrees
<1>4. ASSUME NEW p \in Terminals, Command(p) \/ Step(p) \/ Crash(p)
      PROVE  \/ obj' = obj
             \/ \E v \in Views : Propose(p, v)
             \/ Member(p) \/ Binder(p) \/ PrepareRollback(p)
  BY <1>4 DEF Command, Crash, Step, ProposeBatch, Recover, Discard, Promote, PromoteBatch,
              Publish, Rollback, BatchRefused, Check, Move, SyncTree, DropRefs,
              RollbackStops, TagRollback, Refused
<1>5. ASSUME ResetTree \/ (\E v \in Views : SessionWrites(v)) \/ UNCHANGED vars
      PROVE  obj' = obj
  BY <1>5 DEF ResetTree, SessionWrites, vars
<1>6. QED
  BY <1>2, <1>3, <1>4, <1>5 DEF Next

-----------------------------------------------------------------------------
\* The other steps, as far as trees go.

LEMMA ViewsGoing ==
  ASSUME IInv, ViewsOK, NEW p \in Terminals, NEW to, NEW l,
         pc' = [pc EXCEPT ![p] = to], job' = [job EXCEPT ![p] = l],
         to = "member" => l.views \in Seq(Views) /\ Len(l.todo) < Len(l.views)
  PROVE  ViewsOK'
<1>1. /\ pc'[p] = to /\ job'[p] = l
      /\ \A q \in Terminals \ {p} : pc'[q] = pc[q] /\ job'[q] = job[q]
  BY DEF IInv, ShapeOK
<1>2. QED
  BY <1>1 DEF ViewsOK

LEMMA StepKeepsViews ==
  ASSUME IInv, ViewsOK, [Next]_vars
  PROVE  ViewsOK'
<1>1. ASSUME NEW p \in Terminals, NEW v \in Views, NEW w \in Views, ProposeBatch(p, <<v, w>>)
      PROVE  ViewsOK'
  <2> DEFINE l == [Idle EXCEPT !.cmd = "batch", !.old = head, !.cur = head, !.views = <<v, w>>]
  <2>1. pc' = [pc EXCEPT ![p] = "member"] /\ job' = [job EXCEPT ![p] = l]
    BY <1>1 DEF ProposeBatch, Goto
  <2>2. l.views = <<v, w>> /\ l.todo = << >>
    BY DEF Idle
  <2> HIDE DEF l
  <2>3. <<v, w>> \in Seq(Views) /\ Len(<<v, w>>) = 2 /\ Len(<< >>) = 0
    OBVIOUS
  <2>4. l.views \in Seq(Views) /\ Len(l.todo) < Len(l.views)
    BY <2>2, <2>3
  <2>5. QED
    BY <2>1, <2>4, ViewsGoing
<1>2. ASSUME NEW p \in Terminals, Member(p)
      PROVE  ViewsOK'
  <2> DEFINE j == job[p]
             l == [j EXCEPT !.cur = made + 1, !.todo = Append(@, made + 1)]
             to == IF Len(j.todo) + 1 = Len(j.views) THEN "binder" ELSE "member"
  <2>1. /\ pc[p] = "member" /\ pc' = [pc EXCEPT ![p] = to] /\ job' = [job EXCEPT ![p] = l]
    BY <1>2 DEF Member, Goto
  <2>2. DOMAIN j = Fields /\ JobOK(obj, "member", j)
    BY <2>1 DEF IInv, ShapeOK, JobsOK
  <2>3. l.views = j.views /\ l.todo = Append(j.todo, made + 1)
    BY <2>2 DEF Fields
  <2>4. j.views \in Seq(Views) /\ Len(j.todo) < Len(j.views)
    BY <2>1 DEF ViewsOK
  <2>5. PICK S : j.todo \in Seq(S)
    BY <2>2 DEF JobOK, InHand
  <2> HIDE DEF j, l
  <2>6. j.todo \in Seq(S \cup {made + 1})
    BY <2>5
  <2>7. Len(Append(j.todo, made + 1)) = Len(j.todo) + 1 /\ Len(j.todo) \in Nat /\ Len(j.views) \in Nat
    BY <2>4, <2>6
  <2>8. to = "member" => l.views \in Seq(Views) /\ Len(l.todo) < Len(l.views)
    BY <2>3, <2>4, <2>7
  <2> HIDE DEF to
  <2>9. QED
    BY <2>1, <2>8, ViewsGoing
<1>3. ASSUME NEW p \in Terminals,
             \E to : to # "member" /\ \E l :
               pc' = [pc EXCEPT ![p] = to] /\ job' = [job EXCEPT ![p] = l]
      PROVE  ViewsOK'
  <2>1. PICK to : to # "member" /\ \E l :
                    pc' = [pc EXCEPT ![p] = to] /\ job' = [job EXCEPT ![p] = l]
    BY <1>3
  <2>2. PICK l : pc' = [pc EXCEPT ![p] = to] /\ job' = [job EXCEPT ![p] = l]
    BY <2>1
  <2>3. QED
    BY <2>1, <2>2, ViewsGoing
<1>4. CASE UNCHANGED <<pc, job>>
  BY <1>4 DEF ViewsOK
<1>5. ASSUME NEW p \in Terminals, Command(p)
      PROVE  ViewsOK'
  <2>1. \/ UNCHANGED <<pc, job>>
        \/ \E v, w \in Views : ProposeBatch(p, <<v, w>>)
        \/ \E to : to # "member" /\ \E l :
               pc' = [pc EXCEPT ![p] = to] /\ job' = [job EXCEPT ![p] = l]
    BY <1>5 DEF Command, Propose, Recover, Discard, Promote, PromoteBatch, Publish, Rollback, Goto
  <2>2. QED
    BY <2>1, <1>1, <1>3, <1>4
<1>6. ASSUME NEW p \in Terminals, Step(p) \/ Crash(p)
      PROVE  ViewsOK'
  <2>1. \/ Member(p)
        \/ \E to : to # "member" /\ \E l :
               pc' = [pc EXCEPT ![p] = to] /\ job' = [job EXCEPT ![p] = l]
    BY <1>6 DEF Step, Crash, Binder, BatchRefused, Check, Move, Landed, SyncTree, DropRefs,
                PrepareRollback, RollbackStops, TagRollback, Refused, Stop, Goto
  <2>2. QED
    BY <2>1, <1>2, <1>3
<1>7. ASSUME ResetTree \/ (\E v \in Views : SessionWrites(v)) \/ SessionCommits \/ UNCHANGED vars
      PROVE  UNCHANGED <<pc, job>>
  BY <1>7 DEF ResetTree, SessionWrites, SessionCommits, vars
<1>8. QED
  BY <1>4, <1>5, <1>6, <1>7 DEF Next

\* What the session holds is of the head, and the head stays with its tree.
LEMMA SessionWaits ==
  ASSUME IInv, Grows(obj, obj'), SessionOK, UNCHANGED <<head, session, tree>>,
         \A q \in Terminals : pc'[q] \in Aside
  PROVE  SessionOK'
<1>1. (TreeOf(head))' = TreeOf(head)
  BY DEF TreeOf, Grows, IInv, RefsOK
<1>2. (NextSeq(head))' = NextSeq(head)
  BY <1>1 DEF NextSeq
<1>3. QED
  BY <1>1, <1>2 DEF SessionOK, Contiguous

LEMMA SessionStep ==
  ASSUME Quiet, IInv, Grows(obj, obj'), SessionOK, NEW p \in Terminals,
         Command(p) \/ Step(p) \/ Crash(p)
  PROVE  SessionOK'
<1>1. session' = session
  BY DEF Command, Step, Crash, Propose, ProposeBatch, Recover, Discard, Promote, PromoteBatch,
         Publish, Rollback, Member, Binder, BatchRefused, Check, Move, SyncTree, DropRefs,
         PrepareRollback, RollbackStops, TagRollback, Refused
<1>2. CASE session.wrote = {}
  BY <1>1, <1>2 DEF SessionOK
<1>3. CASE session.wrote # {}
  <2>1. AtWork /\ pc[p] \in Aside /\ \A q \in Terminals : pc[q] \in Aside
    BY <1>3 DEF SessionOK, AtWork
  <2>2. CASE Command(p)
    <3>1. /\ UNCHANGED <<head, tree>>
          /\ pc' = pc \/ \E to \in Aside : pc' = [pc EXCEPT ![p] = to]
      BY <2>1, <2>2 DEF Command, Propose, ProposeBatch, Recover, Discard, Promote, PromoteBatch,
                        Publish, Rollback, Starts, Goto, Aside
    <3>2. \A q \in Terminals : pc'[q] \in Aside
      BY <2>1, <3>1 DEF IInv, ShapeOK
    <3>3. QED
      BY <1>1, <3>1, <3>2, SessionWaits
  <2>3. CASE Step(p) \/ Crash(p)
    <3>1. Member(p) \/ Binder(p) \/ BatchRefused(p) \/ Crash(p)
      BY <2>1, <2>3 DEF Step, Check, Move, SyncTree, DropRefs,
                        PrepareRollback, RollbackStops, TagRollback, Aside
    <3>2. /\ UNCHANGED <<head, tree>>
          /\ \E to \in Aside : pc' = [pc EXCEPT ![p] = to]
      BY <3>1 DEF Member, Binder, BatchRefused, Crash, Stop, Goto, Aside
    <3>3. \A q \in Terminals : pc'[q] \in Aside
      BY <2>1, <3>2 DEF IInv, ShapeOK
    <3>4. QED
      BY <1>1, <3>2, <3>3, SessionWaits
  <2>4. QED
    BY <2>2, <2>3
<1>4. QED
  BY <1>2, <1>3

LEMMA SessionBegins ==
  ASSUME Quiet, Synced, IInv, NEW v \in Views, SessionWrites(v),
         TreeOf(head).text \in [Views -> Seq(Past(head) \ {0})]
  PROVE  SessionOK'
<1>1. /\ AllIdle /\ tree = TreeOf(head) /\ Contiguous(tree.journal) /\ made \in Nat
      /\ session' = [id |-> made + 1, wrote |-> {v}, seq |-> Next1(tree.journal)]
      /\ tree' = Written(tree, v, Next1(tree.journal), made + 1, Append(tree.text[v], made + 1))
      /\ UNCHANGED <<obj, head, pc>>
  BY DEF SessionWrites, IInv, ObjOK
<1>2. /\ session'.id = made + 1 /\ session'.wrote = {v} /\ session'.seq = NextSeq(head)
      /\ session' # NoSession
  BY <1>1 DEF NextSeq, NoSession
<1>3. (TreeOf(head))' = TreeOf(head) /\ (NextSeq(head))' = NextSeq(head)
  BY <1>1 DEF TreeOf, NextSeq
<1>4. tree'.text[v] = Append(TreeOf(head).text[v], made + 1)
  BY <1>1 DEF Written
<1>5. \A q \in Terminals : pc'[q] \in Aside
  BY <1>1 DEF AllIdle, Aside
<1>6. Contiguous(TreeOf(head).journal)'
  BY <1>1, <1>3 DEF Contiguous
<1>7. QED
  BY <1>2, <1>3, <1>4, <1>5, <1>6 DEF SessionOK

LEMMA StepKeepsSession ==
  ASSUME Quiet, Synced, IInv, TreeInv, [Next]_vars
  PROVE  SessionOK'
<1>1. ASSUME NEW p \in Terminals, Command(p) \/ Step(p) \/ Crash(p)
      PROVE  SessionOK'
  <2>1. Grows(obj, obj')
    <3>1. obj' = obj \/ \E c : obj' = With(obj, made + 1, c)
      BY <1>1 DEF Command, Crash, Step, Propose, ProposeBatch, Recover, Discard, Promote,
                  PromoteBatch, Publish, Rollback, Member, Binder, BatchRefused, Check, Move,
                  SyncTree, DropRefs, PrepareRollback, RollbackStops, TagRollback, Refused, Make
    <3>2. made + 1 \notin DOMAIN obj
      BY DEF IInv, ObjOK
    <3>3. QED
      BY <3>1, <3>2 DEF With, Grows
  <2>2. QED
    BY <1>1, <2>1, SessionStep DEF TreeInv
<1>2. ASSUME NEW v \in Views, SessionWrites(v)
      PROVE  SessionOK'
  <2>1. /\ TreesOK(obj) /\ ObjOK(obj, made) /\ head \in {0} \cup DOMAIN obj
    BY DEF TreeInv, IInv, RefsOK
  <2>2. TreeIn(obj, head).text \in [Views -> Seq(Reached(obj, head) \ {0})]
    BY <2>1, TextFrom
  <2>3. TreeOf(head).text \in [Views -> Seq(Past(head) \ {0})]
    BY <2>2, TreeOfIn
  <2>4. QED
    BY <1>2, <2>3, SessionBegins
<1>3. ASSUME SessionCommits PROVE SessionOK'
  <2>1. session' = NoSession
    BY <1>3 DEF SessionCommits
  <2>2. QED
    BY <2>1 DEF SessionOK, NoSession
<1>4. ASSUME ResetTree PROVE SessionOK'
  <2>1. session.wrote = {} /\ session' = session
    BY <1>4 DEF ResetTree, AtWork, NoSession
  <2>2. QED
    BY <2>1 DEF SessionOK
<1>5. ASSUME UNCHANGED vars PROVE SessionOK'
  <2>1. Grows(obj, obj') /\ UNCHANGED <<head, session, tree, pc>>
    BY <1>5 DEF vars, Grows
  <2>2. CASE session.wrote = {}
    BY <2>1, <2>2 DEF SessionOK
  <2>3. CASE session.wrote # {}
    BY <2>1, <2>3, SessionWaits DEF TreeInv, SessionOK
  <2>4. QED
    BY <2>2, <2>3
<1>6. QED
  BY <1>1, <1>2, <1>3, <1>4, <1>5 DEF Next

LEMMA StepKeepsTreeInv ==
  ASSUME Quiet, Synced, IInv, TreeInv, [Next]_vars
  PROVE  TreeInv'
BY StepKeepsTrees, StepKeepsViews, StepKeepsSession DEF TreeInv

LEMMA StartTrees == Init => TreeInv
<1> SUFFICES ASSUME Init PROVE TreeInv
  OBVIOUS
<1>1. obj = << >> /\ DOMAIN obj = {} /\ session = NoSession /\ \A q \in Terminals : pc[q] = "idle"
  BY DEF Init
<1>2. QED
  BY <1>1 DEF TreeInv, TreesOK, ViewsOK, SessionOK, NoSession

-----------------------------------------------------------------------------
\* Types: above all, no two refs and no two tags of the same name.

NameIn(o, x) == IF o[x].kind = "binder" THEN o[x].batch ELSE <<o[x].seq>>
Distinct(o, S) == \A x, y \in S : NameIn(o, x) = NameIn(o, y) => x = y
PCs == {"idle", "member", "binder", "check", "move", "sync", "drop", "undo", "name"}

LEMMA DistinctStays ==
  ASSUME NEW o, NEW n, Grows(o, n), NEW S, S \subseteq DOMAIN o, Distinct(o, S), NEW T, T \subseteq S
  PROVE  Distinct(n, T)
BY DEF Grows, Distinct, NameIn

LEMMA DistinctAdded ==
  ASSUME NEW o, NEW n, Grows(o, n), NEW S, S \subseteq DOMAIN o, Distinct(o, S), NEW x,
         \A y \in S : NameIn(o, y) = NameIn(n, x) => x = y
  PROVE  Distinct(n, S \cup {x})
BY DEF Grows, Distinct, NameIn

LEMMA Numbers ==
  ASSUME IInv, TypeOK, [Next]_vars
  PROVE  /\ made' \in 0..MaxMade /\ session'.id \in 0..made' /\ crashes' \in 0..MaxCrashes
         /\ Grows(obj, obj')
<1>1. made \in 0..MaxMade /\ MaxMade \in Nat /\ MaxCrashes \in Nat /\ crashes \in 0..MaxCrashes
      /\ session.id \in 0..made /\ made + 1 \notin DOMAIN obj
  BY RetirePublishAssumption DEF TypeOK, IInv, ObjOK
<1>2. \/ made' = made /\ (obj' = obj \/ \E c : SessionCommits /\ obj' = With(obj, session.id, c))
      \/ made < MaxMade /\ made' = made + 1 /\ (obj' = obj \/ \E c : obj' = With(obj, made + 1, c))
  <2>1. ASSUME NEW p \in Terminals, Command(p) \/ Step(p) \/ Crash(p)
        PROVE  \/ made' = made /\ obj' = obj
               \/ made < MaxMade /\ made' = made + 1 /\ \E c : obj' = With(obj, made + 1, c)
    BY <2>1 DEF Command, Crash, Step, Propose, CanPropose, ProposeBatch, Recover, Discard, Promote,
                  PromoteBatch, Publish, Rollback, Member, Binder, BatchRefused, Check, Move,
                  SyncTree, DropRefs, PrepareRollback, RollbackStops, TagRollback, Refused, Make
  <2>2. ASSUME SessionCommits
        PROVE  made' = made /\ \E c : obj' = With(obj, session.id, c)
    BY <2>2 DEF SessionCommits
  <2>3. ASSUME ResetTree \/ UNCHANGED vars PROVE made' = made /\ obj' = obj
    BY <2>3 DEF ResetTree, vars
  <2>4. ASSUME NEW v \in Views, SessionWrites(v)
        PROVE  made < MaxMade /\ made' = made + 1 /\ obj' = obj
    BY <2>4 DEF SessionWrites
  <2>5. QED
    BY <2>1, <2>2, <2>3, <2>4 DEF Next
<1>3. made' \in 0..MaxMade /\ made' >= made
  BY <1>1, <1>2
<1>4. Grows(obj, obj')
  <2>1. SessionCommits => session.id \notin DOMAIN obj
    BY DEF SessionCommits, IInv, RefsOK
  <2>2. QED
    BY <1>1, <1>2, <2>1 DEF With, Grows
<1>5. session' = session \/ session'.id = 0 \/ session'.id = made'
  <2>1. ASSUME NEW p \in Terminals, Command(p) \/ Step(p) \/ Crash(p)
        PROVE  session' = session
    BY <2>1 DEF Command, Crash, Step, Propose, ProposeBatch, Recover, Discard, Promote,
                  PromoteBatch, Publish, Rollback, Member, Binder, BatchRefused, Check, Move,
                  SyncTree, DropRefs, PrepareRollback, RollbackStops, TagRollback, Refused
  <2>2. ASSUME SessionCommits PROVE session'.id = 0
    BY <2>2 DEF SessionCommits, NoSession
  <2>3. ASSUME ResetTree \/ UNCHANGED vars PROVE session' = session
    BY <2>3 DEF ResetTree, vars
  <2>4. ASSUME NEW v \in Views, SessionWrites(v) PROVE session'.id = made'
    BY <2>4 DEF SessionWrites
  <2>5. QED
    BY <2>1, <2>2, <2>3, <2>4 DEF Next
<1>6. session'.id \in 0..made'
  BY <1>1, <1>3, <1>5
<1>7. crashes' = crashes \/ (crashes < MaxCrashes /\ crashes' = crashes + 1)
  <2>1. ASSUME NEW p \in Terminals, Command(p) \/ Step(p) \/ Crash(p)
        PROVE  crashes' = crashes \/ (crashes < MaxCrashes /\ crashes' = crashes + 1)
    BY <2>1 DEF Command, Crash, Step, Propose, ProposeBatch, Recover, Discard, Promote,
                  PromoteBatch, Publish, Rollback, Member, Binder, BatchRefused, Check, Move,
                  SyncTree, DropRefs, PrepareRollback, RollbackStops, TagRollback, Refused
  <2>2. ASSUME SessionCommits \/ ResetTree \/ (\E v \in Views : SessionWrites(v)) \/ UNCHANGED vars
        PROVE  crashes' = crashes
    BY <2>2 DEF SessionCommits, ResetTree, SessionWrites, vars
  <2>3. QED
    BY <2>1, <2>2 DEF Next
<1>8. QED
  BY <1>1, <1>3, <1>4, <1>6, <1>7

LEMMA PCsStay ==
  ASSUME IInv, pc \in [Terminals -> PCs], [Next]_vars
  PROVE  pc' \in [Terminals -> PCs]
<1>1. ASSUME NEW p \in Terminals, Command(p)
      PROVE  pc' = pc \/ \E to \in PCs : pc' = [pc EXCEPT ![p] = to]
  BY <1>1 DEF Command, Propose, ProposeBatch, Recover, Discard, Promote, PromoteBatch, Publish,
              Rollback, Goto, PCs
<1>2. ASSUME NEW p \in Terminals, Step(p) \/ Crash(p)
      PROVE  \E to \in PCs : pc' = [pc EXCEPT ![p] = to]
  BY <1>2 DEF Step, Crash, Member, Binder, BatchRefused, Check, Move, Landed, SyncTree, DropRefs,
              PrepareRollback, RollbackStops, TagRollback, Refused, Stop, Goto, PCs
<1>3. ASSUME ResetTree \/ (\E v \in Views : SessionWrites(v)) \/ SessionCommits \/ UNCHANGED vars
      PROVE  pc' = pc
  BY <1>3 DEF ResetTree, SessionWrites, SessionCommits, vars
<1>4. ASSUME NEW p \in Terminals, NEW to \in PCs, pc' = [pc EXCEPT ![p] = to]
      PROVE  pc' \in [Terminals -> PCs]
  BY <1>4
<1>5. QED
  BY <1>1, <1>2, <1>3, <1>4 DEF Next

\* A ref is made only under a name that no ref has.
LEMMA RefsStayDistinct ==
  ASSUME IInv, Grows(obj, obj'), Distinct(obj, prepared), [Next]_vars
  PROVE  Distinct(obj', prepared')
<1>1. prepared \subseteq DOMAIN obj
  BY DEF IInv, RefsOK
<1>2. CASE prepared' \subseteq prepared
  BY <1>1, <1>2, DistinctStays
<1>3. ASSUME NEW c, obj' = With(obj, made + 1, c), prepared' = prepared \cup {made + 1},
             NEW name, ~Taken(prepared, name),
             name = IF c.kind = "binder" THEN c.batch ELSE <<c.seq>>
      PROVE  Distinct(obj', prepared')
  <2>1. NameIn(obj', made + 1) = name
    BY <1>3 DEF With, NameIn
  <2>2. \A y \in prepared : NameIn(obj, y) # name
    BY <1>3 DEF Taken, Name, NameIn
  <2>3. QED
    BY <1>1, <1>3, <2>1, <2>2, DistinctAdded
<1>4. ASSUME NEW q, NEW v, NEW batch, CanPropose(q, v), Make(Retirement(q, v, batch)),
             prepared' = prepared \cup {made + 1}
      PROVE  Distinct(obj', prepared')
  <2>1. /\ Retirement(q, v, batch).kind = "retire" /\ Retirement(q, v, batch).seq = NextSeq(q)
    BY DEF Retirement, NewCommit
  <2>2. ~Taken(prepared, <<NextSeq(q)>>) /\ obj' = With(obj, made + 1, Retirement(q, v, batch))
    BY <1>4 DEF CanPropose, Make
  <2>3. QED
    BY <1>3, <1>4, <2>1, <2>2
<1>5. ASSUME NEW p \in Terminals, Binder(p)
      PROVE  Distinct(obj', prepared')
  <2> DEFINE j == job[p]
             name == BatchName(j.old, Len(j.views))
             c == NewCommit(j.cur, "binder", 0, j.views[1], 0, name, j.todo, TreeOf(j.cur))
  <2>1. /\ c.kind = "binder" /\ c.batch = name
    BY DEF NewCommit
  <2>2. /\ ~Taken(prepared, name) /\ obj' = With(obj, made + 1, c)
        /\ prepared' = prepared \cup {made + 1}
    BY <1>5 DEF Binder, Make
  <2> HIDE DEF c, name
  <2>3. QED
    BY <1>3, <2>1, <2>2
<1>6. ASSUME NEW p \in Terminals, PrepareRollback(p)
      PROVE  Distinct(obj', prepared')
  <2> DEFINE c == Inverse(job[p].views[1])
  <2>1. c.kind = "rollback" /\ c.seq = NextSeq(head)
    BY DEF Inverse, NewCommit
  <2>2. /\ ~Taken(prepared, <<NextSeq(head)>>) /\ obj' = With(obj, made + 1, c)
        /\ prepared' = prepared \cup {made + 1}
    BY <1>6 DEF PrepareRollback, MayUndo, Make
  <2> HIDE DEF c
  <2>3. QED
    BY <1>3, <2>1, <2>2
<1>7. ASSUME NEW p \in Terminals, Command(p) \/ Step(p) \/ Crash(p)
      PROVE  \/ prepared' \subseteq prepared
             \/ \E v \in Views : Propose(p, v)
             \/ Member(p) \/ Binder(p) \/ PrepareRollback(p)
  BY <1>7 DEF Command, Crash, Step, ProposeBatch, Recover, Discard, Promote, PromoteBatch,
              Publish, Rollback, BatchRefused, Check, Move, SyncTree, DropRefs,
              RollbackStops, TagRollback, Refused
<1>8. ASSUME NEW p \in Terminals, NEW v \in Views, Propose(p, v)
      PROVE  Distinct(obj', prepared')
  BY <1>4, <1>8 DEF Propose
<1>9. ASSUME NEW p \in Terminals, Member(p)
      PROVE  Distinct(obj', prepared')
  BY <1>4, <1>9 DEF Member
<1>10. ASSUME ResetTree \/ (\E v \in Views : SessionWrites(v)) \/ SessionCommits \/ UNCHANGED vars
       PROVE  prepared' = prepared
  BY <1>10 DEF ResetTree, SessionWrites, SessionCommits, vars
<1>11. QED
  BY <1>2, <1>5, <1>6, <1>7, <1>8, <1>9, <1>10 DEF Next

\* A promotion record of that name must be the proposal's own.
LEMMA TagsStayDistinct ==
  ASSUME IInv, Grows(obj, obj'), Distinct(obj, tags), [Next]_vars
  PROVE  Distinct(obj', tags')
<1>1. tags \subseteq DOMAIN obj
  BY DEF IInv, RefsOK
<1>2. CASE tags' = tags
  BY <1>1, <1>2, DistinctStays
<1>3. ASSUME NEW x, obj' = obj, tags' = tags \cup {x}, TagFits(x)
      PROVE  Distinct(obj', tags')
  <2>1. \A y \in tags : NameIn(obj, y) = NameIn(obj, x) => x = y
    BY <1>3 DEF TagFits, Name, NameIn
  <2>2. QED
    BY <1>1, <1>3, <2>1, DistinctAdded
<1>4. ASSUME NEW p \in Terminals, TagRollback(p)
      PROVE  Distinct(obj', tags')
  <2>1. obj' = obj /\ tags' = tags \cup {job[p].x} /\ TagFits(job[p].x)
    BY <1>4 DEF TagRollback, Taken, TagFits
  <2>2. QED
    BY <1>3, <2>1
<1>5. ASSUME NEW p \in Terminals, Command(p) \/ Step(p) \/ Crash(p)
      PROVE  \/ tags' = tags \/ TagRollback(p)
             \/ \E x : obj' = obj /\ tags' = tags \cup {x} /\ TagFits(x)
  BY <1>5 DEF Command, Crash, Step, Propose, ProposeBatch, Recover, Discard, Promote, PromoteBatch,
              Publish, Rollback, Member, Binder, BatchRefused, Check, Move, SyncTree, DropRefs,
              PrepareRollback, RollbackStops, Refused
<1>6. ASSUME ResetTree \/ (\E v \in Views : SessionWrites(v)) \/ SessionCommits \/ UNCHANGED vars
      PROVE  tags' = tags
  BY <1>6 DEF ResetTree, SessionWrites, SessionCommits, vars
<1>7. QED
  BY <1>2, <1>3, <1>4, <1>5, <1>6 DEF Next

LEMMA StepKeepsType ==
  ASSUME IInv, TypeOK, [Next]_vars
  PROVE  TypeOK'
<1>1. IInv'
  BY StepKeeps
<1>2. /\ made' \in 0..MaxMade /\ session'.id \in 0..made' /\ crashes' \in 0..MaxCrashes
      /\ Grows(obj, obj')
  BY Numbers
<1>3. /\ DOMAIN obj' \subseteq 1..made' /\ head' \in {0} \cup DOMAIN obj'
      /\ prepared' \subseteq DOMAIN obj' /\ tags' \subseteq DOMAIN obj'
  BY <1>1 DEF IInv, ObjOK, RefsOK
<1>4. pc' \in [Terminals -> PCs]
  BY PCsStay DEF TypeOK, PCs
<1>5. Distinct(obj, prepared) /\ Distinct(obj, tags)
  BY DEF TypeOK, Distinct, Name, NameIn
<1>6. Distinct(obj', prepared') /\ Distinct(obj', tags')
  BY <1>2, <1>5, RefsStayDistinct, TagsStayDistinct
<1>7. QED
  BY <1>2, <1>3, <1>4, <1>6 DEF TypeOK, Distinct, Name, NameIn, PCs

LEMMA StartType == Init => TypeOK
<1> SUFFICES ASSUME Init PROVE TypeOK
  OBVIOUS
<1>1. DOMAIN obj = {} /\ made = 0 /\ head = 0 /\ prepared = {} /\ tags = {} /\ session.id = 0
      /\ crashes = 0 /\ pc = [p \in Terminals |-> "idle"]
  BY DEF Init, NoSession
<1>2. MaxMade \in Nat /\ MaxCrashes \in Nat
  BY RetirePublishAssumption
<1>3. QED
  BY <1>1, <1>2 DEF TypeOK

\* No two proposals share a ref, and no two a promotion record, whatever the commands,
\* the sessions and the crashes do (retire.py creates a ref only where there is none,
\* promote.py refuses a record that is another proposal's).
THEOREM TypeCorrect == Spec => []TypeOK
<1>1. Init => IInv /\ TypeOK
  BY StartOK, StartType
<1>2. IInv /\ TypeOK /\ [Next]_vars => IInv' /\ TypeOK'
  BY StepKeeps, StepKeepsType
<1> QED
  BY <1>1, <1>2, PTL DEF Spec

-----------------------------------------------------------------------------
\* The reader agrees with the publisher.

\* What is on the branch has its tag, or the binder of its batch has.
TagOf(o, named, c) == IF o[c].batch = << >> THEN c \in named
                      ELSE \E b \in named : Kind(o, b) /\ c \in MembersIn(o, b)
TagRec == \A c \in Past(head) : Record(obj, c) => TagOf(obj, tags, c)

LEMMA TagOfStays ==
  ASSUME NEW o, NEW n, Grows(o, n), NEW named, named \subseteq DOMAIN o, NEW more,
         named \subseteq more, NEW c \in DOMAIN o, TagOf(o, named, c)
  PROVE  TagOf(n, more, c)
<1>1. n[c] = o[c] /\ \A b \in named : n[b] = o[b]
  BY DEF Grows
<1>2. QED
  BY <1>1 DEF TagOf, Kind, MembersIn

LEMMA PastInObj ==
  ASSUME IInv, TreesOK(obj)
  PROVE  Past(head) \subseteq {0} \cup DOMAIN obj
<1>1. ObjOK(obj, made) /\ head \in {0} \cup DOMAIN obj
  BY DEF IInv, RefsOK
<1>2. Reached(obj, head) \subseteq {0} \cup DOMAIN obj
  BY <1>1, TextFrom
<1>3. QED
  BY <1>2, TreeOfIn

\* The commit that goes onto the branch next is tagged, if it is a record.
LEMMA NextIsTagged ==
  ASSUME ~MembersAlone, IInv, BatchInv, NEW p \in Terminals, Move(p), head = job[p].cur,
         Record(obj, job[p].todo[1])
  PROVE  TagOf(obj, tags, job[p].todo[1])
<1> DEFINE j == job[p]
           c == j.todo[1]
<1>1. pc[p] = "move"
  BY DEF Move
<1>2. /\ PublishOK(obj, tags, "move", j) /\ BatchesOK(obj)
      /\ \A x \in tags : obj[x].kind = "binder" \/ obj[x].batch = << >>
  BY <1>1 DEF BatchInv, TagsOK
<1>3. 1 \in DOMAIN j.todo
  <2>1. (\E S : j.todo \in Seq(S)) /\ j.todo # << >>
    BY MoveGoesToChild
  <2> HIDE DEF j
  <2>2. QED
    BY <2>1
<1>4. Record(obj, c)
  OBVIOUS
<1>5. SUFFICES TagOf(obj, tags, c)
  OBVIOUS
<1> HIDE DEF j
<1>6. j.x \in DOMAIN obj /\ j.x \in tags /\ j.x # 0
  BY <1>2 DEF PublishOK, IInv, ObjOK
<1>7. CASE obj[j.x].kind = "binder"
  <2>1. c \in MembersIn(obj, j.x)
    BY <1>2, <1>3, <1>4, <1>7 DEF PublishOK, Record
  <2>2. OfBatch(obj, c)
    BY <1>2, <1>6, <1>7, <2>1 DEF BatchesOK, BindersIn
  <2>3. QED
    BY <1>6, <1>7, <2>1, <2>2 DEF TagOf, OfBatch, Kind
<1>8. CASE obj[j.x].kind # "binder"
  <2>1. c = j.x
    BY <1>2, <1>3, <1>8 DEF PublishOK
  <2>2. QED
    BY <1>2, <1>6, <1>8, <2>1 DEF TagOf
<1>9. QED
  BY <1>7, <1>8

LEMMA TagsOnlyGrow ==
  ASSUME [Next]_vars
  PROVE  tags \subseteq tags'
<1>1. ASSUME NEW p \in Terminals, Command(p) \/ Step(p) \/ Crash(p)
      PROVE  tags \subseteq tags'
  BY <1>1 DEF Command, Crash, Step, Propose, ProposeBatch, Recover, Discard, Promote, PromoteBatch,
              Publish, Rollback, Member, Binder, BatchRefused, Check, Move, SyncTree, DropRefs,
              PrepareRollback, RollbackStops, TagRollback, Refused
<1>2. ASSUME ResetTree \/ (\E v \in Views : SessionWrites(v)) \/ SessionCommits \/ UNCHANGED vars
      PROVE  tags' = tags
  BY <1>2 DEF ResetTree, SessionWrites, SessionCommits, vars
<1>3. QED
  BY <1>1, <1>2 DEF Next

\* A step leaves the branch alone, or adds one commit whose parent is its head.
LEMMA BranchStep ==
  ASSUME IInv, BatchInv, TypeOK, [Next]_vars
  PROVE  \/ head' = head
         \/ \E p \in Terminals : Move(p) /\ head = job[p].cur
         \/ SessionCommits
<1>1. ASSUME NEW p \in Terminals, Command(p) \/ Step(p) \/ Crash(p)
      PROVE  head' = head \/ (Move(p) /\ head = job[p].cur)
  BY <1>1 DEF Command, Crash, Step, Propose, ProposeBatch, Recover, Discard, Promote, PromoteBatch,
              Publish, Rollback, Member, Binder, BatchRefused, Check, Move, SyncTree, DropRefs,
              PrepareRollback, RollbackStops, TagRollback, Refused
<1>2. ASSUME ResetTree \/ (\E v \in Views : SessionWrites(v)) \/ UNCHANGED vars
      PROVE  head' = head
  BY <1>2 DEF ResetTree, SessionWrites, vars
<1>3. QED
  BY <1>1, <1>2 DEF Next

LEMMA StepKeepsTagRec ==
  ASSUME ~MembersAlone, IInv, BatchInv, TypeOK, TreesOK(obj), TagRec, [Next]_vars
  PROVE  TagRec'
<1>1. Grows(obj, obj') /\ tags \subseteq tags' /\ tags \subseteq DOMAIN obj /\ 0 \notin DOMAIN obj
  BY Numbers, TagsOnlyGrow DEF IInv, RefsOK, ObjOK
<1>2. ASSUME NEW c \in Past(head), Record(obj', c)
      PROVE  TagOf(obj', tags', c)
  <2>1. c \in DOMAIN obj
    BY <1>2, PastInObj DEF Record
  <2>2. Record(obj, c)
    BY <1>1, <1>2, <2>1 DEF Record, Grows
  <2>3. TagOf(obj, tags, c)
    BY <2>2 DEF TagRec
  <2>4. QED
    BY <1>1, <2>1, <2>3, TagOfStays
<1>3. CASE head' = head
  <2>1. (Past(head))' = Past(head)
    BY <1>1, <1>3 DEF Past, Grows, IInv, RefsOK
  <2>2. QED
    BY <1>2, <2>1 DEF TagRec
<1>4. ASSUME NEW p \in Terminals, Move(p), head = job[p].cur
      PROVE  TagRec'
  <2> DEFINE c == job[p].todo[1]
  <2>1. (Past(head))' = Past(head) \cup {c}
    BY <1>4, OneCommit DEF BatchInv
  <2>2. obj' = obj /\ tags' = tags
    BY <1>4 DEF Move
  <2>3. Record(obj, c) => TagOf(obj, tags, c)
    BY <1>4, NextIsTagged
  <2> HIDE DEF c
  <2>4. QED
    BY <1>2, <2>1, <2>2, <2>3 DEF TagRec
<1>5. CASE SessionCommits
  <2>1. PICK c : /\ obj' = With(obj, session.id, c) /\ head' = session.id
                 /\ c.past = Past(head) \cup {session.id} /\ c.kind = "run" /\ session.wrote # {}
    BY <1>5 DEF SessionCommits
  <2>2. session.id # 0
    BY <2>1 DEF IInv, RefsOK
  <2>3. (Past(head))' = Past(head) \cup {session.id} /\ ~Record(obj', session.id)
    BY <2>1, <2>2 DEF Past, With, Record
  <2>4. QED
    BY <1>2, <2>3 DEF TagRec
<1>6. QED
  BY <1>3, <1>4, <1>5, BranchStep

LEMMA ReadsFollows ==
  ASSUME IInv, TreesOK(obj), TagRec
  PROVE  PublishedReads
<1>1. ASSUME NEW c \in Records(head) PROVE Reads(c)
  <2>1. c \in Past(head) /\ Record(obj, c)
    BY DEF Records, Is, Record
  <2>2. c \in Reached(obj, head) /\ c # 0
    BY <2>1, TreeOfIn DEF Record
  <2>3. head # 0 /\ head \in DOMAIN obj
    BY <2>2 DEF Reached, IInv, RefsOK
  <2>4. JournalOK(obj, head) /\ c \in obj[head].past
    BY <2>2, <2>3 DEF TreesOK, TreeOK, Reached
  <2>5. obj[c].seq \in DOMAIN TreeOf(head).journal /\ TreeOf(head).journal[obj[c].seq] = c
    BY <2>1, <2>3, <2>4 DEF JournalOK, TreeOf
  <2>6. TagOf(obj, tags, c)
    BY <2>1 DEF TagRec
  <2>7. IF obj[c].batch = << >> THEN c \in tags
        ELSE \E b \in tags : Is(b, "binder") /\ c \in Members(b)
    BY <2>6 DEF TagOf, Kind, Is, MembersIn, Members
  <2>8. QED
    BY <2>5, <2>7 DEF Reads
<1>2. QED
  BY <1>1 DEF PublishedReads

\* Where sessions and publications keep out of each other's way, a lagging tree is
\* brought to the branch before a session, and no operator promotes a member alone,
\* every retirement and rollback the publisher let onto the
\* branch is one that retire_records_status reads as published: its file is on the
\* branch as its commit wrote it, and its tag, or its batch's, is there.
THEOREM InvHolds == Quiet /\ Synced /\ ~MembersAlone => (Spec => []Inv)
<1> SUFFICES ASSUME Quiet, Synced, ~MembersAlone PROVE Spec => []Inv
  OBVIOUS
<1> DEFINE All == IInv /\ BatchInv /\ TypeOK /\ TreeInv /\ TagRec
<1>1. Init => All
  <2> SUFFICES ASSUME Init PROVE All
    OBVIOUS
  <2>1. IInv /\ BatchInv /\ TypeOK /\ TreeInv
    BY StartOK, StartBatches, StartType, StartTrees
  <2>2. TagRec
    BY DEF Init, TagRec, Past, Record
  <2>3. QED
    BY <2>1, <2>2
<1>2. All /\ [Next]_vars => All'
  <2> SUFFICES ASSUME All, [Next]_vars PROVE All'
    OBVIOUS
  <2>1. TreesOK(obj)
    BY DEF TreeInv
  <2>2. IInv' /\ BatchInv' /\ TypeOK' /\ TreeInv' /\ TagRec'
    BY <2>1, StepKeeps, StepKeepsBatches, StepKeepsType, StepKeepsTreeInv, StepKeepsTagRec
  <2>3. QED
    BY <2>2
<1>3. All => Inv
  BY ReadsFollows DEF TreeInv, Inv
<1> QED
  BY <1>1, <1>2, <1>3, PTL DEF Spec

-----------------------------------------------------------------------------
\* The published texts are stacks. A move is one commit, and a commit is one layer
\* more on one view, a retirement less on one view, or a binder, which changes none.

Texts == TreeOf(head).text
Gone == {c \in Records(head) : Is(c, "retire")}

LEMMA TextsOfPast ==
  ASSUME IInv, TreesOK(obj)
  PROVE  Texts \in [Views -> Seq(Past(head) \ {0})] /\ Stacks!Used \cup Gone \subseteq Past(head)
<1>1. ObjOK(obj, made) /\ head \in {0} \cup DOMAIN obj
  BY DEF IInv, RefsOK
<1>2. TreeIn(obj, head).text \in [Views -> Seq(Reached(obj, head) \ {0})]
  BY <1>1, TextFrom
<1>3. Texts \in [Views -> Seq(Past(head) \ {0})]
  BY <1>2, TreeOfIn DEF Texts
<1>4. ASSUME NEW u \in Stacks!Used PROVE u \in Past(head)
  <2>1. PICK v \in Views : u \in {Texts[v][i] : i \in DOMAIN Texts[v]}
    BY <1>4 DEF Stacks!Used, Texts
  <2>2. PICK i \in DOMAIN Texts[v] : u = Texts[v][i]
    BY <2>1
  <2>3. Texts[v] \in Seq(Past(head) \ {0})
    BY <1>3
  <2>4. QED
    BY <2>2, <2>3
<1>5. Gone \subseteq Past(head)
  BY DEF Gone, Records
<1>6. QED
  BY <1>3, <1>4, <1>5

LEMMA OneLayer ==
  ASSUME IInv, TreesOK(obj), IInv', TypeOK', TreesOK(obj'), Grows(obj, obj'),
         NEW c, head' = c, c \in DOMAIN obj', obj'[c].parent = head,
         (Past(head))' = Past(head) \cup {c}
  PROVE  Stacks!Next \/ UNCHANGED <<Texts, Gone>>
<1> DEFINE v == obj'[c].view
           new == obj'[c].tree.text
<1>1. c # 0 /\ c \in 1..MaxMade
  <2>1. DOMAIN obj' \subseteq 1..made' /\ made' \in 0..MaxMade
    BY DEF TypeOK
  <2>2. MaxMade \in Nat
    BY RetirePublishAssumption
  <2>3. QED
    BY <2>1, <2>2
<1>2. head \in {0} \cup DOMAIN obj /\ 0 \notin DOMAIN obj
  BY DEF IInv, RefsOK, ObjOK
<1>3. Reached(obj', head) = Past(head) /\ TreeIn(obj', head).text = Texts
  BY <1>2 DEF Reached, Past, TreeIn, Texts, TreeOf, Grows
<1>4. Texts' = new
  BY <1>1 DEF Texts, TreeOf
<1>5. TreeOK(obj', c)
  BY DEF TreesOK
<1>6. c \notin Past(head) /\ TextOK(obj', c, Texts, new)
  BY <1>3, <1>5 DEF TreeOK
<1>7. Texts \in [Views -> Seq(Past(head) \ {0})] /\ Stacks!Used \cup Gone \subseteq Past(head)
  BY TextsOfPast
<1>8. Gone' = IF obj'[c].kind = "retire" THEN Gone \cup {c} ELSE Gone
  <2>1. Past(head) \subseteq {0} \cup DOMAIN obj
    BY PastInObj
  <2>2. Gone = {x \in Past(head) : x # 0 /\ obj[x].kind = "retire"}
    BY DEF Gone, Records, Is
  <2>3. Gone' = {x \in Past(head) \cup {c} : x # 0 /\ obj'[x].kind = "retire"}
    BY DEF Gone, Records, Is
  <2>4. \A x \in Past(head) : x # 0 => obj'[x] = obj[x]
    BY <2>1 DEF Grows
  <2>5. QED
    BY <1>1, <1>6, <2>2, <2>3, <2>4
<1>9. obj'[c].kind \in Kinds
  BY <1>6 DEF TextOK
<1> HIDE DEF v, new
<1>10. CASE obj'[c].kind \in {"retire", "run"}
  <2>1. v \in Views /\ Texts' = [Texts EXCEPT ![v] = Append(@, c)]
    BY <1>4, <1>6, <1>10 DEF TextOK, Pushed, v
  <2>2. c \notin Stacks!Used \cup Gone
    BY <1>6, <1>7
  <2>3. Gone' \in {Gone, Gone \cup {c}}
    BY <1>8
  <2>4. Stacks!Put(v, c)
    BY <2>1, <2>2, <2>3 DEF Stacks!Put, Texts, Gone
  <2>5. QED
    BY <1>1, <2>1, <2>4 DEF Stacks!Next
<1>11. CASE obj'[c].kind = "rollback"
  <2>1. /\ v \in Views /\ Texts[v] # << >>
        /\ Texts' = [Texts EXCEPT ![v] = SubSeq(@, 1, Len(@) - 1)]
        /\ Top(Texts[v]) \in Reached(obj', head) \ {0}
        /\ obj'[Top(Texts[v])].kind = "retire"
    BY <1>4, <1>6, <1>11 DEF TextOK, Popped, v
  <2>2. Gone' = Gone
    BY <1>8, <1>11
  <2>3. Top(Texts[v]) \in Gone
    <3>1. Past(head) \subseteq {0} \cup DOMAIN obj
      BY PastInObj
    <3>2. Top(Texts[v]) \in Past(head) \ {0}
      BY <1>3, <2>1
    <3>3. obj'[Top(Texts[v])] = obj[Top(Texts[v])]
      BY <3>1, <3>2 DEF Grows
    <3>4. QED
      BY <2>1, <3>2, <3>3 DEF Gone, Records, Is
  <2>4. Stacks!TakeBack(v)
    BY <2>1, <2>2, <2>3 DEF Stacks!TakeBack, Texts, Gone, Top
  <2>5. QED
    BY <2>1, <2>4 DEF Stacks!Next
<1>12. CASE obj'[c].kind = "binder"
  <2>1. Texts' = Texts /\ Gone' = Gone
    BY <1>4, <1>6, <1>8, <1>12 DEF TextOK
  <2>2. QED
    BY <2>1
<1>13. QED
  BY <1>9, <1>10, <1>11, <1>12 DEF Kinds

LEMMA StepMaps ==
  ASSUME IInv, BatchInv, TypeOK, TreesOK(obj), IInv', TypeOK', TreesOK(obj'), [Next]_vars
  PROVE  Stacks!Next \/ UNCHANGED <<Texts, Gone>>
<1>1. Grows(obj, obj') /\ head \in {0} \cup DOMAIN obj /\ 0 \notin DOMAIN obj
  BY Numbers DEF IInv, RefsOK, ObjOK
<1>2. CASE head' = head
  <2>1. Texts' = Texts
    BY <1>1, <1>2 DEF Texts, TreeOf, Grows
  <2>2. Past(head) \subseteq {0} \cup DOMAIN obj
    BY PastInObj
  <2>3. (Past(head))' = Past(head)
    BY <1>1, <1>2 DEF Past, Grows
  <2>4. Gone = {x \in Past(head) : x # 0 /\ obj[x].kind = "retire"}
    BY DEF Gone, Records, Is
  <2>5. Gone' = {x \in Past(head) : x # 0 /\ obj'[x].kind = "retire"}
    BY <2>3 DEF Gone, Records, Is
  <2>6. \A x \in Past(head) : x # 0 => obj'[x] = obj[x]
    BY <1>1, <2>2 DEF Grows
  <2>7. Gone' = Gone
    BY <2>4, <2>5, <2>6
  <2>8. QED
    BY <2>1, <2>7
<1>3. ASSUME NEW p \in Terminals, Move(p), head = job[p].cur
      PROVE  Stacks!Next \/ UNCHANGED <<Texts, Gone>>
  <2>1. /\ head' = job[p].todo[1] /\ head' \in DOMAIN obj /\ obj[head'].parent = head
    BY <1>3, MoveGoesToChild
  <2>2. (Past(head))' = Past(head) \cup {head'}
    BY <1>3, <2>1, OneCommit DEF BatchInv
  <2>3. head' \in DOMAIN obj' /\ obj'[head'].parent = head
    BY <1>1, <2>1 DEF Grows
  <2>4. QED
    BY <1>1, <2>2, <2>3, OneLayer
<1>4. CASE SessionCommits
  <2>1. PICK c : /\ obj' = With(obj, session.id, c) /\ head' = session.id /\ c.parent = head
                 /\ c.past = Past(head) \cup {session.id} /\ session.wrote # {}
    BY <1>4 DEF SessionCommits
  <2>2. session.id # 0
    BY <2>1 DEF IInv, RefsOK
  <2>3. /\ (Past(head))' = Past(head) \cup {head'}
        /\ head' \in DOMAIN obj' /\ obj'[head'].parent = head
    BY <2>1, <2>2 DEF Past, With
  <2>4. QED
    BY <1>1, <2>3, OneLayer
<1>5. QED
  BY <1>2, <1>3, <1>4, BranchStep

\* Where sessions and publications keep out of each other's way and a lagging tree is
\* brought to the branch before a session, every step of the branch puts one new layer on one view or takes the top retirement off one, and a
\* rollback brings back exactly the text its retirement covered (prepare_rollback).
THEOREM PublicationImplemented == Quiet /\ Synced => (Spec => ImplementsPublication)
<1> SUFFICES ASSUME Quiet, Synced PROVE Spec => ImplementsPublication
  OBVIOUS
<1> DEFINE All == IInv /\ BatchInv /\ TypeOK /\ TreeInv
<1>1. Init => All /\ Stacks!Init
  <2> SUFFICES ASSUME Init PROVE All /\ Stacks!Init
    OBVIOUS
  <2>1. All
    BY StartOK, StartBatches, StartType, StartTrees
  <2>2. head = 0 /\ Records(0) = {}
    BY DEF Init, Records, Past, Is
  <2>3. Texts = [v \in Views |-> << >>] /\ Gone = {}
    BY <2>2 DEF Texts, TreeOf, Empty, Gone
  <2>4. Stacks!Init
    BY <2>3 DEF Stacks!Init, Texts, Gone
  <2>5. QED
    BY <2>1, <2>4
<1>2. All /\ [Next]_vars => All' /\ [Stacks!Next]_<<Texts, Gone>>
  <2> SUFFICES ASSUME All, [Next]_vars PROVE All' /\ [Stacks!Next]_<<Texts, Gone>>
    OBVIOUS
  <2>1. IInv' /\ BatchInv' /\ TypeOK' /\ TreeInv'
    BY StepKeeps, StepKeepsBatches, StepKeepsType, StepKeepsTreeInv
  <2>2. TreesOK(obj) /\ TreesOK(obj')
    BY <2>1 DEF TreeInv
  <2>3. Stacks!Next \/ UNCHANGED <<Texts, Gone>>
    BY <2>1, <2>2, StepMaps
  <2>4. QED
    BY <2>1, <2>3
<1> HIDE DEF All
<1>3. All /\ [Next]_vars =>
        All' /\ [Stacks!Next]_<<TreeOf(head).text, {c \in Records(head) : Is(c, "retire")}>>
  BY <1>2 DEF Texts, Gone
<1>4. QED
  BY <1>1, <1>3, PTL DEF Spec, ImplementsPublication, Stacks!Spec
=============================================================================
