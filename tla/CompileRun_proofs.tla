--------------------------- MODULE CompileRun_proofs ---------------------------
(***************************************************************************)
(* Proofs about CompileRun: its types for any operator and any failing     *)
(* commits, and for an operator who clears leftovers what the commits of a *)
(* branch hold, for any views, records, failures and kills.                *)
(***************************************************************************)
EXTENDS CompileRun, Sequences, FiniteSetTheorems, TLAPS

\* The operator clears leftovers before the next verb, and the commits that add a
\* verify record or its annotation do not fail.
Cleared == Tidy = TRUE /\ MayFail \cap {"verify", "annotation"} = {}

-----------------------------------------------------------------------------
\* What the journal and a session's locals hold.

Pages == {<< >>} \cup UNION {[W -> Content] : W \in SUBSET Views}
Prevs == {<< >>} \cup (Nat \X BOOLEAN)
RecType == [id : Nat, kind : Kinds \ {"annotation"}, over : Nat, prev : Prevs,
            annotated : BOOLEAN, stamped : SUBSET Views, complete : BOOLEAN,
            before : Pages, wrote : Pages]

\* No record has a number below its seq, so that the bound on records bounds the seqs.
JournalType(j, bound) ==
  /\ j \in [DOMAIN j -> RecType]
  /\ \A s \in DOMAIN j : /\ s \in Nat \ {0} /\ s <= j[s].id /\ j[s].id <= bound
                         /\ DOMAIN j[s].before = DOMAIN j[s].wrote

JobType == [verb : {"none", "run", "reverify", "revert"}, kind : Kinds \cup {"none"},
            id : Nat, seq : Nat, at : Nat, paths : SUBSET Views, todo : SUBSET Views,
            stamped : SUBSET Views, complete : BOOLEAN, old : [Views -> Content] \cup {<< >>}]

Typed == /\ tree \in [Views -> Content] /\ head \in [Views -> Content]
         /\ JournalType(jtree, made) /\ JournalType(jhead, made)
         /\ made \in 0..MaxRecords /\ crashes \in 0..MaxCrashes
         /\ pc \in {"idle", "validate", "write", "append", "commit", "leg", "annotate",
                    "undo", "bytes", "restore"}
         /\ job \in JobType

\* What a session has in hand: a new record gets the newest number, and a revert has
\* its run in the newest commit.
JobFits ==
  /\ pc \in {"validate", "write"} => job.kind = "compile"
  /\ pc \in {"validate", "write", "append"} =>
       job.id = made /\ made > 0 /\ \A q \in DOMAIN jtree : jtree[q].id < made
  /\ job.kind = "compile" => job.old \in [Views -> Content]
  /\ pc = "append" => job.kind \in Kinds \ {"annotation"}
  /\ pc \in {"commit", "annotate"} => job.at \in DOMAIN jtree
  /\ pc = "commit" /\ job.kind = "compile" => job.seq = job.at /\ jtree[job.at].kind = "compile"
  /\ pc = "leg" => job.kind = "verify" /\ job.seq \in DOMAIN jtree
  /\ pc = "annotate" => job.kind = "annotation"
  /\ (job.verb = "run" /\ job.kind \in {"verify", "annotation"}) \/ pc \in {"undo", "bytes", "restore"}
       => job.seq \in Runs(jhead)
  /\ job.verb = "run" /\ job.kind \in {"verify", "annotation"} =>
       job.seq \in Runs(jtree) /\ (pc \in {"commit", "annotate"} => job.at # job.seq)
  /\ pc \in {"idle", "undo", "bytes", "restore"} => job.kind = "none"
  /\ pc = "bytes" => job.todo \subseteq DOMAIN jhead[job.seq].wrote

Structure == Typed /\ JobFits

-----------------------------------------------------------------------------
\* What the commits of a branch hold.

\* The runs that stand on a view, and what lies on it below a seq.
Standing(j, v) == {s \in Runs(j) \ Reverted(j) : v \in DOMAIN j[s].wrote}
Below(j, v, s) == {w \in Standing(j, v) : w < s}
OnTop(j, v, s, id) ==
  \/ Below(j, v, s) = {} /\ id = 0
  \/ \E w \in Below(j, v, s) : id = j[w].id /\ \A x \in Below(j, v, s) : x <= w

\* A view's committed text is that of the newest run that stands on it, and each run
\* that stands knows the text of the one below.
Stacked(j, text) ==
  \A v \in Views : /\ OnTop(j, v, Size(j) + 1, text[v].body)
                   /\ \A s \in Standing(j, v) : OnTop(j, v, s, j[s].before[v].body)

Follows(j, s) == j[s].prev = IF s = 1 THEN << >> ELSE Hash(j[s - 1])
Growing(j) == \A q, s \in DOMAIN j : q < s => j[q].id < j[s].id
OverFits(j) == \A s \in DOMAIN j : j[s].kind # "compile" => j[s].over \in Runs(j) /\ j[s].over < s
AllClosed(j) == \A s \in Runs(j) : Terminal(j, s)
OnlyNewestOpen(j) == \A s, q \in Runs(j) : s < q => Terminal(j, s)
HasNewest(j) == Runs(j) = {} \/ \E m \in Runs(j) : \A q \in Runs(j) : q <= m

JournalSound(j, text) ==
  /\ Chained(j) /\ Growing(j) /\ OverFits(j) /\ OnlyNewestOpen(j) /\ HasNewest(j)
  /\ Stacked(j, text)

\* A record of the working tree that no commit has yet.
NewRecord(s) ==
  LET r == jtree[s]
  IN /\ s = Size(jhead) + 1 /\ Follows(jtree, s)
     /\ \A q \in DOMAIN jhead : jtree[q] = jhead[q] /\ jhead[q].id < r.id
     /\ DOMAIN jtree = DOMAIN jhead \cup {s}
     /\ r.kind # "compile" => r.over \in Runs(jhead)
     /\ r.kind = "compile" =>
          /\ AllClosed(jhead) /\ DOMAIN r.wrote # {} /\ r.over = 0
          /\ \A v \in DOMAIN r.wrote : r.wrote[v].body = r.id /\ r.before[v].body = head[v].body

Leftovers == \A s \in DOMAIN jtree \ DOMAIN jhead : NewRecord(s)

Stands(s) == s \in Runs(jhead) \ Reverted(jhead)
SameBody(v) == tree[v].body = head[v].body

\* Where each session is in its work.
RunPhase ==
  job.kind = "compile" =>
    /\ AllClosed(jhead) /\ job.paths # {} /\ \A v \in job.paths : job.old[v].body = head[v].body
    /\ pc = "write" => \A v \in job.paths \ job.todo : tree[v].body = job.id
    /\ pc \in {"append", "commit"} => \A v \in job.paths : tree[v].body = job.id

VerifyPhase ==
  /\ job.kind \in {"verify", "annotation"} => Stands(job.seq) /\ \A v \in job.paths \cup job.todo : SameBody(v)
  /\ pc = "annotate" => job.at = Size(jhead) /\ jhead[job.at].kind = "verify"

RevertPhase ==
  /\ pc = "undo" \/ job.kind = "revert-failed" =>
       Stands(job.seq) /\ \A v \in job.paths : SameBody(v)
  /\ pc \in {"bytes", "restore"} \/ job.kind = "revert" =>
       /\ Stands(job.seq) /\ job.paths = DOMAIN jhead[job.seq].wrote
       /\ \A v \in job.paths : head[v].body = jhead[job.seq].id
  /\ pc = "bytes" => \A v \in job.paths \ job.todo : tree[v].body = jhead[job.seq].before[v].body
  /\ pc = "restore" \/ job.kind = "revert" =>
       \A v \in job.paths : tree[v].body = jhead[job.seq].before[v].body

\* The journal of the working tree, against that of the newest commit.
TreePhase ==
  /\ pc \in {"validate", "write", "append", "leg", "annotate", "undo", "bytes"} => jtree = jhead
  /\ pc = "restore" => jtree = jhead \/ jtree = Without(jhead, job.seq)
  /\ pc = "commit" /\ job.kind = "annotation" =>
       /\ job.at = Size(jhead) /\ job.at \in DOMAIN jhead /\ jhead[job.at].kind = "verify"
       /\ DOMAIN jtree = DOMAIN jhead /\ \A q \in DOMAIN jhead \ {job.at} : jtree[q] = jhead[q]
       /\ jtree[job.at] = [jhead[job.at] EXCEPT !.annotated = TRUE]
  /\ pc = "commit" /\ job.kind # "annotation" =>
       /\ job.at \notin DOMAIN jhead
       /\ jtree[job.at].kind = job.kind /\ jtree[job.at].id = job.id
       /\ IF job.kind = "compile" THEN DOMAIN jtree[job.at].wrote = job.paths
                                  ELSE jtree[job.at].over = job.seq

SessionSound == RunPhase /\ VerifyPhase /\ RevertPhase /\ TreePhase

Sound == JournalSound(jhead, head) /\ Leftovers /\ SessionSound

-----------------------------------------------------------------------------
\* Records and journals as values.

LEMMA PagesAre ==
  ASSUME NEW f \in Pages
  PROVE  DOMAIN f \subseteq Views /\ \A v \in DOMAIN f : f[v] \in Content
<1>1. CASE f = << >>
  <2>1. DOMAIN f = {}
    BY <1>1
  <2>2. QED
    BY <2>1
<1>2. CASE f \in UNION {[W -> Content] : W \in SUBSET Views}
  <2>1. PICK W \in SUBSET Views : f \in [W -> Content]
    BY <1>2
  <2>2. QED
    BY <2>1
<1>3. QED
  BY <1>1, <1>2 DEF Pages

LEMMA PageOf ==
  ASSUME NEW W \in SUBSET Views, NEW f \in [W -> Content]
  PROVE  f \in Pages
  BY DEF Pages

\* What one record more, or in place of one, makes of a journal.
LEMMA WithTyped ==
  ASSUME NEW bound \in Nat, NEW j, JournalType(j, bound), NEW s \in Nat \ {0}, NEW r \in RecType,
         s <= r.id, r.id <= bound, DOMAIN r.before = DOMAIN r.wrote
  PROVE  JournalType(With(j, s, r), bound)
<1> DEFINE k == With(j, s, r)
<1>1. k \in [DOMAIN j \cup {s} -> RecType]
  BY DEF With, JournalType
<1>2. \A q \in DOMAIN j \cup {s} : k[q] = IF q = s THEN r ELSE j[q]
  BY DEF With
<1>3. DOMAIN k = DOMAIN j \cup {s}
  BY DEF With
<1> HIDE DEF k
<1>4. JournalType(k, bound)
  BY <1>1, <1>2, <1>3 DEF JournalType
<1>5. QED
  BY <1>4 DEF k

LEMMA WithoutTyped ==
  ASSUME NEW bound \in Nat, NEW j, JournalType(j, bound), NEW s
  PROVE  JournalType(Without(j, s), bound)
<1> DEFINE k == Without(j, s)
<1>1. k \in [DOMAIN j \ {s} -> RecType]
  BY DEF Without, JournalType
<1>2. \A q \in DOMAIN j \ {s} : k[q] = j[q]
  BY DEF Without
<1>3. DOMAIN k = DOMAIN j \ {s}
  BY DEF Without
<1> HIDE DEF k
<1>4. JournalType(k, bound)
  BY <1>1, <1>2, <1>3 DEF JournalType
<1>5. QED
  BY <1>4 DEF k

LEMMA AnnotatedTyped ==
  ASSUME NEW bound \in Nat, NEW j, JournalType(j, bound), NEW s \in DOMAIN j
  PROVE  JournalType([j EXCEPT ![s].annotated = TRUE], bound)
<1> DEFINE r == [j[s] EXCEPT !.annotated = TRUE]
<1>1. j[s] \in RecType
  BY DEF JournalType
<1>2. /\ r \in RecType /\ r.id = j[s].id
      /\ r.before = j[s].before /\ r.wrote = j[s].wrote
  BY <1>1 DEF RecType
<1>3. [j EXCEPT ![s].annotated = TRUE] = [j EXCEPT ![s] = r]
  OBVIOUS
<1> HIDE DEF r
<1>4. QED
  BY <1>2, <1>3 DEF JournalType

LEMMA MoreRecords ==
  ASSUME NEW j, NEW m \in Nat, NEW n \in Nat, m <= n, JournalType(j, m)
  PROVE  JournalType(j, n)
  BY DEF JournalType, RecType

\* The seqs of a chained journal.
LEMMA SeqsOf ==
  ASSUME NEW bound \in Nat, NEW j, JournalType(j, bound), Chained(j)
  PROVE  Size(j) \in Nat /\ DOMAIN j = 1..Size(j)
<1>1. DOMAIN j \subseteq 1..bound
  BY DEF JournalType, RecType
<1>2. IsFiniteSet(DOMAIN j)
  BY <1>1, FS_Interval, FS_Subset
<1>3. QED
  BY <1>2, FS_CardinalityType DEF Chained, Size

LEMMA SizeIs ==
  ASSUME NEW j, NEW n \in Nat, DOMAIN j = 1..n
  PROVE  Size(j) = n
<1>1. Cardinality(1..n) = n
  <2>1. n = 0 \/ 1 <= n
    OBVIOUS
  <2>2. Cardinality(1..n) = IF 1 > n THEN 0 ELSE n - 1 + 1
    BY FS_Interval
  <2>3. QED
    BY <2>1, <2>2
<1>2. QED
  BY <1>1 DEF Size

-----------------------------------------------------------------------------
\* Types, for any operator and any failing commits.

LEMMA IdleTyped ==
  /\ Idle \in JobType
  /\ Idle.verb = "none" /\ Idle.kind = "none" /\ Idle.paths = {} /\ Idle.todo = {}
  BY DEF Idle, JobType

\* A session that stops has nothing in hand.
LEMMA StopFits ==
  ASSUME Stop
  PROVE  pc' = "idle" /\ job' = Idle /\ JobFits' /\ job' \in JobType
<1>1. pc' = "idle" /\ job' = Idle
  BY DEF Stop, Goto
<1>2. QED
  BY <1>1, IdleTyped DEF JobFits

LEMMA KindsAre ==
  /\ Kinds = {"compile", "verify", "annotation", "revert", "revert-failed"}
  /\ MaxRecords \in Nat /\ MaxCrashes \in Nat
  BY CompileRunAssumption DEF Kinds

LEMMA InitStructure == Init => Structure
<1> SUFFICES ASSUME Init PROVE Structure
  OBVIOUS
<1>1. << >> \in [DOMAIN << >> -> RecType] /\ DOMAIN << >> = {}
  <2>1. DOMAIN << >> = {}
    OBVIOUS
  <2>2. QED
    BY <2>1
<1>2. JournalType(<< >>, 0)
  BY <1>1 DEF JournalType
<1>3. tree \in [Views -> Content] /\ head \in [Views -> Content]
  BY DEF Init, Content
<1>4. made \in 0..MaxRecords /\ crashes \in 0..MaxCrashes
  BY KindsAre DEF Init
<1>5. job \in JobType
  BY IdleTyped DEF Init
<1>6. Typed
  BY <1>2, <1>3, <1>4, <1>5 DEF Init, Typed
<1>7. JobFits
  BY IdleTyped DEF Init, JobFits
<1>8. QED
  BY <1>6, <1>7 DEF Structure

LEMMA NewNumber ==
  ASSUME Structure, made < MaxRecords, made' = made + 1
  PROVE  /\ made' \in 0..MaxRecords /\ made' > 0 /\ made' \in Nat
         /\ JournalType(jtree, made') /\ JournalType(jhead, made')
         /\ \A q \in DOMAIN jtree : jtree[q].id < made'
         /\ \A q \in DOMAIN jhead : jhead[q].id < made'
<1>1. made \in Nat /\ made' \in Nat /\ made <= made'
  BY KindsAre DEF Structure, Typed
<1>2. JournalType(jtree, made) /\ JournalType(jhead, made)
  BY DEF Structure, Typed
<1>3. JournalType(jtree, made') /\ JournalType(jhead, made')
  BY <1>1, <1>2, MoreRecords
<1>4. \A q \in DOMAIN jtree : jtree[q].id < made'
  BY <1>1, <1>2 DEF JournalType, RecType
<1>5. \A q \in DOMAIN jhead : jhead[q].id < made'
  BY <1>1, <1>2 DEF JournalType, RecType
<1>6. made' \in 0..MaxRecords /\ made' > 0
  BY <1>1, KindsAre
<1>7. QED
  BY <1>1, <1>3, <1>4, <1>5, <1>6

LEMMA BeginIs ==
  ASSUME Structure, NEW W \in (SUBSET Views) \ {{}}, Begin(W)
  PROVE  /\ pc' = "validate" /\ job' \in JobType
         /\ job'.verb = "run" /\ job'.kind = "compile" /\ job'.id = made'
         /\ job'.paths = W /\ job'.todo = W /\ job'.old = tree
         /\ UNCHANGED <<tree, head, jtree, jhead, crashes>>
<1>1. /\ pc' = "validate" /\ UNCHANGED <<tree, head, jtree, jhead, crashes>>
      /\ job' = [Idle EXCEPT !.verb = "run", !.kind = "compile", !.id = made',
                             !.paths = W, !.todo = W, !.old = tree]
  BY DEF Begin, Goto
<1>2. made' \in Nat
  BY NewNumber DEF Begin, StartsOn
<1>3. tree \in [Views -> Content]
  BY DEF Structure, Typed
<1>4. QED
  BY <1>1, <1>2, <1>3, IdleTyped, KindsAre DEF JobType

LEMMA BeginStructure ==
  ASSUME Structure, NEW W \in (SUBSET Views) \ {{}}, Begin(W)
  PROVE  Structure'
<1>1. /\ pc' = "validate" /\ job' \in JobType
      /\ job'.verb = "run" /\ job'.kind = "compile" /\ job'.id = made' /\ job'.old = tree
      /\ UNCHANGED <<tree, head, jtree, jhead, crashes>>
  BY BeginIs
<1>2. /\ made' \in 0..MaxRecords /\ made' > 0
      /\ JournalType(jtree, made') /\ JournalType(jhead, made')
      /\ \A q \in DOMAIN jtree : jtree[q].id < made'
  BY NewNumber DEF Begin, StartsOn
<1>3. tree \in [Views -> Content]
  BY DEF Structure, Typed
<1>4. Typed'
  BY <1>1, <1>2 DEF Structure, Typed
<1>5. JobFits'
  BY <1>1, <1>2, <1>3 DEF JobFits
<1>6. QED
  BY <1>4, <1>5 DEF Structure

LEMMA ValidateIs ==
  ASSUME Structure, NEW v \in Views, Validate(v)
  PROVE  /\ pc = "validate" /\ pc' \in {"validate", "write"} /\ job' \in JobType
         /\ job'.verb = job.verb /\ job'.kind = job.kind /\ job'.id = job.id
         /\ job'.paths = job.paths /\ job'.old = job.old /\ job'.seq = job.seq
         /\ pc' = "write" => job'.todo = job.paths
         /\ UNCHANGED <<tree, head, jtree, jhead, made, crashes>>
<1>1. job \in JobType
  BY DEF Structure, Typed
<1>2. CASE job.todo = {v}
  <2>1. pc' = "write" /\ job' = [job EXCEPT !.todo = job.paths]
    BY <1>2 DEF Validate, Goto
  <2>2. QED
    BY <1>1, <2>1 DEF Validate, JobType
<1>3. CASE job.todo # {v}
  <2>1. pc' = "validate" /\ job' = [job EXCEPT !.todo = @ \ {v}]
    BY <1>3 DEF Validate, Goto
  <2>2. QED
    BY <1>1, <2>1 DEF Validate, JobType
<1>4. QED
  BY <1>2, <1>3

LEMMA ValidateStructure ==
  ASSUME Structure, NEW v \in Views, Validate(v)
  PROVE  Structure'
<1>1. /\ pc = "validate" /\ pc' \in {"validate", "write"} /\ job' \in JobType
      /\ job'.verb = job.verb /\ job'.kind = job.kind /\ job'.id = job.id
      /\ job'.old = job.old
      /\ UNCHANGED <<tree, head, jtree, jhead, made, crashes>>
  BY ValidateIs
<1>2. Typed'
  BY <1>1 DEF Structure, Typed
<1>3. JobFits'
  BY <1>1 DEF Structure, JobFits
<1>4. QED
  BY <1>2, <1>3 DEF Structure

\* A session that ends with nothing but its own locals changed.
LEMMA StopStructure ==
  ASSUME Structure, Stop, UNCHANGED <<tree, head, jtree, jhead, made>>,
         crashes' \in 0..MaxCrashes
  PROVE  Structure'
<1>1. pc' = "idle" /\ job' \in JobType /\ JobFits'
  BY StopFits
<1>2. Typed'
  BY <1>1 DEF Structure, Typed
<1>3. QED
  BY <1>1, <1>2 DEF Structure

LEMMA OneBody ==
  ASSUME NEW t \in [Views -> Content], NEW v \in Views, NEW id \in Nat
  PROVE  /\ [t EXCEPT ![v].body = id] \in [Views -> Content]
         /\ [t EXCEPT ![v].body = id][v].body = id
         /\ [t EXCEPT ![v].body = id][v].stamp = t[v].stamp
         /\ \A w \in Views \ {v} : [t EXCEPT ![v].body = id][w] = t[w]
  BY DEF Content

LEMMA OneStamp ==
  ASSUME NEW t \in [Views -> Content], NEW v \in Views, NEW id \in Nat
  PROVE  /\ [t EXCEPT ![v].stamp = id] \in [Views -> Content]
         /\ \A w \in Views : [t EXCEPT ![v].stamp = id][w].body = t[w].body
  BY DEF Content

LEMMA WriteViewIs ==
  ASSUME Structure, NEW v \in Views, WriteView(v)
  PROVE  /\ pc = "write" /\ pc' = IF job.todo = {v} THEN "append" ELSE "write"
         /\ job' \in JobType /\ job'.todo = job.todo \ {v}
         /\ job'.verb = job.verb /\ job'.kind = job.kind /\ job'.id = job.id
         /\ job'.paths = job.paths /\ job'.old = job.old /\ job'.seq = job.seq
         /\ tree' \in [Views -> Content] /\ tree'[v].body = job.id
         /\ \A w \in Views \ {v} : tree'[w] = tree[w]
         /\ UNCHANGED <<head, jtree, jhead, made, crashes>>
<1>1. job \in JobType /\ tree \in [Views -> Content]
  BY DEF Structure, Typed
<1>2. /\ pc = "write" /\ pc' = IF job.todo = {v} THEN "append" ELSE "write"
      /\ job' = [job EXCEPT !.todo = @ \ {v}]
      /\ tree' = [tree EXCEPT ![v].body = job.id]
      /\ UNCHANGED <<head, jtree, jhead, made, crashes>>
  BY DEF WriteView, Goto
<1>3. job.id \in Nat
  BY <1>1 DEF JobType
<1>4. /\ tree' \in [Views -> Content] /\ tree'[v].body = job.id
      /\ \A w \in Views \ {v} : tree'[w] = tree[w]
  BY <1>1, <1>2, <1>3, OneBody
<1>5. /\ job' \in JobType /\ job'.todo = job.todo \ {v}
      /\ job'.verb = job.verb /\ job'.kind = job.kind /\ job'.id = job.id
      /\ job'.paths = job.paths /\ job'.old = job.old /\ job'.seq = job.seq
  BY <1>1, <1>2 DEF JobType
<1>6. QED
  BY <1>2, <1>4, <1>5

LEMMA WriteViewStructure ==
  ASSUME Structure, NEW v \in Views, WriteView(v)
  PROVE  Structure'
<1>1. /\ pc = "write" /\ pc' \in {"append", "write"} /\ job' \in JobType
      /\ job'.verb = job.verb /\ job'.kind = job.kind /\ job'.id = job.id
      /\ job'.old = job.old
      /\ tree' \in [Views -> Content]
      /\ UNCHANGED <<head, jtree, jhead, made, crashes>>
  BY WriteViewIs
<1>2. Typed'
  BY <1>1 DEF Structure, Typed
<1>3. JobFits'
  BY <1>1, KindsAre DEF Structure, JobFits
<1>4. QED
  BY <1>2, <1>3 DEF Structure

\* What an exception makes of a session.
LEMMA RaiseIs ==
  ASSUME Structure, Raise
  PROVE  /\ job' \in JobType /\ job'.kind = "none" /\ job'.paths = {} /\ job'.todo = {}
         /\ \/ Stop
            \/ /\ pc' = "undo" /\ job'.verb = "run" /\ job'.seq = job.seq
               /\ job.verb = "run" /\ job.kind \in {"verify", "annotation"}
<1>1. job.seq \in Nat
  BY DEF Structure, Typed, JobType
<1>2. CASE job.verb = "run" /\ job.kind \in {"verify", "annotation"}
  <2>1. pc' = "undo" /\ job' = [Idle EXCEPT !.verb = "run", !.seq = job.seq]
    BY <1>2 DEF Raise, Goto
  <2>2. QED
    BY <1>1, <1>2, <2>1, IdleTyped DEF JobType
<1>3. CASE ~(job.verb = "run" /\ job.kind \in {"verify", "annotation"})
  <2>1. Stop
    BY <1>3 DEF Raise
  <2>2. QED
    BY <2>1, StopFits, IdleTyped
<1>4. QED
  BY <1>2, <1>3

LEMMA RaiseStructure ==
  ASSUME Structure, Raise, UNCHANGED <<tree, head, jtree, jhead, made, crashes>>
  PROVE  Structure'
<1>1. job' \in JobType /\ job'.kind = "none"
  BY RaiseIs
<1>2. CASE Stop
  <2>1. crashes' \in 0..MaxCrashes
    BY DEF Structure, Typed
  <2>2. QED
    BY <1>2, <2>1, StopStructure
<1>3. CASE /\ pc' = "undo" /\ job'.verb = "run" /\ job'.seq = job.seq
           /\ job.verb = "run" /\ job.kind \in {"verify", "annotation"}
  <2>1. Typed'
    BY <1>1, <1>3 DEF Structure, Typed
  <2>2. job'.seq \in Runs(jhead')
    BY <1>3 DEF Structure, JobFits
  <2>3. JobFits'
    BY <1>1, <1>3, <2>2 DEF JobFits
  <2>4. QED
    BY <2>1, <2>3 DEF Structure
<1>4. QED
  BY <1>2, <1>3, RaiseIs

LEMMA RecordIs ==
  ASSUME Structure, pc = "append", NEW prev \in Prevs
  PROVE  LET r == Record(prev)
         IN /\ r \in RecType /\ r.id = made /\ r.kind = job.kind /\ r.prev = prev
            /\ r.over = IF job.kind = "compile" THEN 0 ELSE job.seq
            /\ DOMAIN r.before = DOMAIN r.wrote
            /\ job.kind = "compile" =>
                 /\ DOMAIN r.wrote = job.paths
                 /\ \A v \in job.paths : r.wrote[v] = tree[v] /\ r.before[v] = job.old[v]
<1>1. /\ job \in JobType /\ tree \in [Views -> Content] /\ made \in Nat
      /\ job.id = made /\ job.kind \in Kinds \ {"annotation"}
      /\ job.kind = "compile" => job.old \in [Views -> Content]
  BY KindsAre DEF Structure, Typed, JobFits
<1> DEFINE before == IF job.kind = "compile" THEN [v \in job.paths |-> job.old[v]] ELSE << >>
           wrote == IF job.kind = "compile" THEN [v \in job.paths |-> tree[v]] ELSE << >>
<1>2. /\ before \in Pages /\ wrote \in Pages /\ DOMAIN before = DOMAIN wrote
      /\ job.kind = "compile" =>
           /\ DOMAIN wrote = job.paths
           /\ \A v \in job.paths : wrote[v] = tree[v] /\ before[v] = job.old[v]
  <2>1. CASE job.kind = "compile"
    <3>1. job.paths \in SUBSET Views
      BY <1>1 DEF JobType
    <3>2. before \in [job.paths -> Content] /\ wrote \in [job.paths -> Content]
      BY <1>1, <2>1, <3>1
    <3>3. QED
      BY <2>1, <3>1, <3>2, PageOf
  <2>2. CASE job.kind # "compile"
    BY <2>2 DEF Pages
  <2>3. QED
    BY <2>1, <2>2
<1> DEFINE r == [id |-> job.id, kind |-> job.kind,
                 over |-> IF job.kind = "compile" THEN 0 ELSE job.seq,
                 prev |-> prev, annotated |-> FALSE, stamped |-> job.stamped,
                 complete |-> job.complete, before |-> before, wrote |-> wrote]
<1>3. Record(prev) = r
  BY DEF Record
<1> HIDE DEF before, wrote
<1>4. r \in RecType
  BY <1>1, <1>2 DEF RecType, JobType
<1>5. QED
  BY <1>1, <1>2, <1>3, <1>4

LEMMA HashIs ==
  ASSUME NEW r \in RecType
  PROVE  Hash(r) \in Prevs
  BY DEF Hash, RecType, Prevs

\* An append that is not refused: the next seq, and the newest number.
LEMMA AppendIs ==
  ASSUME Structure, AppendRecord, Chained(jtree)
  PROVE  \E s \in Nat \ {0}, r \in RecType :
           /\ s = Size(jtree) + 1 /\ s \notin DOMAIN jtree /\ DOMAIN jtree = 1..Size(jtree)
           /\ jtree' = With(jtree, s, r) /\ s <= r.id
           /\ r.id = made /\ r.kind = job.kind
           /\ r.prev = IF s = 1 THEN << >> ELSE Hash(jtree[s - 1])
           /\ r.over = IF job.kind = "compile" THEN 0 ELSE job.seq
           /\ DOMAIN r.before = DOMAIN r.wrote
           /\ job.kind = "compile" =>
                /\ DOMAIN r.wrote = job.paths
                /\ \A v \in job.paths : r.wrote[v] = tree[v] /\ r.before[v] = job.old[v]
           /\ pc = "append" /\ pc' = "commit" /\ job' \in JobType
           /\ job'.at = s /\ job'.seq = IF job.kind = "compile" THEN s ELSE job.seq
           /\ job'.kind = job.kind /\ job'.verb = job.verb /\ job'.id = job.id
           /\ job'.paths = job.paths /\ job'.todo = job.todo /\ job'.old = job.old
           /\ job'.stamped = job.stamped /\ job'.complete = job.complete
<1> DEFINE s == Size(jtree) + 1
           prev == IF s = 1 THEN << >> ELSE Hash(jtree[s - 1])
           r == Record(prev)
<1>1. JournalType(jtree, made) /\ made \in Nat /\ job \in JobType
      /\ made > 0 /\ pc = "append" /\ \A q \in DOMAIN jtree : jtree[q].id < made
  BY KindsAre DEF Structure, Typed, JobFits, AppendRecord
<1>2. Size(jtree) \in Nat /\ DOMAIN jtree = 1..Size(jtree)
  BY <1>1, SeqsOf
<1>3. s \in Nat \ {0} /\ s \notin DOMAIN jtree
  BY <1>2
<1>4. s # 1 => s - 1 \in DOMAIN jtree
  BY <1>2
<1>5. prev \in Prevs
  BY <1>1, <1>4, HashIs DEF Prevs, JournalType
<1>6. s <= made
  <2>1. CASE s = 1
    BY <1>1, <2>1
  <2>2. CASE s # 1
    <3>1. s - 1 <= jtree[s - 1].id /\ jtree[s - 1].id < made /\ jtree[s - 1].id \in Nat
      BY <1>1, <1>4, <2>2 DEF JournalType, RecType
    <3>2. QED
      BY <1>1, <1>3, <3>1
  <2>3. QED
    BY <2>1, <2>2
<1>7. /\ jtree' = With(jtree, s, r) /\ pc' = "commit"
      /\ job' = [job EXCEPT !.at = s, !.seq = IF job.kind = "compile" THEN s ELSE @]
  BY DEF AppendRecord, Goto
<1>8. /\ r \in RecType /\ r.id = made /\ r.kind = job.kind /\ r.prev = prev
      /\ r.over = IF job.kind = "compile" THEN 0 ELSE job.seq
      /\ DOMAIN r.before = DOMAIN r.wrote
      /\ job.kind = "compile" =>
           /\ DOMAIN r.wrote = job.paths
           /\ \A v \in job.paths : r.wrote[v] = tree[v] /\ r.before[v] = job.old[v]
  BY <1>1, <1>5, RecordIs
<1> HIDE DEF r
<1>9. /\ job' \in JobType
      /\ job'.at = s /\ job'.seq = IF job.kind = "compile" THEN s ELSE job.seq
      /\ job'.kind = job.kind /\ job'.verb = job.verb /\ job'.id = job.id
      /\ job'.paths = job.paths /\ job'.todo = job.todo /\ job'.old = job.old
      /\ job'.stamped = job.stamped /\ job'.complete = job.complete
  BY <1>1, <1>3, <1>7 DEF JobType
<1>10. s = Size(jtree) + 1 /\ s <= r.id
  BY <1>6, <1>8
<1>11. r.prev = IF s = 1 THEN << >> ELSE Hash(jtree[s - 1])
  BY <1>8
<1> HIDE DEF s
<1>12. QED
  BY <1>1, <1>2, <1>3, <1>7, <1>8, <1>9, <1>10, <1>11

LEMMA AppendStructure ==
  ASSUME Structure, AppendRecord
  PROVE  Structure'
<1>1. CASE ~Chained(jtree)
  BY <1>1, RaiseStructure DEF AppendRecord
<1>2. CASE Chained(jtree)
  <2>1. PICK s \in Nat \ {0}, r \in RecType :
           /\ jtree' = With(jtree, s, r) /\ s <= r.id /\ s \notin DOMAIN jtree
           /\ r.id = made /\ r.kind = job.kind
           /\ DOMAIN r.before = DOMAIN r.wrote
           /\ pc = "append" /\ pc' = "commit" /\ job' \in JobType
           /\ job'.at = s /\ job'.seq = IF job.kind = "compile" THEN s ELSE job.seq
           /\ job'.kind = job.kind /\ job'.verb = job.verb
           /\ job'.old = job.old
    BY <1>2, AppendIs
  <2>2. UNCHANGED <<tree, head, jhead, made, crashes>> /\ made \in Nat
    BY KindsAre DEF AppendRecord, Structure, Typed
  <2>3. JournalType(jtree, made) /\ made <= made
    BY <2>2 DEF Structure, Typed
  <2>4. JournalType(jtree', made')
    BY <2>1, <2>2, <2>3, WithTyped
  <2>5. Typed'
    BY <2>1, <2>2, <2>4 DEF Structure, Typed
  <2>6. job'.at \in DOMAIN jtree' /\ jtree'[job'.at].kind = job.kind
    <3>1. s \in DOMAIN jtree' /\ jtree'[s] = r
      BY <2>1 DEF With
    <3>2. QED
      BY <2>1, <3>1
  <2>7. job.verb = "run" /\ job.kind = "verify" => job.seq \in Runs(jtree') /\ job.seq # s
    <3>1. SUFFICES ASSUME job.verb = "run", job.kind = "verify"
                   PROVE  job.seq \in Runs(jtree') /\ job.seq # s
      OBVIOUS
    <3>2. job.seq \in Runs(jtree) /\ s \notin DOMAIN jtree
      BY <2>1, <3>1 DEF Structure, JobFits
    <3>3. \A q \in DOMAIN jtree : q \in DOMAIN jtree' /\ (q # s => jtree'[q] = jtree[q])
      BY <2>1 DEF With
    <3>4. QED
      BY <3>2, <3>3 DEF Runs
  <2>8. JobFits'
    BY <2>1, <2>2, <2>6, <2>7 DEF Structure, JobFits
  <2>9. QED
    BY <2>5, <2>8 DEF Structure
<1>3. QED
  BY <1>1, <1>2

LEMMA RunsAre ==
  ASSUME NEW bound \in Nat, NEW j, JournalType(j, bound), NEW s \in Runs(j)
  PROVE  /\ s \in DOMAIN j /\ s \in Nat \ {0} /\ j[s] \in RecType /\ j[s].id \in Nat
         /\ DOMAIN j[s].wrote \subseteq Views /\ DOMAIN j[s].before = DOMAIN j[s].wrote
         /\ \A v \in DOMAIN j[s].wrote : j[s].wrote[v] \in Content /\ j[s].before[v] \in Content
<1>1. /\ s \in DOMAIN j /\ s \in Nat \ {0} /\ j[s] \in RecType
      /\ DOMAIN j[s].before = DOMAIN j[s].wrote
  BY DEF Runs, JournalType
<1>2. j[s].id \in Nat /\ j[s].wrote \in Pages /\ j[s].before \in Pages
  BY <1>1 DEF RecType
<1>3. DOMAIN j[s].wrote \subseteq Views
      /\ \A v \in DOMAIN j[s].wrote : j[s].wrote[v] \in Content
  BY <1>2, PagesAre
<1>4. \A v \in DOMAIN j[s].before : j[s].before[v] \in Content
  BY <1>2, PagesAre
<1>5. QED
  BY <1>1, <1>2, <1>3, <1>4

\* The legs of a verification.
LEMMA LegsAre ==
  ASSUME Structure, NEW s \in Runs(jtree)
  PROVE  /\ Legs(s) \in JobType /\ Legs(s).verb = job.verb /\ Legs(s).kind = "verify"
         /\ Legs(s).seq = s /\ Legs(s).paths = {} /\ Legs(s).todo \subseteq DOMAIN jtree[s].wrote
         /\ Legs(s).complete = TRUE /\ Legs(s).stamped = {}
<1>1. JournalType(jtree, made) /\ made \in Nat /\ job.verb \in {"none", "run", "reverify", "revert"}
  BY KindsAre DEF Structure, Typed, JobType
<1>2. s \in Nat /\ DOMAIN jtree[s].wrote \subseteq Views
  BY <1>1, RunsAre
<1> DEFINE todo == Absorbed(s) \ Confirmed(s)
<1>3. todo \subseteq DOMAIN jtree[s].wrote
  BY DEF Absorbed
<1>4. Legs(s) = [Idle EXCEPT !.verb = job.verb, !.kind = "verify", !.seq = s, !.todo = todo]
  BY DEF Legs
<1>5. Idle.complete = TRUE /\ Idle.stamped = {}
  BY DEF Idle
<1> HIDE DEF todo
<1>6. QED
  BY <1>1, <1>2, <1>3, <1>4, <1>5, IdleTyped, KindsAre DEF JobType

\* Where a commit leaves a session.
LEMMA AfterCommitIs ==
  ASSUME Structure, pc = "commit", AfterCommit
  PROVE  /\ job' \in JobType
         /\ \/ /\ job.kind = "compile" /\ pc' = "leg" /\ job' = Legs(job.seq)
               /\ job.seq = job.at /\ job.seq \in Runs(jtree)
            \/ /\ job.kind = "verify" /\ pc' = "annotate" /\ job'.kind = "annotation"
               /\ job'.verb = job.verb /\ job'.seq = job.seq /\ job'.at = job.at
               /\ job'.paths = job.paths /\ job'.todo = job.todo /\ job'.id = job.id
            \/ /\ job.kind \in {"verify", "annotation"} /\ job.verb = "run"
               /\ pc' = "undo" /\ job'.verb = "run" /\ job'.kind = "none" /\ job'.seq = job.seq
               /\ job'.paths = {} /\ job'.todo = {}
            \/ Stop
<1>1. job \in JobType /\ job.seq \in Nat
  BY DEF Structure, Typed, JobType
<1>2. CASE job.kind = "compile"
  <2>1. pc' = "leg" /\ job' = Legs(job.seq)
    BY <1>2 DEF AfterCommit, Goto
  <2>2. job.seq = job.at /\ job.seq \in Runs(jtree)
    BY <1>2 DEF Structure, JobFits, Runs
  <2>3. QED
    BY <1>2, <2>1, <2>2, LegsAre
<1>3. CASE job.kind # "compile" /\ job.kind = "verify" /\ job.stamped # {}
  <2>1. pc' = "annotate" /\ job' = [job EXCEPT !.kind = "annotation"]
    BY <1>3 DEF AfterCommit, Goto
  <2>2. QED
    BY <1>1, <1>3, <2>1, KindsAre DEF JobType
<1>4. CASE /\ job.kind # "compile" /\ ~(job.kind = "verify" /\ job.stamped # {})
           /\ job.kind \in {"verify", "annotation"} /\ job.verb = "run" /\ ~job.complete
  <2>1. pc' = "undo" /\ job' = [Idle EXCEPT !.verb = "run", !.seq = job.seq]
    BY <1>4 DEF AfterCommit, Goto
  <2>2. QED
    BY <1>1, <1>4, <2>1, IdleTyped DEF JobType
<1>5. CASE /\ job.kind # "compile" /\ ~(job.kind = "verify" /\ job.stamped # {})
           /\ ~(job.kind \in {"verify", "annotation"} /\ job.verb = "run" /\ ~job.complete)
  <2>1. Stop
    BY <1>5 DEF AfterCommit
  <2>2. QED
    BY <2>1, StopFits
<1>6. QED
  BY <1>2, <1>3, <1>4, <1>5

LEMMA CommitStructure ==
  ASSUME Structure, Commit
  PROVE  Structure'
<1>1. /\ pc = "commit" /\ CommitViews /\ jhead' = With(jhead, job.at, jtree[job.at])
      /\ AfterCommit /\ UNCHANGED <<tree, jtree, made, crashes>>
  BY DEF Commit
<1>2. /\ JournalType(jtree, made) /\ JournalType(jhead, made) /\ made \in Nat
      /\ job.at \in DOMAIN jtree
  BY <1>1, KindsAre DEF Structure, Typed, JobFits
<1>3. /\ jtree[job.at] \in RecType /\ job.at \in Nat \ {0}
      /\ job.at <= jtree[job.at].id /\ jtree[job.at].id <= made
      /\ DOMAIN jtree[job.at].before = DOMAIN jtree[job.at].wrote
  BY <1>2 DEF JournalType
<1>4. JournalType(jhead', made')
  BY <1>1, <1>2, <1>3, WithTyped
<1>5. head' \in [Views -> Content]
  BY <1>1 DEF CommitViews, Structure, Typed
<1>6. job' \in JobType
  BY <1>1, AfterCommitIs
<1>7. pc' \in {"idle", "leg", "annotate", "undo"}
  BY <1>1, AfterCommitIs, StopFits
<1>8. Typed'
  BY <1>1, <1>4, <1>5, <1>6, <1>7 DEF Structure, Typed
<1>9. /\ DOMAIN jhead' = DOMAIN jhead \cup {job.at} /\ jhead'[job.at] = jtree[job.at]
      /\ \A q \in DOMAIN jhead : q # job.at => jhead'[q] = jhead[q]
  BY <1>1 DEF With
<1>10. JobFits'
  <2>1. CASE job.kind = "compile" /\ pc' = "leg" /\ job' = Legs(job.seq)
             /\ job.seq = job.at /\ job.seq \in Runs(jtree)
    <3>1. job'.kind = "verify" /\ job'.seq = job.seq
      BY <2>1, LegsAre
    <3>2. job.seq \in Runs(jhead') /\ job.seq \in DOMAIN jtree
      BY <1>9, <2>1 DEF Runs
    <3>3. QED
      BY <1>1, <2>1, <3>1, <3>2 DEF JobFits
  <2>2. ASSUME job.kind \in {"verify", "annotation"}, job.verb = "run"
        PROVE  job.seq \in Runs(jhead') /\ job.seq \in Runs(jtree) /\ job.at # job.seq
    <3>1. job.seq \in Runs(jhead) /\ job.seq \in Runs(jtree) /\ job.at # job.seq
      BY <1>1, <2>2 DEF Structure, JobFits
    <3>2. QED
      BY <1>9, <3>1 DEF Runs
  <2>3. CASE /\ job.kind = "verify" /\ pc' = "annotate" /\ job'.kind = "annotation"
             /\ job'.verb = job.verb /\ job'.seq = job.seq /\ job'.at = job.at
    BY <1>1, <1>2, <2>2, <2>3 DEF JobFits
  <2>4. CASE /\ job.kind \in {"verify", "annotation"} /\ job.verb = "run"
             /\ pc' = "undo" /\ job'.verb = "run" /\ job'.kind = "none" /\ job'.seq = job.seq
    BY <2>2, <2>4 DEF JobFits
  <2>5. QED
    BY <1>1, <2>1, <2>3, <2>4, AfterCommitIs, StopFits
<1>11. QED
  BY <1>8, <1>10 DEF Structure

\* One leg: the view is stamped, or it is not.
LEMMA LegIs ==
  ASSUME Structure, NEW v \in Views, Leg(v)
  PROVE  /\ pc = "leg" /\ pc' = "leg" /\ job' \in JobType /\ v \in job.todo
         /\ job'.verb = job.verb /\ job'.kind = "verify" /\ job'.seq = job.seq
         /\ job'.todo = job.todo \ {v} /\ job'.paths \subseteq job.paths \cup {v}
         /\ tree' \in [Views -> Content] /\ \A w \in Views : tree'[w].body = tree[w].body
         /\ UNCHANGED <<head, jtree, jhead, made, crashes>>
<1>1. job \in JobType /\ tree \in [Views -> Content]
  BY DEF Structure, Typed
<1>2. /\ pc = "leg" /\ v \in job.todo /\ UNCHANGED <<head, jtree, jhead, made, crashes>>
      /\ job.kind = "verify" /\ job.seq \in DOMAIN jtree
  BY DEF Leg, Structure, JobFits
<1>3. jtree[job.seq].id \in Nat
  BY <1>2 DEF Structure, Typed, JournalType, RecType
<1>4. CASE /\ tree' = [tree EXCEPT ![v].stamp = jtree[job.seq].id]
           /\ Goto("leg", [job EXCEPT !.todo = @ \ {v}, !.stamped = @ \cup {v}, !.paths = @ \cup {v}])
  <2>1. tree' \in [Views -> Content] /\ \A w \in Views : tree'[w].body = tree[w].body
    BY <1>1, <1>3, <1>4, OneStamp
  <2>2. /\ pc' = "leg" /\ job' \in JobType
        /\ job'.verb = job.verb /\ job'.kind = job.kind /\ job'.seq = job.seq
        /\ job'.todo = job.todo \ {v} /\ job'.paths \subseteq job.paths \cup {v}
    BY <1>1, <1>4 DEF Goto, JobType
  <2>3. QED
    BY <1>2, <2>1, <2>2
<1>5. ASSUME NEW completed \in BOOLEAN, UNCHANGED tree,
             Goto("leg", [job EXCEPT !.todo = @ \ {v}, !.complete = @ /\ completed])
      PROVE  /\ pc' = "leg" /\ job' \in JobType
             /\ job'.verb = job.verb /\ job'.kind = job.kind /\ job'.seq = job.seq
             /\ job'.todo = job.todo \ {v} /\ job'.paths \subseteq job.paths \cup {v}
  BY <1>1, <1>5 DEF Goto, JobType
<1>6. QED
  BY <1>1, <1>2, <1>4, <1>5 DEF Leg

LEMMA LegStructure ==
  ASSUME Structure, NEW v \in Views, Leg(v)
  PROVE  Structure'
<1>1. /\ pc = "leg" /\ pc' = "leg" /\ job' \in JobType
      /\ job'.verb = job.verb /\ job'.kind = "verify" /\ job'.seq = job.seq
      /\ tree' \in [Views -> Content]
      /\ UNCHANGED <<head, jtree, jhead, made, crashes>>
  BY LegIs
<1>2. Typed'
  BY <1>1 DEF Structure, Typed
<1>3. job.kind = "verify"
  BY <1>1 DEF Structure, JobFits
<1>4. JobFits'
  BY <1>1, <1>3 DEF Structure, JobFits
<1>5. QED
  BY <1>2, <1>4 DEF Structure

LEMMA EndOfLegsIs ==
  ASSUME Structure, EndOfLegs
  PROVE  /\ pc = "leg" /\ pc' = "append" /\ job' \in JobType /\ job.todo = {} /\ job'.id = made'
         /\ job'.verb = job.verb /\ job'.kind = "verify" /\ job.kind = "verify"
         /\ job'.seq = job.seq /\ job'.todo = job.todo /\ job'.paths = job.paths
         /\ UNCHANGED <<tree, head, jtree, jhead, crashes>>
<1>1. job \in JobType /\ pc = "leg" /\ job.kind = "verify"
  BY DEF Structure, Typed, JobFits, EndOfLegs
<1>2. pc' = "append" /\ job' = [job EXCEPT !.id = made']
  BY DEF EndOfLegs, Goto
<1>3. made' \in Nat
  BY NewNumber DEF EndOfLegs
<1>4. QED
  BY <1>1, <1>2, <1>3 DEF EndOfLegs, JobType

LEMMA EndOfLegsStructure ==
  ASSUME Structure, EndOfLegs
  PROVE  Structure'
<1>1. /\ pc = "leg" /\ pc' = "append" /\ job' \in JobType /\ job'.id = made'
      /\ job'.verb = job.verb /\ job'.kind = "verify" /\ job.kind = "verify"
      /\ job'.seq = job.seq
      /\ UNCHANGED <<tree, head, jtree, jhead, crashes>>
  BY EndOfLegsIs
<1>2. /\ made' \in 0..MaxRecords /\ made' > 0
      /\ JournalType(jtree, made') /\ JournalType(jhead, made')
      /\ \A q \in DOMAIN jtree : jtree[q].id < made'
  BY NewNumber DEF EndOfLegs
<1>3. Typed'
  BY <1>1, <1>2 DEF Structure, Typed
<1>4. JobFits'
  BY <1>1, <1>2, KindsAre DEF Structure, JobFits
<1>5. QED
  BY <1>3, <1>4 DEF Structure

LEMMA AnnotateIs ==
  ASSUME Structure, Annotate
  PROVE  /\ pc = "annotate" /\ pc' = "commit" /\ job' = job /\ job.kind = "annotation"
         /\ job.at \in DOMAIN jtree /\ DOMAIN jtree' = DOMAIN jtree
         /\ jtree'[job.at] = [jtree[job.at] EXCEPT !.annotated = TRUE]
         /\ jtree'[job.at].kind = jtree[job.at].kind
         /\ \A q \in DOMAIN jtree \ {job.at} : jtree'[q] = jtree[q]
         /\ JournalType(jtree', made)
         /\ UNCHANGED <<tree, head, jhead, made, crashes>>
<1>1. /\ job.at \in DOMAIN jtree /\ job.kind = "annotation"
      /\ JournalType(jtree, made) /\ made \in Nat
  BY KindsAre DEF Structure, Typed, JobFits, Annotate
<1>2. jtree' = [jtree EXCEPT ![job.at].annotated = TRUE]
  BY DEF Annotate
<1>3. JournalType(jtree', made)
  BY <1>1, <1>2, AnnotatedTyped
<1>4. jtree[job.at] \in RecType /\ jtree \in [DOMAIN jtree -> RecType]
  BY <1>1 DEF JournalType
<1>5. /\ DOMAIN jtree' = DOMAIN jtree
      /\ jtree'[job.at] = [jtree[job.at] EXCEPT !.annotated = TRUE]
      /\ \A q \in DOMAIN jtree \ {job.at} : jtree'[q] = jtree[q]
  BY <1>1, <1>2, <1>4
<1>6. jtree'[job.at].kind = jtree[job.at].kind
  BY <1>4, <1>5 DEF RecType
<1>7. QED
  BY <1>1, <1>3, <1>5, <1>6 DEF Annotate, Goto

LEMMA AnnotateStructure ==
  ASSUME Structure, Annotate
  PROVE  Structure'
<1>1. /\ pc = "annotate" /\ pc' = "commit" /\ job' = job /\ job.kind = "annotation"
      /\ job.at \in DOMAIN jtree /\ DOMAIN jtree' = DOMAIN jtree
      /\ jtree'[job.at].kind = jtree[job.at].kind
      /\ \A q \in DOMAIN jtree \ {job.at} : jtree'[q] = jtree[q]
      /\ JournalType(jtree', made)
      /\ UNCHANGED <<tree, head, jhead, made, crashes>>
  BY AnnotateIs
<1>2. Typed'
  BY <1>1 DEF Structure, Typed
<1>3. Runs(jtree') = Runs(jtree)
  BY <1>1 DEF Runs
<1>4. JobFits'
  BY <1>1, <1>3 DEF Structure, JobFits
<1>5. QED
  BY <1>2, <1>4 DEF Structure

LEMMA ReverifyIs ==
  ASSUME Structure, NEW s \in DOMAIN jtree, Reverify(s)
  PROVE  /\ pc' = "leg" /\ job' \in JobType /\ s \in Runs(jtree) /\ ~Terminal(jtree, s)
         /\ job'.verb = "reverify" /\ job'.kind = "verify" /\ job'.seq = s
         /\ job'.paths = {} /\ job'.todo \subseteq DOMAIN jtree[s].wrote
         /\ UNCHANGED <<tree, head, jtree, jhead, made, crashes>>
<1>1. /\ s \in Runs(jtree) /\ ~Terminal(jtree, s) /\ pc' = "leg"
      /\ job' = [Legs(s) EXCEPT !.verb = "reverify"]
      /\ UNCHANGED <<tree, head, jtree, jhead, made, crashes>>
  BY DEF Reverify, Goto
<1>2. /\ Legs(s) \in JobType /\ Legs(s).kind = "verify" /\ Legs(s).seq = s
      /\ Legs(s).paths = {} /\ Legs(s).todo \subseteq DOMAIN jtree[s].wrote
  BY <1>1, LegsAre
<1>3. QED
  BY <1>1, <1>2 DEF JobType

LEMMA ReverifyStructure ==
  ASSUME Structure, NEW s \in DOMAIN jtree, Reverify(s)
  PROVE  Structure'
<1>1. /\ pc' = "leg" /\ job' \in JobType
      /\ job'.verb = "reverify" /\ job'.kind = "verify" /\ job'.seq = s
      /\ UNCHANGED <<tree, head, jtree, jhead, made, crashes>>
  BY ReverifyIs
<1>2. Typed'
  BY <1>1 DEF Structure, Typed
<1>3. JobFits'
  BY <1>1 DEF JobFits
<1>4. QED
  BY <1>2, <1>3 DEF Structure

LEMMA TakeBackIs ==
  ASSUME Structure, NEW s \in Runs(jhead)
  PROVE  /\ TakeBack(s) \in [Views -> Content]
         /\ \A v \in DOMAIN jhead[s].wrote : TakeBack(s)[v].body = jhead[s].before[v].body
<1>1. /\ DOMAIN jhead[s].wrote \subseteq Views
      /\ \A v \in DOMAIN jhead[s].wrote : jhead[s].before[v] \in Content
  BY RunsAre, KindsAre DEF Structure, Typed
<1>2. tree \in [Views -> Content]
  BY DEF Structure, Typed
<1>3. \A v \in DOMAIN jhead[s].wrote :
         /\ [tree[v] EXCEPT !.body = jhead[s].before[v].body] \in Content
         /\ [tree[v] EXCEPT !.body = jhead[s].before[v].body].body = jhead[s].before[v].body
  BY <1>1, <1>2 DEF Content
<1>4. QED
  BY <1>1, <1>2, <1>3 DEF TakeBack

LEMMA GitRevertIs ==
  ASSUME Structure, GitRevert
  PROVE  /\ pc = "undo" /\ pc' = "restore" /\ job.seq \in Runs(jhead) /\ Mergeable(job.seq)
         /\ job' \in JobType /\ job'.verb = job.verb /\ job'.kind = job.kind
         /\ job'.seq = job.seq /\ job'.paths = DOMAIN jhead[job.seq].wrote
         /\ tree' \in [Views -> Content]
         /\ \A v \in DOMAIN jhead[job.seq].wrote : tree'[v].body = jhead[job.seq].before[v].body
         /\ jtree' = Without(jtree, job.seq)
         /\ UNCHANGED <<head, jhead, made, crashes>>
<1>1. /\ pc = "undo" /\ pc' = "restore" /\ Mergeable(job.seq) /\ tree' = TakeBack(job.seq)
      /\ jtree' = Without(jtree, job.seq)
      /\ job' = [job EXCEPT !.paths = DOMAIN jhead[job.seq].wrote]
      /\ UNCHANGED <<head, jhead, made, crashes>>
  BY DEF GitRevert, Goto
<1>2. job \in JobType /\ job.seq \in Runs(jhead)
  BY <1>1 DEF Structure, Typed, JobFits
<1>3. DOMAIN jhead[job.seq].wrote \subseteq Views
  BY <1>2, RunsAre, KindsAre DEF Structure, Typed
<1>4. QED
  BY <1>1, <1>2, <1>3, TakeBackIs DEF JobType

LEMMA GitRevertStructure ==
  ASSUME Structure, GitRevert
  PROVE  Structure'
<1>1. /\ pc = "undo" /\ pc' = "restore" /\ job.seq \in Runs(jhead)
      /\ job' \in JobType /\ job'.verb = job.verb /\ job'.kind = job.kind
      /\ job'.seq = job.seq /\ tree' \in [Views -> Content]
      /\ jtree' = Without(jtree, job.seq)
      /\ UNCHANGED <<head, jhead, made, crashes>>
  BY GitRevertIs
<1>2. JournalType(jtree', made)
  BY <1>1, WithoutTyped, KindsAre DEF Structure, Typed
<1>3. Typed'
  BY <1>1, <1>2 DEF Structure, Typed
<1>4. QED
  BY <1>1, <1>3 DEF Structure, JobFits

LEMMA GitConflictIs ==
  ASSUME Structure, GitConflict
  PROVE  /\ pc = "undo" /\ pc' = "append" /\ job.seq \in Runs(jhead)
         /\ job' \in JobType /\ job'.verb = job.verb /\ job'.kind = "revert-failed"
         /\ job'.seq = job.seq /\ job'.paths = job.paths /\ job'.todo = job.todo
         /\ job'.id = made'
         /\ UNCHANGED <<tree, head, jtree, jhead, crashes>>
<1>1. /\ pc = "undo" /\ pc' = "append"
      /\ job' = [job EXCEPT !.kind = "revert-failed", !.id = made']
      /\ UNCHANGED <<tree, head, jtree, jhead, crashes>>
  BY DEF GitConflict, Goto
<1>2. job \in JobType /\ job.seq \in Runs(jhead)
  BY <1>1 DEF Structure, Typed, JobFits
<1>3. made' \in Nat
  BY NewNumber DEF GitConflict
<1>4. QED
  BY <1>1, <1>2, <1>3, KindsAre DEF JobType

LEMMA GitConflictStructure ==
  ASSUME Structure, GitConflict
  PROVE  Structure'
<1>1. /\ pc = "undo" /\ pc' = "append" /\ job' \in JobType /\ job'.id = made'
      /\ job'.verb = job.verb /\ job'.kind = "revert-failed"
      /\ UNCHANGED <<tree, head, jtree, jhead, crashes>>
  BY GitConflictIs
<1>2. /\ made' \in 0..MaxRecords /\ made' > 0
      /\ JournalType(jtree, made') /\ JournalType(jhead, made')
      /\ \A q \in DOMAIN jtree : jtree[q].id < made'
  BY NewNumber DEF GitConflict
<1>3. Typed'
  BY <1>1, <1>2 DEF Structure, Typed
<1>4. JobFits'
  BY <1>1, <1>2, KindsAre DEF JobFits
<1>5. QED
  BY <1>3, <1>4 DEF Structure

LEMMA RestoreViewIs ==
  ASSUME Structure, NEW v \in Views, RestoreView(v)
  PROVE  /\ pc = "bytes" /\ pc' = IF job.todo = {v} THEN "restore" ELSE "bytes"
         /\ v \in job.todo /\ job.seq \in Runs(jhead) /\ v \in DOMAIN jhead[job.seq].wrote
         /\ job' \in JobType /\ job'.verb = job.verb /\ job'.kind = job.kind
         /\ job'.seq = job.seq /\ job'.paths = job.paths /\ job'.todo = job.todo \ {v}
         /\ tree' \in [Views -> Content] /\ tree'[v] = jhead[job.seq].before[v]
         /\ \A w \in Views \ {v} : tree'[w] = tree[w]
         /\ UNCHANGED <<head, jtree, jhead, made, crashes>>
<1>1. /\ pc = "bytes" /\ v \in job.todo
      /\ tree' = [tree EXCEPT ![v] = jhead[job.seq].before[v]]
      /\ pc' = IF job.todo = {v} THEN "restore" ELSE "bytes"
      /\ job' = [job EXCEPT !.todo = @ \ {v}]
      /\ UNCHANGED <<head, jtree, jhead, made, crashes>>
  BY DEF RestoreView, Goto
<1>2. /\ job \in JobType /\ tree \in [Views -> Content] /\ job.seq \in Runs(jhead)
      /\ job.todo \subseteq DOMAIN jhead[job.seq].wrote
  BY <1>1 DEF Structure, Typed, JobFits
<1>3. v \in DOMAIN jhead[job.seq].wrote /\ jhead[job.seq].before[v] \in Content
  BY <1>1, <1>2, RunsAre, KindsAre DEF Structure, Typed
<1>4. /\ job' \in JobType /\ job'.verb = job.verb /\ job'.kind = job.kind
      /\ job'.seq = job.seq /\ job'.paths = job.paths /\ job'.todo = job.todo \ {v}
  BY <1>1, <1>2 DEF JobType
<1>5. /\ tree' \in [Views -> Content] /\ tree'[v] = jhead[job.seq].before[v]
      /\ \A w \in Views \ {v} : tree'[w] = tree[w]
  BY <1>1, <1>2, <1>3
<1>6. QED
  BY <1>1, <1>2, <1>3, <1>4, <1>5

LEMMA RestoreViewStructure ==
  ASSUME Structure, NEW v \in Views, RestoreView(v)
  PROVE  Structure'
<1>1. /\ pc = "bytes" /\ pc' \in {"restore", "bytes"} /\ job.seq \in Runs(jhead)
      /\ job' \in JobType /\ job'.verb = job.verb /\ job'.kind = job.kind
      /\ job'.seq = job.seq /\ job'.todo = job.todo \ {v}
      /\ tree' \in [Views -> Content]
      /\ UNCHANGED <<head, jtree, jhead, made, crashes>>
  BY RestoreViewIs
<1>2. Typed'
  BY <1>1 DEF Structure, Typed
<1>3. JobFits'
  BY <1>1 DEF Structure, JobFits
<1>4. QED
  BY <1>2, <1>3 DEF Structure

LEMMA RestoreRecordIs ==
  ASSUME Structure, RestoreRecord
  PROVE  /\ pc = "restore" /\ pc' = "append" /\ job.seq \in Runs(jhead) /\ job'.id = made'
         /\ job' \in JobType /\ job'.verb = job.verb /\ job'.kind = "revert"
         /\ job'.seq = job.seq /\ job'.paths = job.paths /\ job'.todo = job.todo
         /\ jtree' = With(jtree, job.seq, jhead[job.seq])
         /\ UNCHANGED <<tree, head, jhead, crashes>>
<1>1. /\ pc = "restore" /\ pc' = "append"
      /\ job' = [job EXCEPT !.kind = "revert", !.id = made']
      /\ jtree' = With(jtree, job.seq, jhead[job.seq])
      /\ UNCHANGED <<tree, head, jhead, crashes>>
  BY DEF RestoreRecord, Goto
<1>2. job \in JobType /\ job.seq \in Runs(jhead)
  BY <1>1 DEF Structure, Typed, JobFits
<1>3. made' \in Nat
  BY NewNumber DEF RestoreRecord
<1>4. QED
  BY <1>1, <1>2, <1>3, KindsAre DEF JobType

LEMMA RestoreRecordStructure ==
  ASSUME Structure, RestoreRecord
  PROVE  Structure'
<1>1. /\ pc = "restore" /\ pc' = "append" /\ job.seq \in Runs(jhead) /\ job'.id = made'
      /\ job' \in JobType /\ job'.kind = "revert"
      /\ jtree' = With(jtree, job.seq, jhead[job.seq])
      /\ UNCHANGED <<tree, head, jhead, crashes>>
  BY RestoreRecordIs
<1>2. /\ made' \in 0..MaxRecords /\ made' > 0 /\ made' \in Nat
      /\ JournalType(jtree, made') /\ JournalType(jhead, made')
      /\ \A q \in DOMAIN jtree : jtree[q].id < made'
      /\ \A q \in DOMAIN jhead : jhead[q].id < made'
  BY NewNumber DEF RestoreRecord
<1>3. /\ job.seq \in Nat \ {0} /\ jhead[job.seq] \in RecType /\ job.seq \in DOMAIN jhead
      /\ job.seq <= jhead[job.seq].id /\ jhead[job.seq].id <= made'
      /\ DOMAIN jhead[job.seq].before = DOMAIN jhead[job.seq].wrote
  BY <1>1, <1>2 DEF Runs, JournalType
<1>4. JournalType(jtree', made')
  BY <1>1, <1>2, <1>3, WithTyped
<1>5. \A q \in DOMAIN jtree' : jtree'[q].id < made'
  BY <1>1, <1>2, <1>3 DEF With
<1>6. Typed'
  BY <1>1, <1>2, <1>4 DEF Structure, Typed
<1>7. JobFits'
  BY <1>1, <1>2, <1>5, KindsAre DEF JobFits
<1>8. QED
  BY <1>6, <1>7 DEF Structure

LEMMA RevertIs ==
  ASSUME Structure, NEW s \in DOMAIN jtree, Revert(s)
  PROVE  /\ Clean /\ s \in Runs(jtree) \ Reverted(jtree) /\ job' \in JobType
         /\ \A v \in DOMAIN jtree[s].wrote : head[v].body = jtree[s].id
         /\ pc' \in {"undo", "bytes"} /\ job'.verb = "revert" /\ job'.kind = "none"
         /\ job'.seq = s /\ job'.paths = DOMAIN jtree[s].wrote /\ job'.todo = DOMAIN jtree[s].wrote
         /\ UNCHANGED <<tree, head, jtree, jhead, made, crashes>>
<1>1. /\ Clean /\ s \in Runs(jtree) \ Reverted(jtree)
      /\ \A v \in DOMAIN jtree[s].wrote : head[v].body = jtree[s].id
      /\ pc' \in {"undo", "bytes"}
      /\ job' = [Idle EXCEPT !.verb = "revert", !.seq = s, !.paths = Absorbed(s),
                             !.todo = Absorbed(s)]
      /\ UNCHANGED <<tree, head, jtree, jhead, made, crashes>>
  BY DEF Revert, Goto, Absorbed
<1>2. s \in Nat /\ Absorbed(s) \subseteq Views
  BY <1>1, RunsAre, KindsAre DEF Structure, Typed, Absorbed
<1>3. /\ job' \in JobType /\ job'.verb = "revert" /\ job'.kind = "none"
      /\ job'.seq = s /\ job'.paths = Absorbed(s) /\ job'.todo = Absorbed(s)
  BY <1>1, <1>2, IdleTyped DEF JobType
<1>4. QED
  BY <1>1, <1>3 DEF Absorbed

LEMMA RevertStructure ==
  ASSUME Structure, NEW s \in DOMAIN jtree, Revert(s)
  PROVE  Structure'
<1>1. /\ Clean /\ s \in Runs(jtree) /\ job' \in JobType
      /\ pc' \in {"undo", "bytes"} /\ job'.verb = "revert" /\ job'.kind = "none"
      /\ job'.seq = s /\ job'.todo = DOMAIN jtree[s].wrote
      /\ UNCHANGED <<tree, head, jtree, jhead, made, crashes>>
  BY RevertIs
<1>2. jtree = jhead
  BY <1>1 DEF Clean
<1>3. Typed'
  BY <1>1 DEF Structure, Typed
<1>4. JobFits'
  BY <1>1, <1>2 DEF JobFits
<1>5. QED
  BY <1>3, <1>4 DEF Structure

LEMMA CrashStructure ==
  ASSUME Structure, Crash
  PROVE  Structure'
<1>1. Stop /\ UNCHANGED <<tree, head, jtree, jhead, made>>
  BY DEF Crash
<1>2. crashes' \in 0..MaxCrashes
  <2>1. crashes \in 0..MaxCrashes /\ MaxCrashes \in Nat
    BY KindsAre DEF Structure, Typed
  <2>2. crashes < MaxCrashes /\ crashes' = crashes + 1
    BY DEF Crash
  <2>3. QED
    BY <2>1, <2>2
<1>3. QED
  BY <1>1, <1>2, StopStructure

\* The operator works between the sessions.
LEMMA OperatorStructure ==
  ASSUME Structure, DiscardLeftovers \/ CommitLeftovers
  PROVE  Structure'
<1>1. /\ tree' \in {tree, head} /\ head' \in {tree, head}
      /\ jtree' \in {jtree, jhead} /\ jhead' \in {jtree, jhead}
      /\ pc = "idle" /\ UNCHANGED <<made, pc, job, crashes>>
  BY DEF DiscardLeftovers, CommitLeftovers
<1>2. Typed'
  BY <1>1 DEF Structure, Typed
<1>3. job.verb = "run" /\ job.kind \in {"verify", "annotation"} => job.seq \in Runs(jhead) /\ job.seq \in Runs(jtree)
  BY DEF Structure, JobFits
<1>4. Runs(jhead)' \in {Runs(jhead), Runs(jtree)} /\ Runs(jtree)' \in {Runs(jhead), Runs(jtree)}
  BY <1>1
<1>5. JobFits'
  BY <1>1, <1>3, <1>4 DEF Structure, JobFits
<1>6. QED
  BY <1>2, <1>5 DEF Structure

LEMMA StructureStep == Structure /\ [Next]_vars => Structure'
<1> SUFFICES ASSUME Structure, [Next]_vars PROVE Structure'
  OBVIOUS
<1>1. ASSUME NEW v \in Views, Validate(v) \/ WriteView(v) \/ Leg(v) \/ RestoreView(v)
      PROVE  Structure'
  BY <1>1, ValidateStructure, WriteViewStructure, LegStructure, RestoreViewStructure
<1>2. RefuseItem => Structure'
  BY StopStructure DEF RefuseItem, Structure, Typed
<1>3. StepFails \/ CommitFails => Structure'
  BY RaiseStructure DEF StepFails, CommitFails
<1>4. ASSUME NEW s \in DOMAIN jtree, Reverify(s) \/ Revert(s) PROVE Structure'
  BY <1>4, ReverifyStructure, RevertStructure
<1>5. CASE UNCHANGED vars
  BY <1>5 DEF vars, Structure, Typed, JobFits
<1>6. QED
  BY <1>1, <1>2, <1>3, <1>4, <1>5, BeginStructure, AppendStructure, CommitStructure,
     EndOfLegsStructure, AnnotateStructure, GitRevertStructure, GitConflictStructure,
     RestoreRecordStructure, CrashStructure, OperatorStructure DEF Next

LEMMA StructureGivesTypes == Structure => TypeOK
<1> SUFFICES ASSUME Structure PROVE TypeOK
  OBVIOUS
<1>1. JournalType(jtree, made) /\ JournalType(jhead, made) /\ made \in 0..MaxRecords
      /\ MaxRecords \in Nat
  BY KindsAre DEF Structure, Typed
<1>2. DOMAIN jtree \subseteq 1..MaxRecords /\ DOMAIN jhead \subseteq 1..MaxRecords
  BY <1>1 DEF JournalType, RecType
<1>3. \A s \in DOMAIN jtree : jtree[s].kind \in Kinds \ {"annotation"} /\ jtree[s].id \in 1..made
  BY <1>1 DEF JournalType, RecType
<1>4. QED
  BY <1>2, <1>3 DEF Structure, Typed, TypeOK

\* The views, both copies of the journal and the session's locals keep their types, for
\* any operator, any commits that fail, and kills between any two steps; no chain grows
\* past the records that were made.
THEOREM TypeCorrect == Spec => []TypeOK
<1>1. Spec => []Structure
  BY InitStructure, StructureStep, PTL DEF Spec
<1>2. QED
  BY <1>1, StructureGivesTypes, PTL

-----------------------------------------------------------------------------
\* One record more at the end of a chained journal.

Grown(j, r, k) ==
  /\ Size(j) \in Nat /\ DOMAIN j = 1..Size(j)
  /\ DOMAIN k = 1..Size(j) + 1 /\ Size(k) = Size(j) + 1
  /\ k[Size(j) + 1] = r /\ \A q \in DOMAIN j : k[q] = j[q]

LEMMA GrownIs ==
  ASSUME NEW bound \in Nat, NEW j, JournalType(j, bound), Chained(j), NEW r,
         NEW k, k = With(j, Size(j) + 1, r)
  PROVE  Grown(j, r, k)
<1>1. Size(j) \in Nat /\ DOMAIN j = 1..Size(j)
  BY SeqsOf
<1>2. DOMAIN k = DOMAIN j \cup {Size(j) + 1} /\ k[Size(j) + 1] = r
      /\ \A q \in DOMAIN j : k[q] = j[q]
  BY <1>1 DEF With
<1>3. DOMAIN k = 1..Size(j) + 1
  <2>1. \A n \in Nat : (1..n) \cup {n + 1} = 1..n + 1
    OBVIOUS
  <2>2. QED
    BY <1>1, <1>2, <2>1
<1>4. Size(k) = Size(j) + 1
  BY <1>1, <1>3, SizeIs
<1>5. QED
  BY <1>1, <1>2, <1>3, <1>4 DEF Grown

LEMMA GrownChain ==
  ASSUME NEW j, NEW r, NEW k, Grown(j, r, k), Chained(j),
         r.prev = IF Size(j) = 0 THEN << >> ELSE Hash(j[Size(j)])
  PROVE  Chained(k)
<1>1. \A s \in DOMAIN j : s # 1 => s - 1 \in DOMAIN j
  BY DEF Grown
<1>2. \A s \in DOMAIN j : k[s].prev = IF s = 1 THEN << >> ELSE Hash(k[s - 1])
  BY <1>1 DEF Grown, Chained
<1>3. k[Size(j) + 1].prev = IF Size(j) + 1 = 1 THEN << >> ELSE Hash(k[Size(j) + 1 - 1])
  <2>1. CASE Size(j) = 0
    BY <2>1 DEF Grown
  <2>2. CASE Size(j) # 0
    <3>1. Size(j) \in DOMAIN j /\ Size(j) + 1 - 1 = Size(j) /\ Size(j) + 1 # 1
      BY <2>2 DEF Grown
    <3>2. QED
      BY <2>2, <3>1 DEF Grown
  <2>3. QED
    BY <2>1, <2>2
<1>4. \A s \in DOMAIN k : s \in DOMAIN j \/ s = Size(j) + 1
  BY DEF Grown
<1>5. QED
  BY <1>2, <1>3, <1>4 DEF Chained, Grown

LEMMA GrownSets ==
  ASSUME NEW j, NEW r, NEW k, Grown(j, r, k), Chained(j)
  PROVE  /\ Runs(k) = Runs(j) \cup (IF r.kind = "compile" THEN {Size(j) + 1} ELSE {})
         /\ Reverted(k) = Reverted(j) \cup (IF r.kind = "revert" THEN {r.over} ELSE {})
         /\ \A s : Terminal(j, s) => Terminal(k, s)
         /\ Runs(j) \subseteq 1..Size(j) /\ Size(j) + 1 \notin DOMAIN j
<1>1. Size(j) \in Nat /\ DOMAIN k = DOMAIN j \cup {Size(j) + 1} /\ Size(j) + 1 \notin DOMAIN j
      /\ k[Size(j) + 1] = r /\ \A q \in DOMAIN j : k[q] = j[q]
  BY DEF Grown
<1>2. Runs(k) = Runs(j) \cup (IF r.kind = "compile" THEN {Size(j) + 1} ELSE {})
  BY <1>1 DEF Runs
<1>3. {q \in DOMAIN k : k[q].kind = "revert"}
        = {q \in DOMAIN j : j[q].kind = "revert"} \cup (IF r.kind = "revert" THEN {Size(j) + 1} ELSE {})
  BY <1>1
<1>4. Reverted(k) = Reverted(j) \cup (IF r.kind = "revert" THEN {r.over} ELSE {})
  BY <1>1, <1>3 DEF Reverted
<1>5. ASSUME NEW s, Terminal(j, s) PROVE Terminal(k, s)
  <2>1. CASE s \in Reverted(j)
    BY <1>4, <2>1 DEF Terminal
  <2>2. CASE \E q \in Covering(j, s) : j[q].complete
    <3>1. PICK q \in Covering(j, s) : j[q].complete
      BY <2>2
    <3>2. q \in Covering(k, s) /\ k[q].complete
      BY <1>1, <3>1 DEF Covering
    <3>3. QED
      BY <3>2 DEF Terminal
  <2>3. QED
    BY <1>5, <2>1, <2>2 DEF Terminal
<1>6. Runs(j) \subseteq 1..Size(j)
  BY DEF Runs, Grown
<1>7. QED
  BY <1>1, <1>2, <1>4, <1>5, <1>6

\* A record's number is above all others, and it speaks of a run on record.
LEMMA GrownOrder ==
  ASSUME NEW j, NEW r, NEW k, Grown(j, r, k), Chained(j), Growing(j), OverFits(j),
         \A q \in DOMAIN j : j[q].id < r.id,
         r.kind # "compile" => r.over \in Runs(j)
  PROVE  Growing(k) /\ OverFits(k)
<1>1. /\ Size(j) \in Nat /\ DOMAIN j = 1..Size(j) /\ DOMAIN k = 1..Size(j) + 1
      /\ k[Size(j) + 1] = r /\ \A q \in DOMAIN j : k[q] = j[q]
  BY DEF Grown
<1>2. Growing(k)
  BY <1>1 DEF Growing
<1>3. Runs(j) \subseteq Runs(k) /\ Runs(j) \subseteq 1..Size(j)
  BY GrownSets
<1>4. ASSUME NEW s \in DOMAIN k, k[s].kind # "compile"
      PROVE  k[s].over \in Runs(k) /\ k[s].over < s
  <2>1. CASE s \in DOMAIN j
    BY <1>1, <1>3, <1>4, <2>1 DEF OverFits
  <2>2. CASE s = Size(j) + 1
    BY <1>1, <1>3, <1>4, <2>2
  <2>3. QED
    BY <1>1, <2>1, <2>2
<1>5. QED
  BY <1>2, <1>4 DEF OverFits

\* Only a new run opens, and it is the newest.
LEMMA GrownOpen ==
  ASSUME NEW j, NEW r, NEW k, Grown(j, r, k), Chained(j), OnlyNewestOpen(j), HasNewest(j),
         r.kind = "compile" => AllClosed(j)
  PROVE  OnlyNewestOpen(k) /\ HasNewest(k)
<1>1. /\ Runs(k) = Runs(j) \cup (IF r.kind = "compile" THEN {Size(j) + 1} ELSE {})
      /\ \A s : Terminal(j, s) => Terminal(k, s)
      /\ Runs(j) \subseteq 1..Size(j) /\ Size(j) \in Nat
  BY GrownSets DEF Grown
<1>2. CASE r.kind = "compile"
  <2>1. \A s \in Runs(k) : s <= Size(j) + 1
    BY <1>1, <1>2
  <2>2. HasNewest(k)
    BY <1>1, <1>2, <2>1 DEF HasNewest
  <2>3. ASSUME NEW s \in Runs(k), NEW q \in Runs(k), s < q PROVE Terminal(k, s)
    <3>1. s \in Runs(j)
      BY <1>1, <1>2, <2>3
    <3>2. QED
      BY <1>1, <1>2, <3>1 DEF AllClosed
  <2>4. QED
    BY <2>2, <2>3 DEF OnlyNewestOpen
<1>3. CASE r.kind # "compile"
  <2>1. Runs(k) = Runs(j)
    BY <1>1, <1>3
  <2>2. QED
    BY <1>1, <2>1 DEF OnlyNewestOpen, HasNewest
<1>4. QED
  BY <1>2, <1>3

\* What lies on a view, when the same runs stand below.
LEMMA OnTopSame ==
  ASSUME NEW j, NEW k, NEW v, NEW s, NEW t, NEW id, OnTop(j, v, s, id),
         Below(k, v, t) = Below(j, v, s), \A w \in Below(j, v, s) : k[w].id = j[w].id
  PROVE  OnTop(k, v, t, id)
  BY DEF OnTop

\* The runs that stand on a view, as one record more leaves them.
LEMMA GrownStanding ==
  ASSUME NEW j, NEW r, NEW k, Grown(j, r, k), Chained(j), OverFits(j), NEW v,
         r.kind # "compile" => r.over \in Runs(j)
  PROVE  /\ Standing(j, v) \subseteq 1..Size(j)
         /\ Standing(k, v) =
              (Standing(j, v) \ (IF r.kind = "revert" THEN {r.over} ELSE {}))
                \cup (IF r.kind = "compile" /\ v \in DOMAIN r.wrote THEN {Size(j) + 1} ELSE {})
         /\ \A s \in Standing(j, v) : k[s] = j[s]
<1>1. /\ Runs(k) = Runs(j) \cup (IF r.kind = "compile" THEN {Size(j) + 1} ELSE {})
      /\ Reverted(k) = Reverted(j) \cup (IF r.kind = "revert" THEN {r.over} ELSE {})
      /\ Runs(j) \subseteq 1..Size(j) /\ Size(j) + 1 \notin DOMAIN j
  BY GrownSets
<1>2. /\ k[Size(j) + 1] = r /\ \A q \in DOMAIN j : k[q] = j[q]
      /\ DOMAIN j = 1..Size(j) /\ Size(j) \in Nat
  BY DEF Grown
<1>3. Reverted(j) \subseteq 1..Size(j)
  BY <1>1 DEF Reverted, OverFits
<1>4. Size(j) + 1 \notin Reverted(j) /\ Size(j) + 1 \notin Runs(j)
  BY <1>1, <1>2, <1>3
<1>5. Standing(j, v) \subseteq 1..Size(j) /\ \A s \in Standing(j, v) : k[s] = j[s]
  BY <1>1, <1>2 DEF Standing
<1>6. CASE r.kind = "compile"
  BY <1>1, <1>2, <1>4, <1>5, <1>6 DEF Standing
<1>7. CASE r.kind # "compile"
  BY <1>1, <1>2, <1>4, <1>5, <1>7 DEF Standing
<1>8. QED
  BY <1>5, <1>6, <1>7

\* A run puts its text on top of what it found.
LEMMA StackRun ==
  ASSUME NEW j, NEW r, NEW k, Grown(j, r, k), Chained(j), OverFits(j), r.kind = "compile",
         NEW h, NEW g, Stacked(j, h),
         \A v \in DOMAIN r.wrote : r.before[v].body = h[v].body,
         \A v \in Views : g[v].body = IF v \in DOMAIN r.wrote THEN r.id ELSE h[v].body
  PROVE  Stacked(k, g)
<1>1. /\ Size(j) \in Nat /\ Size(k) = Size(j) + 1 /\ k[Size(j) + 1] = r
  BY DEF Grown
<1> SUFFICES ASSUME NEW v \in Views
             PROVE  /\ OnTop(k, v, Size(k) + 1, g[v].body)
                    /\ \A s \in Standing(k, v) : OnTop(k, v, s, k[s].before[v].body)
  BY DEF Stacked
<1>2. /\ Standing(j, v) \subseteq 1..Size(j)
      /\ Standing(k, v) = Standing(j, v) \cup (IF v \in DOMAIN r.wrote THEN {Size(j) + 1} ELSE {})
      /\ \A s \in Standing(j, v) : k[s] = j[s]
  BY GrownStanding
<1>3. /\ OnTop(j, v, Size(j) + 1, h[v].body)
      /\ \A s \in Standing(j, v) : OnTop(j, v, s, j[s].before[v].body)
  BY DEF Stacked
<1>4. \A s \in 1..Size(j) + 1 : Below(k, v, s) = Below(j, v, s)
  BY <1>1, <1>2 DEF Below
<1>5. ASSUME NEW s \in 1..Size(j) + 1, NEW id, OnTop(j, v, s, id) PROVE OnTop(k, v, s, id)
  <2>1. Below(k, v, s) = Below(j, v, s) /\ \A w \in Below(j, v, s) : k[w].id = j[w].id
    BY <1>2, <1>4 DEF Below
  <2>2. QED
    BY <1>5, <2>1, OnTopSame
<1>6. Size(j) + 1 \in 1..Size(j) + 1 /\ 1..Size(j) \subseteq 1..Size(j) + 1
  BY <1>1
<1>7. \A s \in Standing(j, v) : OnTop(k, v, s, k[s].before[v].body)
  BY <1>2, <1>3, <1>5, <1>6
<1>8. OnTop(k, v, Size(j) + 1, h[v].body)
  BY <1>3, <1>5, <1>6
<1>9. CASE v \in DOMAIN r.wrote
  <2>1. Size(j) + 1 \in Below(k, v, Size(k) + 1)
    BY <1>1, <1>2, <1>9 DEF Below
  <2>2. \A x \in Below(k, v, Size(k) + 1) : x <= Size(j) + 1
    BY <1>1, <1>2, <1>9 DEF Below
  <2>3. g[v].body = k[Size(j) + 1].id
    BY <1>1, <1>9
  <2>4. OnTop(k, v, Size(k) + 1, g[v].body)
    BY <2>1, <2>2, <2>3 DEF OnTop
  <2>5. r.before[v].body = h[v].body
    BY <1>9
  <2>6. QED
    BY <1>1, <1>2, <1>7, <1>8, <1>9, <2>4, <2>5
<1>10. CASE v \notin DOMAIN r.wrote
  <2>1. Below(k, v, Size(k) + 1) = Below(j, v, Size(j) + 1)
    BY <1>1, <1>2, <1>10 DEF Below
  <2>2. \A w \in Below(j, v, Size(j) + 1) : k[w].id = j[w].id
    BY <1>2 DEF Below
  <2>3. OnTop(k, v, Size(k) + 1, h[v].body)
    BY <1>3, <2>1, <2>2, OnTopSame
  <2>4. QED
    BY <1>2, <1>7, <1>10, <2>3
<1>11. QED
  BY <1>9, <1>10

\* A verification or a failed revert leaves every text where it is.
LEMMA StackNote ==
  ASSUME NEW j, NEW r, NEW k, Grown(j, r, k), Chained(j), OverFits(j),
         r.kind \notin {"compile", "revert"}, r.over \in Runs(j),
         NEW h, NEW g, Stacked(j, h), \A v \in Views : g[v].body = h[v].body
  PROVE  Stacked(k, g)
<1>1. /\ Size(j) \in Nat /\ Size(k) = Size(j) + 1
  BY DEF Grown
<1> SUFFICES ASSUME NEW v \in Views
             PROVE  /\ OnTop(k, v, Size(k) + 1, g[v].body)
                    /\ \A s \in Standing(k, v) : OnTop(k, v, s, k[s].before[v].body)
  BY DEF Stacked
<1>2. /\ Standing(j, v) \subseteq 1..Size(j) /\ Standing(k, v) = Standing(j, v)
      /\ \A s \in Standing(j, v) : k[s] = j[s]
  BY GrownStanding
<1>3. /\ OnTop(j, v, Size(j) + 1, h[v].body)
      /\ \A s \in Standing(j, v) : OnTop(j, v, s, j[s].before[v].body)
  BY DEF Stacked
<1>4. \A s : Below(k, v, s) = Below(j, v, s) /\ \A w \in Below(j, v, s) : k[w].id = j[w].id
  BY <1>2 DEF Below
<1>5. Below(k, v, Size(k) + 1) = Below(j, v, Size(j) + 1)
  BY <1>1, <1>2 DEF Below
<1>6. OnTop(k, v, Size(k) + 1, g[v].body)
  BY <1>3, <1>4, <1>5, OnTopSame
<1>7. \A s \in Standing(k, v) : OnTop(k, v, s, k[s].before[v].body)
  BY <1>2, <1>3, <1>4, OnTopSame
<1>8. QED
  BY <1>6, <1>7

\* A run whose text lies on all its views is on top of each, and its revert uncovers
\* what it had found.
LEMMA StackRevert ==
  ASSUME NEW bound \in Nat, NEW j, JournalType(j, bound), NEW r, NEW k, Grown(j, r, k),
         Chained(j), Growing(j), OverFits(j),
         r.kind = "revert", r.over \in Runs(j) \ Reverted(j),
         NEW h, NEW g, Stacked(j, h),
         \A v \in DOMAIN j[r.over].wrote : /\ h[v].body = j[r.over].id
                                           /\ g[v].body = j[r.over].before[v].body,
         \A v \in Views \ DOMAIN j[r.over].wrote : g[v].body = h[v].body
  PROVE  Stacked(k, g)
<1> DEFINE o == r.over
<1>1. /\ Size(j) \in Nat /\ Size(k) = Size(j) + 1 /\ DOMAIN j = 1..Size(j)
      /\ o \in DOMAIN j /\ o \in Nat
  BY DEF Grown, Runs
<1> SUFFICES ASSUME NEW v \in Views
             PROVE  /\ OnTop(k, v, Size(k) + 1, g[v].body)
                    /\ \A s \in Standing(k, v) : OnTop(k, v, s, k[s].before[v].body)
  BY DEF Stacked
<1>2. /\ Standing(j, v) \subseteq 1..Size(j) /\ Standing(k, v) = Standing(j, v) \ {o}
      /\ \A s \in Standing(j, v) : k[s] = j[s]
  BY GrownStanding
<1>3. /\ OnTop(j, v, Size(j) + 1, h[v].body)
      /\ \A s \in Standing(j, v) : OnTop(j, v, s, j[s].before[v].body)
  BY DEF Stacked
<1>4. Standing(j, v) = Below(j, v, Size(j) + 1)
  BY <1>1, <1>2 DEF Below
<1>5. CASE v \notin DOMAIN j[o].wrote
  <2>1. o \notin Standing(j, v)
    BY <1>5 DEF Standing
  <2>2. \A s : Below(k, v, s) = Below(j, v, s) /\ \A w \in Below(j, v, s) : k[w].id = j[w].id
    BY <1>2, <2>1 DEF Below
  <2>3. Below(k, v, Size(k) + 1) = Below(j, v, Size(j) + 1)
    BY <1>1, <1>2, <2>1 DEF Below
  <2>4. OnTop(k, v, Size(k) + 1, g[v].body)
    BY <1>3, <1>5, <2>2, <2>3, OnTopSame
  <2>5. \A s \in Standing(k, v) : OnTop(k, v, s, k[s].before[v].body)
    BY <1>2, <1>3, <2>1, <2>2, OnTopSame
  <2>6. QED
    BY <2>4, <2>5
<1>6. CASE v \in DOMAIN j[o].wrote
  <2>1. o \in Standing(j, v) /\ h[v].body = j[o].id /\ g[v].body = j[o].before[v].body
    BY <1>6 DEF Standing
  <2>2. PICK w \in Standing(j, v) : j[o].id = j[w].id /\ \A x \in Standing(j, v) : x <= w
    BY <1>3, <1>4, <2>1 DEF OnTop
  <2>3. w = o
    <3>1. w \in DOMAIN j /\ w \in Nat /\ o <= w /\ j[w].id \in Nat
      BY <1>1, <1>2, <2>1, <2>2 DEF JournalType, RecType
    <3>2. ~(o < w)
      BY <1>1, <2>2, <3>1 DEF Growing
    <3>3. QED
      BY <1>1, <3>1, <3>2
  <2>4. \A x \in Standing(j, v) : x <= o
    BY <2>2, <2>3
  <2>5. Below(k, v, Size(k) + 1) = Below(j, v, o)
    BY <1>1, <1>2, <2>4 DEF Below
  <2>6. \A s \in Standing(k, v) : Below(k, v, s) = Below(j, v, s)
    BY <1>1, <1>2, <2>4 DEF Below
  <2>7. \A s : \A x \in Below(j, v, s) : k[x].id = j[x].id
    BY <1>2 DEF Below
  <2>8. OnTop(k, v, Size(k) + 1, g[v].body)
    BY <1>3, <2>1, <2>5, <2>7, OnTopSame
  <2>9. \A s \in Standing(k, v) : OnTop(k, v, s, k[s].before[v].body)
    BY <1>2, <1>3, <2>6, <2>7, OnTopSame
  <2>10. QED
    BY <2>8, <2>9
<1>7. QED
  BY <1>5, <1>6

-----------------------------------------------------------------------------
\* What each commit makes of a sound journal.

\* The record that comes next, as it must be whatever it says.
NextRecord(j, r) ==
  /\ r.prev = IF Size(j) = 0 THEN << >> ELSE Hash(j[Size(j)])
  /\ \A q \in DOMAIN j : j[q].id < r.id
  /\ r.kind # "compile" => r.over \in Runs(j)
  /\ r.kind = "compile" => AllClosed(j)

LEMMA GrownSound ==
  ASSUME NEW j, NEW r, NEW k, Grown(j, r, k), NextRecord(j, r),
         NEW h, NEW g, JournalSound(j, h), Stacked(k, g)
  PROVE  JournalSound(k, g)
<1>1. /\ Chained(j) /\ Growing(j) /\ OverFits(j) /\ OnlyNewestOpen(j) /\ HasNewest(j)
  BY DEF JournalSound
<1>2. Chained(k)
  BY <1>1, GrownChain DEF NextRecord
<1>3. Growing(k) /\ OverFits(k)
  BY <1>1, GrownOrder DEF NextRecord
<1>4. OnlyNewestOpen(k) /\ HasNewest(k)
  BY <1>1, GrownOpen DEF NextRecord
<1>5. QED
  BY <1>2, <1>3, <1>4 DEF JournalSound

LEMMA RunCommitted ==
  ASSUME NEW j, NEW r, NEW k, Grown(j, r, k), NextRecord(j, r), r.kind = "compile",
         NEW h, NEW g, JournalSound(j, h),
         \A v \in DOMAIN r.wrote : r.before[v].body = h[v].body,
         \A v \in Views : g[v].body = IF v \in DOMAIN r.wrote THEN r.id ELSE h[v].body
  PROVE  JournalSound(k, g)
<1>1. Chained(j) /\ OverFits(j) /\ Stacked(j, h)
  BY DEF JournalSound
<1>2. Stacked(k, g)
  BY <1>1, StackRun
<1>3. QED
  BY <1>2, GrownSound

LEMMA NoteCommitted ==
  ASSUME NEW j, NEW r, NEW k, Grown(j, r, k), NextRecord(j, r),
         r.kind \notin {"compile", "revert"},
         NEW h, NEW g, JournalSound(j, h), \A v \in Views : g[v].body = h[v].body
  PROVE  JournalSound(k, g)
<1>1. Chained(j) /\ OverFits(j) /\ Stacked(j, h) /\ r.over \in Runs(j)
  BY DEF JournalSound, NextRecord
<1>2. Stacked(k, g)
  BY <1>1, StackNote
<1>3. QED
  BY <1>2, GrownSound

LEMMA RevertCommitted ==
  ASSUME NEW bound \in Nat, NEW j, JournalType(j, bound), NEW r, NEW k,
         Grown(j, r, k), NextRecord(j, r),
         r.kind = "revert", r.over \in Runs(j) \ Reverted(j),
         NEW h, NEW g, JournalSound(j, h),
         \A v \in DOMAIN j[r.over].wrote : /\ h[v].body = j[r.over].id
                                           /\ g[v].body = j[r.over].before[v].body,
         \A v \in Views \ DOMAIN j[r.over].wrote : g[v].body = h[v].body
  PROVE  JournalSound(k, g)
<1>1. Chained(j) /\ Growing(j) /\ OverFits(j) /\ Stacked(j, h)
  BY DEF JournalSound
<1>2. Stacked(k, g)
  BY <1>1, StackRevert
<1>3. QED
  BY <1>2, GrownSound

\* A record that differs from the newest one in its annotation only takes its place.
LEMMA AnnotatedCommitted ==
  ASSUME NEW bound \in Nat, NEW j, JournalType(j, bound), NEW k,
         DOMAIN k = DOMAIN j, Size(j) \in DOMAIN j,
         k[Size(j)] = [j[Size(j)] EXCEPT !.annotated = TRUE],
         \A q \in DOMAIN j \ {Size(j)} : k[q] = j[q],
         NEW h, NEW g, JournalSound(j, h), \A v \in Views : g[v].body = h[v].body
  PROVE  JournalSound(k, g)
<1>1. Size(k) = Size(j)
  BY DEF Size
<1>2. /\ Chained(j) /\ Growing(j) /\ OverFits(j) /\ OnlyNewestOpen(j) /\ HasNewest(j)
      /\ Stacked(j, h) /\ Size(j) \in Nat /\ DOMAIN j = 1..Size(j)
  BY SeqsOf DEF JournalSound
<1>3. \A q \in DOMAIN j : /\ k[q].id = j[q].id /\ k[q].kind = j[q].kind /\ k[q].over = j[q].over
                          /\ k[q].prev = j[q].prev /\ k[q].complete = j[q].complete
                          /\ k[q].wrote = j[q].wrote /\ k[q].before = j[q].before
  BY DEF JournalType, RecType
<1>4. /\ Runs(k) = Runs(j) /\ Reverted(k) = Reverted(j)
      /\ \A s : Covering(k, s) = Covering(j, s) /\ Covering(j, s) \subseteq DOMAIN j
  <2>1. Runs(k) = Runs(j)
    BY <1>3 DEF Runs
  <2>2. {q \in DOMAIN k : k[q].kind = "revert"} = {q \in DOMAIN j : j[q].kind = "revert"}
    BY <1>3
  <2>3. Reverted(k) = Reverted(j)
    BY <1>3, <2>2 DEF Reverted
  <2>4. \A s : Covering(k, s) = Covering(j, s) /\ Covering(j, s) \subseteq DOMAIN j
    BY <1>3 DEF Covering
  <2>5. QED
    BY <2>1, <2>3, <2>4
<1>5. \A s : Terminal(j, s) => Terminal(k, s)
  BY <1>3, <1>4 DEF Terminal
<1>6. Chained(k)
  <2>1. \A s \in DOMAIN j : s # 1 => s - 1 \in DOMAIN j /\ s - 1 # Size(j)
    BY <1>2
  <2>2. \A s \in DOMAIN j : s # 1 => k[s - 1] = j[s - 1]
    BY <2>1
  <2>3. QED
    BY <1>1, <1>2, <1>3, <2>2 DEF Chained
<1>7. Growing(k) /\ OverFits(k)
  BY <1>2, <1>3, <1>4 DEF Growing, OverFits
<1>8. OnlyNewestOpen(k) /\ HasNewest(k)
  BY <1>2, <1>4, <1>5 DEF OnlyNewestOpen, HasNewest
<1>9. Stacked(k, g)
  <2>1. ASSUME NEW v \in Views
        PROVE  /\ OnTop(k, v, Size(k) + 1, g[v].body)
               /\ \A s \in Standing(k, v) : OnTop(k, v, s, k[s].before[v].body)
    <3>1. Runs(j) \subseteq DOMAIN j
      BY DEF Runs
    <3>2. Standing(k, v) = Standing(j, v) /\ Standing(j, v) \subseteq DOMAIN j
      BY <1>3, <1>4, <3>1 DEF Standing
    <3>3. \A s : Below(k, v, s) = Below(j, v, s) /\ \A w \in Below(j, v, s) : k[w].id = j[w].id
      BY <1>3, <3>2 DEF Below
    <3>4. \A s, id : OnTop(j, v, s, id) => OnTop(k, v, s, id)
      BY <3>3, OnTopSame
    <3>5. /\ OnTop(j, v, Size(j) + 1, h[v].body)
          /\ \A s \in Standing(j, v) : OnTop(j, v, s, j[s].before[v].body)
      BY <1>2 DEF Stacked
    <3>6. QED
      BY <1>1, <1>3, <3>2, <3>4, <3>5
  <2>2. QED
    BY <2>1 DEF Stacked
<1>10. QED
  BY <1>6, <1>7, <1>8, <1>9 DEF JournalSound

LEMMA WithEqual ==
  ASSUME NEW bound \in Nat, NEW j, NEW k, JournalType(k, bound), NEW s \in DOMAIN k,
         DOMAIN k = DOMAIN j \cup {s}, \A q \in DOMAIN j \ {s} : k[q] = j[q]
  PROVE  With(j, s, k[s]) = k
<1>1. k \in [DOMAIN k -> RecType]
  BY DEF JournalType
<1>2. k = [q \in DOMAIN k |-> k[q]]
  BY <1>1
<1>3. QED
  BY <1>2 DEF With

-----------------------------------------------------------------------------
\* The steps of a session that starts on a clean tree.

LEMMA JournalsAre ==
  ASSUME Structure, Sound
  PROVE  /\ JournalType(jtree, made) /\ JournalType(jhead, made) /\ made \in Nat
         /\ JournalSound(jhead, head) /\ Chained(jhead)
         /\ Size(jhead) \in Nat /\ DOMAIN jhead = 1..Size(jhead)
<1>1. JournalType(jtree, made) /\ JournalType(jhead, made) /\ made \in Nat
  BY KindsAre DEF Structure, Typed
<1>2. JournalSound(jhead, head) /\ Chained(jhead)
  BY DEF Sound, JournalSound
<1>3. QED
  BY <1>1, <1>2, SeqsOf

\* A step that touches neither journal nor the newest commit.
LEMMA JournalStays ==
  ASSUME Sound, UNCHANGED <<head, jtree, jhead>>, SessionSound'
  PROVE  Sound'
<1>1. JournalSound(jhead, head)'
  BY DEF Sound
<1>2. Leftovers'
  BY DEF Sound, Leftovers, NewRecord
<1>3. QED
  BY <1>1, <1>2 DEF Sound

\* A step that leaves no record without a commit.
LEMMA NoneLeft ==
  ASSUME JournalSound(jhead', head'), DOMAIN jtree' \subseteq DOMAIN jhead', SessionSound'
  PROVE  Sound'
  BY DEF Sound, Leftovers

LEMMA IdleSound ==
  ASSUME pc' = "idle", job'.kind = "none"
  PROVE  SessionSound'
  BY DEF SessionSound, RunPhase, VerifyPhase, RevertPhase, TreePhase

LEMMA StopSound ==
  ASSUME Sound, Stop, UNCHANGED <<head, jtree, jhead>>
  PROVE  Sound'
<1>1. SessionSound'
  BY StopFits, IdleTyped, IdleSound
<1>2. QED
  BY <1>1, JournalStays

\* The newest of the runs, when there is one.
LEMMA NewestIs ==
  ASSUME NEW S \in SUBSET Nat, NEW m \in S, \A q \in S : q <= m
  PROVE  Newest(S) = m
<1>1. m \in S /\ \A q \in S : q <= m
  OBVIOUS
<1>2. \A s \in S : (\A q \in S : q <= s) => s = m
  OBVIOUS
<1>3. QED
  BY <1>1, <1>2 DEF Newest

\* When the newest run blocks nothing, no run is open.
LEMMA AllClosedNow ==
  ASSUME NEW bound \in Nat, NEW j, JournalType(j, bound), OnlyNewestOpen(j), HasNewest(j), ~Blocked(j)
  PROVE  AllClosed(j)
<1>1. CASE Runs(j) = {}
  BY <1>1 DEF AllClosed
<1>2. CASE Runs(j) # {}
  <2>1. PICK m \in Runs(j) : \A q \in Runs(j) : q <= m
    BY <1>2 DEF HasNewest
  <2>2. Runs(j) \subseteq Nat
    BY RunsAre
  <2>3. Newest(Runs(j)) = m
    BY <2>1, <2>2, NewestIs
  <2>4. Terminal(j, m)
    BY <1>2, <2>3 DEF Blocked
  <2>5. \A s \in Runs(j) : s < m \/ s = m
    BY <2>1, <2>2
  <2>6. QED
    BY <2>4, <2>5 DEF AllClosed, OnlyNewestOpen
<1>3. QED
  BY <1>1, <1>2

LEMMA BeginSound ==
  ASSUME Cleared, Structure, Sound, NEW W \in (SUBSET Views) \ {{}}, Begin(W)
  PROVE  Sound'
<1>1. /\ pc' = "validate" /\ job'.kind = "compile" /\ job'.paths = W /\ job'.old = tree
      /\ UNCHANGED <<tree, head, jtree, jhead, crashes>>
  BY BeginIs
<1>2. tree = head /\ jtree = jhead /\ ~Blocked(jhead)
  BY DEF Begin, StartsOn, Cleared, Clean
<1>3. AllClosed(jhead)
  BY <1>2, JournalsAre, AllClosedNow DEF JournalSound
<1>4. SessionSound'
  BY <1>1, <1>2, <1>3 DEF SessionSound, RunPhase, VerifyPhase, RevertPhase, TreePhase
<1>5. QED
  BY <1>1, <1>4, JournalStays

LEMMA ValidateSound ==
  ASSUME Structure, Sound, NEW v \in Views, Validate(v)
  PROVE  Sound'
<1>1. /\ pc = "validate" /\ pc' \in {"validate", "write"}
      /\ job'.kind = job.kind /\ job'.id = job.id /\ job'.paths = job.paths /\ job'.old = job.old
      /\ pc' = "write" => job'.todo = job.paths
      /\ UNCHANGED <<tree, head, jtree, jhead, made, crashes>>
  BY ValidateIs
<1>2. job.kind = "compile"
  BY <1>1 DEF Structure, JobFits
<1>3. SessionSound'
  BY <1>1, <1>2 DEF Sound, SessionSound, RunPhase, VerifyPhase, RevertPhase, TreePhase
<1>4. QED
  BY <1>1, <1>3, JournalStays

LEMMA WriteViewSound ==
  ASSUME Structure, Sound, NEW v \in Views, WriteView(v)
  PROVE  Sound'
<1>1. /\ pc = "write" /\ pc' = IF job.todo = {v} THEN "append" ELSE "write"
      /\ job'.todo = job.todo \ {v}
      /\ job'.kind = job.kind /\ job'.id = job.id
      /\ job'.paths = job.paths /\ job'.old = job.old
      /\ tree'[v].body = job.id
      /\ \A w \in Views \ {v} : tree'[w] = tree[w]
      /\ UNCHANGED <<head, jtree, jhead, made, crashes>>
  BY WriteViewIs
<1>2. job.kind = "compile" /\ job.paths \subseteq Views
  BY <1>1 DEF Structure, Typed, JobFits, JobType
<1>3. /\ AllClosed(jhead) /\ job.paths # {} /\ \A w \in job.paths : job.old[w].body = head[w].body
      /\ \A w \in job.paths \ job.todo : tree[w].body = job.id
  BY <1>1, <1>2 DEF Sound, SessionSound, RunPhase
<1>4. \A w \in job.paths \ job'.todo : tree'[w].body = job.id
  BY <1>1, <1>2, <1>3
<1>5. pc' = "append" => job'.todo = {}
  BY <1>1
<1>6. RunPhase'
  BY <1>1, <1>3, <1>4, <1>5 DEF RunPhase
<1>7. jtree = jhead
  BY <1>1 DEF Sound, SessionSound, TreePhase
<1>8. SessionSound'
  BY <1>1, <1>2, <1>6, <1>7 DEF SessionSound, VerifyPhase, RevertPhase, TreePhase
<1>9. QED
  BY <1>1, <1>8, JournalStays

\* The engine fails in a write, in a leg or in a commit that may fail.
LEMMA FailSound ==
  ASSUME Cleared, Structure, Sound, StepFails \/ CommitFails
  PROVE  Sound'
<1>1. Raise /\ UNCHANGED <<tree, head, jtree, jhead, made, crashes>>
  BY DEF StepFails, CommitFails
<1>2. CASE Stop
  BY <1>1, <1>2, StopSound
<1>3. CASE /\ pc' = "undo" /\ job'.verb = "run" /\ job'.seq = job.seq
           /\ job.verb = "run" /\ job.kind \in {"verify", "annotation"}
  <2>1. pc = "leg"
    BY <1>3 DEF StepFails, CommitFails, Cleared, Structure, JobFits
  <2>2. Stands(job.seq) /\ jtree = jhead
    BY <1>3, <2>1 DEF Sound, SessionSound, VerifyPhase, TreePhase
  <2>3. job'.kind = "none" /\ job'.paths = {}
    BY <1>1, RaiseIs
  <2>4. SessionSound'
    BY <1>1, <1>3, <2>2, <2>3
       DEF SessionSound, RunPhase, VerifyPhase, RevertPhase, TreePhase, Stands, SameBody
  <2>5. QED
    BY <1>1, <2>4, JournalStays
<1>4. QED
  BY <1>1, <1>2, <1>3, RaiseIs

\* The session's record goes on top of the journal of the newest commit.
LEMMA AppendSound ==
  ASSUME Structure, Sound, AppendRecord
  PROVE  Sound'
<1>1. pc = "append" /\ jtree = jhead /\ Chained(jtree)
  BY JournalsAre DEF AppendRecord, Sound, SessionSound, TreePhase
<1>2. PICK s \in Nat \ {0}, r \in RecType :
           /\ s = Size(jtree) + 1 /\ s \notin DOMAIN jtree /\ DOMAIN jtree = 1..Size(jtree)
           /\ jtree' = With(jtree, s, r) /\ r.id = made /\ r.kind = job.kind
           /\ r.prev = IF s = 1 THEN << >> ELSE Hash(jtree[s - 1])
           /\ r.over = IF job.kind = "compile" THEN 0 ELSE job.seq
           /\ job.kind = "compile" =>
                /\ DOMAIN r.wrote = job.paths
                /\ \A v \in job.paths : r.wrote[v] = tree[v] /\ r.before[v] = job.old[v]
           /\ pc' = "commit"
           /\ job'.at = s /\ job'.seq = IF job.kind = "compile" THEN s ELSE job.seq
           /\ job'.kind = job.kind /\ job'.id = job.id
           /\ job'.paths = job.paths /\ job'.todo = job.todo /\ job'.old = job.old
  BY <1>1, AppendIs
<1>3. UNCHANGED <<tree, head, jhead, made>>
  BY DEF AppendRecord
<1>4. /\ DOMAIN jtree' = DOMAIN jhead \cup {s} /\ jtree'[s] = r
      /\ \A q \in DOMAIN jhead : jtree'[q] = jhead[q]
  BY <1>1, <1>2 DEF With
<1>5. job.id = made /\ job.kind \in Kinds \ {"annotation"} /\ \A q \in DOMAIN jhead : jhead[q].id < made
  BY <1>1 DEF Structure, JobFits
<1>6. job.kind # "compile" => Stands(job.seq)
  BY <1>5, KindsAre DEF Sound, SessionSound, VerifyPhase, RevertPhase
<1>7. job.kind = "compile" =>
        /\ AllClosed(jhead) /\ job.paths # {}
        /\ \A v \in job.paths : job.old[v].body = head[v].body /\ tree[v].body = job.id
  BY <1>1 DEF Sound, SessionSound, RunPhase
<1>8. Follows(jtree', s)
  <2>1. s # 1 => s - 1 \in DOMAIN jhead
    BY <1>1, <1>2, JournalsAre
  <2>2. QED
    BY <1>1, <1>2, <1>4, <2>1 DEF Follows
<1>9. NewRecord(s)'
  <2>1. s = Size(jhead) + 1 /\ r.id = made /\ r.kind = job.kind
    BY <1>1, <1>2
  <2>2. r.kind # "compile" => r.over \in Runs(jhead)
    BY <1>2, <1>6 DEF Stands
  <2>3. r.kind = "compile" =>
          /\ AllClosed(jhead) /\ DOMAIN r.wrote # {} /\ r.over = 0
          /\ \A v \in DOMAIN r.wrote : r.wrote[v].body = r.id /\ r.before[v].body = head[v].body
    BY <1>2, <1>5, <1>7
  <2>4. QED
    BY <1>3, <1>4, <1>5, <1>8, <2>1, <2>2, <2>3 DEF NewRecord
<1>10. Leftovers'
  BY <1>3, <1>4, <1>9 DEF Leftovers
<1>11. RunPhase'
  BY <1>2, <1>3, <1>7 DEF RunPhase
<1>12. VerifyPhase' /\ RevertPhase'
  BY <1>1, <1>2, <1>3, <1>6 DEF Sound, SessionSound, VerifyPhase, RevertPhase, Stands, SameBody
<1>13. TreePhase'
  BY <1>1, <1>2, <1>3, <1>4, <1>5 DEF TreePhase
<1>14. JournalSound(jhead, head)'
  BY <1>3 DEF Sound
<1>15. QED
  BY <1>10, <1>11, <1>12, <1>13, <1>14 DEF Sound, SessionSound

\* A record without a commit is the one that comes next, and is all the journal of the
\* working tree has more.
LEMMA NewIsNext ==
  ASSUME Structure, Sound, NEW s \in DOMAIN jtree, s \notin DOMAIN jhead
  PROVE  /\ With(jhead, s, jtree[s]) = jtree /\ Grown(jhead, jtree[s], jtree)
         /\ NextRecord(jhead, jtree[s]) /\ NewRecord(s)
<1>1. NewRecord(s)
  BY DEF Sound, Leftovers
<1>2. s = Size(jhead) + 1 /\ DOMAIN jtree = DOMAIN jhead \cup {s}
      /\ \A q \in DOMAIN jhead : jtree[q] = jhead[q] /\ jhead[q].id < jtree[s].id
  BY <1>1 DEF NewRecord
<1>3. /\ JournalType(jtree, made) /\ JournalType(jhead, made) /\ made \in Nat
      /\ Chained(jhead) /\ Size(jhead) \in Nat /\ DOMAIN jhead = 1..Size(jhead)
  BY JournalsAre
<1>4. With(jhead, s, jtree[s]) = jtree
  BY <1>2, <1>3, WithEqual
<1>5. Grown(jhead, jtree[s], jtree)
  BY <1>2, <1>3, <1>4, GrownIs
<1>6. jtree[s].prev = IF Size(jhead) = 0 THEN << >> ELSE Hash(jhead[Size(jhead)])
  <2>1. jtree[s].prev = IF s = 1 THEN << >> ELSE Hash(jtree[s - 1])
    BY <1>1 DEF NewRecord, Follows
  <2>2. CASE Size(jhead) = 0
    BY <1>2, <2>1, <2>2
  <2>3. CASE Size(jhead) # 0
    <3>1. Size(jhead) \in DOMAIN jhead /\ s # 1 /\ s - 1 = Size(jhead)
      BY <1>2, <1>3, <2>3
    <3>2. QED
      BY <1>2, <2>1, <2>3, <3>1
  <2>4. QED
    BY <2>2, <2>3
<1>7. NextRecord(jhead, jtree[s])
  <2>1. /\ jtree[s].kind # "compile" => jtree[s].over \in Runs(jhead)
        /\ jtree[s].kind = "compile" => AllClosed(jhead)
    BY <1>1 DEF NewRecord
  <2>2. QED
    BY <1>2, <1>6, <2>1 DEF NextRecord
<1>8. QED
  BY <1>1, <1>4, <1>5, <1>7

\* A commit makes the journal of the working tree that of the newest commit.
LEMMA CommitIs ==
  ASSUME Structure, Sound, Commit
  PROVE  /\ pc = "commit" /\ AfterCommit /\ jhead' = jtree /\ job.at \in DOMAIN jtree
         /\ \A v \in Views : head'[v] = IF v \in job.paths THEN tree[v] ELSE head[v]
         /\ UNCHANGED <<tree, jtree, made, crashes>>
<1>1. /\ pc = "commit" /\ AfterCommit /\ jhead' = With(jhead, job.at, jtree[job.at])
      /\ \A v \in Views : head'[v] = IF v \in job.paths THEN tree[v] ELSE head[v]
      /\ UNCHANGED <<tree, jtree, made, crashes>>
  BY DEF Commit, CommitViews
<1>2. job.at \in DOMAIN jtree
  BY <1>1 DEF Structure, JobFits
<1>3. CASE job.at \notin DOMAIN jhead
  BY <1>1, <1>2, <1>3, NewIsNext
<1>4. CASE job.at \in DOMAIN jhead
  <2>1. DOMAIN jtree = DOMAIN jhead /\ \A q \in DOMAIN jhead \ {job.at} : jtree[q] = jhead[q]
    BY <1>1, <1>4 DEF Sound, SessionSound, TreePhase
  <2>2. DOMAIN jtree = DOMAIN jhead \cup {job.at}
    BY <1>2, <2>1
  <2>3. With(jhead, job.at, jtree[job.at]) = jtree
    BY <1>2, <2>1, <2>2, JournalsAre, WithEqual
  <2>4. QED
    BY <1>1, <1>2, <2>3
<1>5. QED
  BY <1>3, <1>4

\* What each kind of commit makes of the newest commit's journal and text.
LEMMA CommitJournal ==
  ASSUME Structure, Sound, Commit
  PROVE  JournalSound(jhead', head')
<1>1. /\ pc = "commit" /\ jhead' = jtree /\ job.at \in DOMAIN jtree
      /\ \A v \in Views : head'[v] = IF v \in job.paths THEN tree[v] ELSE head[v]
  BY CommitIs
<1>2. /\ JournalType(jtree, made) /\ JournalType(jhead, made) /\ made \in Nat
      /\ JournalSound(jhead, head)
  BY JournalsAre
<1> DEFINE at == job.at
           r == jtree[at]
           text == head'
<1>3. \A v \in Views : text[v] = IF v \in job.paths THEN tree[v] ELSE head[v]
  BY <1>1
<1>4. CASE job.kind = "annotation"
  <2>1. /\ at = Size(jhead) /\ at \in DOMAIN jhead /\ DOMAIN jtree = DOMAIN jhead
        /\ \A q \in DOMAIN jhead \ {at} : jtree[q] = jhead[q]
        /\ r = [jhead[at] EXCEPT !.annotated = TRUE]
    BY <1>1, <1>4 DEF Sound, SessionSound, TreePhase
  <2>2. \A v \in Views : text[v].body = head[v].body
    BY <1>3, <1>4 DEF Sound, SessionSound, VerifyPhase, SameBody
  <2> HIDE DEF text
  <2>3. JournalSound(jtree, text)
    BY <1>2, <2>1, <2>2, AnnotatedCommitted
  <2>4. QED
    BY <1>1, <2>3 DEF text
<1>5. CASE job.kind # "annotation"
  <2>1. /\ at \notin DOMAIN jhead /\ r.kind = job.kind /\ r.id = job.id
        /\ IF job.kind = "compile" THEN DOMAIN r.wrote = job.paths ELSE r.over = job.seq
    BY <1>1, <1>5 DEF Sound, SessionSound, TreePhase
  <2>2. Grown(jhead, r, jtree) /\ NextRecord(jhead, r) /\ NewRecord(at)
    BY <1>1, <2>1, NewIsNext
  <2>3. CASE job.kind = "compile"
    <3>1. \A v \in DOMAIN r.wrote : r.before[v].body = head[v].body
      BY <2>1, <2>2, <2>3 DEF NewRecord
    <3>2. \A v \in Views : text[v].body = IF v \in DOMAIN r.wrote THEN r.id ELSE head[v].body
      BY <1>1, <1>3, <2>1, <2>3 DEF Sound, SessionSound, RunPhase
    <3>3. r.kind = "compile"
      BY <2>1, <2>3
    <3> HIDE DEF text, r
    <3>4. JournalSound(jtree, text)
      BY <1>2, <2>2, <3>1, <3>2, <3>3, RunCommitted
    <3>5. QED
      BY <1>1, <3>4 DEF text
  <2>4. CASE job.kind = "revert"
    <3>1. r.kind = "revert" /\ r.over = job.seq /\ Stands(job.seq)
          /\ job.paths = DOMAIN jhead[job.seq].wrote /\ job.paths \subseteq Views
          /\ \A v \in job.paths : /\ head[v].body = jhead[job.seq].id
                                  /\ tree[v].body = jhead[job.seq].before[v].body
      BY <2>1, <2>4 DEF Sound, SessionSound, RevertPhase, Structure, Typed, JobType
    <3>2. r.over \in Runs(jhead) \ Reverted(jhead)
      BY <3>1 DEF Stands
    <3>3. \A v \in DOMAIN jhead[r.over].wrote : /\ head[v].body = jhead[r.over].id
                                                /\ text[v].body = jhead[r.over].before[v].body
      BY <1>3, <3>1
    <3>4. \A v \in Views \ DOMAIN jhead[r.over].wrote : text[v].body = head[v].body
      BY <1>3, <3>1
    <3>5. r.kind = "revert"
      BY <3>1
    <3> HIDE DEF text, r
    <3>6. JournalSound(jtree, text)
      BY <1>2, <2>2, <3>2, <3>3, <3>4, <3>5, RevertCommitted
    <3>7. QED
      BY <1>1, <3>6 DEF text
  <2>5. CASE job.kind \notin {"compile", "revert"}
    <3>1. r.kind \in {"verify", "revert-failed"}
      BY <1>1, <1>2, <2>1, <2>5, KindsAre DEF JournalType, RecType
    <3>2. \A v \in job.paths : SameBody(v)
      BY <2>1, <3>1 DEF Sound, SessionSound, VerifyPhase, RevertPhase
    <3>3. \A v \in Views : text[v].body = head[v].body
      BY <1>3, <3>2 DEF SameBody
    <3>4. r.kind \notin {"compile", "revert"}
      BY <3>1
    <3> HIDE DEF text, r
    <3>5. JournalSound(jtree, text)
      BY <1>2, <2>2, <3>3, <3>4, NoteCommitted
    <3>6. QED
      BY <1>1, <3>5 DEF text
  <2>6. QED
    BY <2>3, <2>4, <2>5
<1>6. QED
  BY <1>4, <1>5

\* A run that stands before a verify record or an annotation stands after it, and a run
\* that is committed stands.
LEMMA CommitStands ==
  ASSUME Structure, Sound, Commit
  PROVE  /\ job.kind \in {"verify", "annotation"} =>
              job.seq \in Runs(jtree) \ Reverted(jtree)
         /\ job.kind = "compile" => job.at \in Runs(jtree) \ Reverted(jtree)
         /\ job.kind = "verify" => job.at = Size(jtree) /\ jtree[job.at].kind = "verify"
         /\ job.kind = "compile" => DOMAIN jtree[job.at].wrote = job.paths
<1>1. pc = "commit" /\ job.at \in DOMAIN jtree
  BY CommitIs
<1>2. /\ JournalType(jtree, made) /\ JournalType(jhead, made) /\ Chained(jhead)
      /\ OverFits(jhead) /\ DOMAIN jhead = 1..Size(jhead) /\ Size(jhead) \in Nat
  BY JournalsAre DEF JournalSound
<1> DEFINE at == job.at
           r == jtree[at]
<1>3. job.kind \in {"verify", "annotation"} => job.seq \in Runs(jhead) \ Reverted(jhead)
  BY DEF Sound, SessionSound, VerifyPhase, Stands
<1>4. CASE job.kind = "annotation"
  <2>1. /\ at \in DOMAIN jhead /\ DOMAIN jtree = DOMAIN jhead
        /\ \A q \in DOMAIN jhead \ {at} : jtree[q] = jhead[q]
        /\ r = [jhead[at] EXCEPT !.annotated = TRUE] /\ jhead[at] \in RecType
    BY <1>1, <1>2, <1>4 DEF Sound, SessionSound, TreePhase, JournalType
  <2>2. \A q \in DOMAIN jtree : jtree[q].kind = jhead[q].kind /\ jtree[q].over = jhead[q].over
    BY <2>1 DEF RecType
  <2>3. {q \in DOMAIN jtree : jtree[q].kind = "revert"} = {q \in DOMAIN jhead : jhead[q].kind = "revert"}
    BY <2>1, <2>2
  <2>4. Runs(jtree) = Runs(jhead) /\ Reverted(jtree) = Reverted(jhead)
    BY <2>1, <2>2, <2>3 DEF Runs, Reverted
  <2>5. QED
    BY <1>3, <1>4, <2>4
<1>5. CASE job.kind \in {"compile", "verify"}
  <2>1. /\ at \notin DOMAIN jhead /\ r.kind = job.kind
        /\ job.kind = "compile" => DOMAIN r.wrote = job.paths
    BY <1>1, <1>5 DEF Sound, SessionSound, TreePhase
  <2>2. Grown(jhead, r, jtree) /\ NewRecord(at)
    BY <1>1, <2>1, NewIsNext
  <2>3. at = Size(jhead) + 1 /\ Size(jtree) = Size(jhead) + 1
    BY <2>2 DEF NewRecord, Grown
  <2>4. /\ Runs(jtree) = Runs(jhead) \cup (IF r.kind = "compile" THEN {Size(jhead) + 1} ELSE {})
        /\ Reverted(jtree) = Reverted(jhead)
    <3>1. /\ Runs(jtree) = Runs(jhead) \cup (IF r.kind = "compile" THEN {Size(jhead) + 1} ELSE {})
          /\ Reverted(jtree) = Reverted(jhead) \cup (IF r.kind = "revert" THEN {r.over} ELSE {})
      BY <1>2, <2>2, GrownSets
    <3>2. r.kind # "revert"
      BY <1>5, <2>1
    <3>3. QED
      BY <3>1, <3>2
  <2>5. at \notin Reverted(jhead)
    <3>1. \A o \in Reverted(jhead) : o \in DOMAIN jhead
      BY <1>2 DEF Reverted, OverFits, Runs
    <3>2. QED
      BY <2>1, <3>1
  <2>6. QED
    BY <1>3, <1>5, <2>1, <2>3, <2>4, <2>5
<1>6. CASE job.kind \notin {"compile", "verify", "annotation"}
  BY <1>6
<1>7. QED
  BY <1>4, <1>5, <1>6

LEMMA CommitSound ==
  ASSUME Structure, Sound, Commit
  PROVE  Sound'
<1>1. /\ pc = "commit" /\ AfterCommit /\ jhead' = jtree /\ job.at \in DOMAIN jtree
      /\ \A v \in Views : head'[v] = IF v \in job.paths THEN tree[v] ELSE head[v]
      /\ UNCHANGED <<tree, jtree, made, crashes>>
  BY CommitIs
<1>2. JournalSound(jhead', head')
  BY CommitJournal
<1>3. /\ job.kind \in {"verify", "annotation"} =>
           job.seq \in Runs(jtree) \ Reverted(jtree)
      /\ job.kind = "compile" => job.at \in Runs(jtree) \ Reverted(jtree)
      /\ job.kind = "verify" => job.at = Size(jtree) /\ jtree[job.at].kind = "verify"
      /\ job.kind = "compile" => DOMAIN jtree[job.at].wrote = job.paths
  BY CommitStands
<1>4. job.paths \subseteq Views /\ job.todo \subseteq Views
  BY DEF Structure, Typed, JobType
<1>5. CASE /\ job.kind = "compile" /\ pc' = "leg" /\ job' = Legs(job.seq)
           /\ job.seq = job.at /\ job.seq \in Runs(jtree)
  <2>1. /\ job'.kind = "verify" /\ job'.seq = job.seq /\ job'.paths = {}
        /\ job'.todo \subseteq job.paths
    BY <1>3, <1>5, LegsAre
  <2>2. \A v \in job'.todo : tree'[v].body = head'[v].body
    BY <1>1, <1>4, <2>1
  <2>3. VerifyPhase'
    BY <1>1, <1>3, <1>5, <2>1, <2>2 DEF VerifyPhase, Stands, SameBody
  <2>4. QED
    BY <1>1, <1>2, <1>5, <2>1, <2>3, NoneLeft
       DEF SessionSound, RunPhase, RevertPhase, TreePhase
<1>6. CASE /\ job.kind = "verify" /\ pc' = "annotate" /\ job'.kind = "annotation"
           /\ job'.seq = job.seq /\ job'.at = job.at
           /\ job'.paths = job.paths /\ job'.todo = job.todo
  <2>1. \A v \in job.paths \cup job.todo : tree'[v].body = head'[v].body
    BY <1>1, <1>4, <1>6 DEF Sound, SessionSound, VerifyPhase, SameBody
  <2>2. VerifyPhase'
    BY <1>1, <1>3, <1>6, <2>1 DEF VerifyPhase, Stands, SameBody
  <2>3. QED
    BY <1>1, <1>2, <1>6, <2>2, NoneLeft
       DEF SessionSound, RunPhase, RevertPhase, TreePhase
<1>7. CASE /\ job.kind \in {"verify", "annotation"}
           /\ pc' = "undo" /\ job'.kind = "none" /\ job'.seq = job.seq /\ job'.paths = {}
  <2>1. RevertPhase'
    BY <1>1, <1>3, <1>7 DEF RevertPhase, Stands, SameBody
  <2>2. QED
    BY <1>1, <1>2, <1>7, <2>1, NoneLeft
       DEF SessionSound, RunPhase, VerifyPhase, TreePhase
<1>8. CASE Stop
  BY <1>1, <1>2, <1>8, NoneLeft, StopFits, IdleTyped, IdleSound
<1>9. QED
  BY <1>1, <1>5, <1>6, <1>7, <1>8, AfterCommitIs

-----------------------------------------------------------------------------
\* Legs, annotations and reverts.

LEMMA LegSound ==
  ASSUME Structure, Sound, NEW v \in Views, Leg(v)
  PROVE  Sound'
<1>1. /\ pc = "leg" /\ pc' = "leg" /\ v \in job.todo
      /\ job'.kind = "verify" /\ job'.seq = job.seq
      /\ job'.todo = job.todo \ {v} /\ job'.paths \subseteq job.paths \cup {v}
      /\ \A w \in Views : tree'[w].body = tree[w].body
      /\ UNCHANGED <<head, jtree, jhead, made, crashes>>
  BY LegIs
<1>2. job.kind = "verify" /\ job.paths \subseteq Views /\ job.todo \subseteq Views
  BY <1>1 DEF Structure, Typed, JobFits, JobType
<1>3. VerifyPhase'
  BY <1>1, <1>2 DEF Sound, SessionSound, VerifyPhase, Stands, SameBody
<1>4. SessionSound'
  BY <1>1, <1>3 DEF Sound, SessionSound, RunPhase, RevertPhase, TreePhase
<1>5. QED
  BY <1>1, <1>4, JournalStays

LEMMA EndOfLegsSound ==
  ASSUME Structure, Sound, EndOfLegs
  PROVE  Sound'
<1>1. /\ pc = "leg" /\ pc' = "append"
      /\ job'.kind = "verify" /\ job.kind = "verify"
      /\ job'.seq = job.seq /\ job'.todo = job.todo /\ job'.paths = job.paths
      /\ UNCHANGED <<tree, head, jtree, jhead, crashes>>
  BY EndOfLegsIs
<1>2. SessionSound'
  BY <1>1 DEF Sound, SessionSound, RunPhase, VerifyPhase, RevertPhase, TreePhase, Stands, SameBody
<1>3. QED
  BY <1>1, <1>2, JournalStays

LEMMA AnnotateSound ==
  ASSUME Structure, Sound, Annotate
  PROVE  Sound'
<1>1. /\ pc = "annotate" /\ pc' = "commit" /\ job' = job /\ job.kind = "annotation"
      /\ DOMAIN jtree' = DOMAIN jtree
      /\ jtree'[job.at] = [jtree[job.at] EXCEPT !.annotated = TRUE]
      /\ \A q \in DOMAIN jtree \ {job.at} : jtree'[q] = jtree[q]
      /\ UNCHANGED <<tree, head, jhead, made, crashes>>
  BY AnnotateIs
<1>2. jtree = jhead /\ job.at = Size(jhead) /\ jhead[job.at].kind = "verify" /\ job.at \in DOMAIN jhead
  BY <1>1, AnnotateIs DEF Sound, SessionSound, VerifyPhase, TreePhase
<1>3. JournalSound(jhead', head')
  BY <1>1, JournalsAre
<1>4. VerifyPhase'
  BY <1>1 DEF Sound, SessionSound, VerifyPhase, Stands, SameBody
<1>5. TreePhase'
  BY <1>1, <1>2 DEF TreePhase
<1>6. SessionSound'
  BY <1>1, <1>4, <1>5 DEF SessionSound, RunPhase, RevertPhase
<1>7. QED
  BY <1>1, <1>2, <1>3, <1>6, NoneLeft

LEMMA ReverifySound ==
  ASSUME Cleared, Structure, Sound, NEW s \in DOMAIN jtree, Reverify(s)
  PROVE  Sound'
<1>1. /\ pc' = "leg" /\ s \in Runs(jtree) /\ ~Terminal(jtree, s)
      /\ job'.kind = "verify" /\ job'.seq = s /\ job'.paths = {}
      /\ job'.todo \subseteq DOMAIN jtree[s].wrote
      /\ UNCHANGED <<tree, head, jtree, jhead, made, crashes>>
  BY ReverifyIs
<1>2. tree = head /\ jtree = jhead
  BY DEF Reverify, StartsOn, Cleared, Clean
<1>3. SessionSound'
  BY <1>1, <1>2 DEF SessionSound, RunPhase, VerifyPhase, RevertPhase, TreePhase, Stands,
                    SameBody, Terminal
<1>4. QED
  BY <1>1, <1>3, JournalStays

LEMMA RevertSound ==
  ASSUME Structure, Sound, NEW s \in DOMAIN jtree, Revert(s)
  PROVE  Sound'
<1>1. /\ Clean /\ s \in Runs(jtree) \ Reverted(jtree)
      /\ \A v \in DOMAIN jtree[s].wrote : head[v].body = jtree[s].id
      /\ pc' \in {"undo", "bytes"} /\ job'.kind = "none" /\ job'.seq = s
      /\ job'.paths = DOMAIN jtree[s].wrote /\ job'.todo = DOMAIN jtree[s].wrote
      /\ UNCHANGED <<tree, head, jtree, jhead, made, crashes>>
  BY RevertIs
<1>2. tree = head /\ jtree = jhead
  BY <1>1 DEF Clean
<1>3. SessionSound'
  BY <1>1, <1>2 DEF SessionSound, RunPhase, VerifyPhase, RevertPhase, TreePhase, Stands, SameBody
<1>4. QED
  BY <1>1, <1>3, JournalStays

LEMMA GitConflictSound ==
  ASSUME Structure, Sound, GitConflict
  PROVE  Sound'
<1>1. /\ pc = "undo" /\ pc' = "append" /\ job'.kind = "revert-failed"
      /\ job'.seq = job.seq /\ job'.paths = job.paths /\ job'.todo = job.todo
      /\ UNCHANGED <<tree, head, jtree, jhead, crashes>>
  BY GitConflictIs
<1>2. SessionSound'
  BY <1>1 DEF Sound, SessionSound, RunPhase, VerifyPhase, RevertPhase, TreePhase, Stands, SameBody
<1>3. QED
  BY <1>1, <1>2, JournalStays

LEMMA GitRevertSound ==
  ASSUME Structure, Sound, GitRevert
  PROVE  Sound'
<1>1. /\ pc = "undo" /\ pc' = "restore" /\ Mergeable(job.seq) /\ job'.kind = job.kind
      /\ job'.seq = job.seq /\ job'.paths = DOMAIN jhead[job.seq].wrote
      /\ \A v \in DOMAIN jhead[job.seq].wrote : tree'[v].body = jhead[job.seq].before[v].body
      /\ jtree' = Without(jtree, job.seq)
      /\ UNCHANGED <<head, jhead, made, crashes>>
  BY GitRevertIs
<1>2. job.kind = "none"
  BY <1>1 DEF Structure, JobFits
<1>3. Stands(job.seq) /\ jtree = jhead
  BY <1>1 DEF Sound, SessionSound, RevertPhase, TreePhase
<1>4. DOMAIN jtree' \subseteq DOMAIN jhead'
  BY <1>1, <1>3 DEF Without
<1>5. \A v \in DOMAIN jhead[job.seq].wrote : head[v].body = jhead[job.seq].id
  BY <1>1 DEF Mergeable
<1>6. RevertPhase'
  BY <1>1, <1>2, <1>3, <1>5 DEF RevertPhase, Stands
<1>7. SessionSound'
  BY <1>1, <1>2, <1>3, <1>6 DEF SessionSound, RunPhase, VerifyPhase, TreePhase
<1>8. QED
  BY <1>1, <1>4, <1>7, JournalsAre, NoneLeft

LEMMA RestoreViewSound ==
  ASSUME Structure, Sound, NEW v \in Views, RestoreView(v)
  PROVE  Sound'
<1>1. /\ pc = "bytes" /\ pc' = IF job.todo = {v} THEN "restore" ELSE "bytes"
      /\ v \in job.todo /\ job'.kind = job.kind
      /\ job'.seq = job.seq /\ job'.paths = job.paths /\ job'.todo = job.todo \ {v}
      /\ tree'[v] = jhead[job.seq].before[v]
      /\ \A w \in Views \ {v} : tree'[w] = tree[w]
      /\ UNCHANGED <<head, jtree, jhead, made, crashes>>
  BY RestoreViewIs
<1>2. job.kind = "none" /\ job.paths \subseteq Views
  BY <1>1 DEF Structure, Typed, JobFits, JobType
<1>3. /\ Stands(job.seq) /\ jtree = jhead /\ job.paths = DOMAIN jhead[job.seq].wrote
      /\ \A w \in job.paths : head[w].body = jhead[job.seq].id
      /\ \A w \in job.paths \ job.todo : tree[w].body = jhead[job.seq].before[w].body
  BY <1>1 DEF Sound, SessionSound, RevertPhase, TreePhase
<1>4. \A w \in job.paths \ job'.todo : tree'[w].body = jhead[job.seq].before[w].body
  BY <1>1, <1>2, <1>3
<1>5. pc' = "restore" => job'.todo = {}
  BY <1>1
<1>6. RevertPhase'
  BY <1>1, <1>2, <1>3, <1>4, <1>5 DEF RevertPhase, Stands
<1>7. SessionSound'
  BY <1>1, <1>2, <1>3, <1>6 DEF SessionSound, RunPhase, VerifyPhase, TreePhase
<1>8. QED
  BY <1>1, <1>7, JournalStays

LEMMA RestoreRecordSound ==
  ASSUME Structure, Sound, RestoreRecord
  PROVE  Sound'
<1>1. /\ pc = "restore" /\ pc' = "append" /\ job.seq \in Runs(jhead) /\ job'.kind = "revert"
      /\ job'.seq = job.seq /\ job'.paths = job.paths /\ job'.todo = job.todo
      /\ jtree' = With(jtree, job.seq, jhead[job.seq])
      /\ UNCHANGED <<tree, head, jhead, crashes>>
  BY RestoreRecordIs
<1>2. jtree = jhead \/ jtree = Without(jhead, job.seq)
  BY <1>1 DEF Sound, SessionSound, TreePhase
<1>3. job.seq \in DOMAIN jhead
  BY <1>1 DEF Runs
<1>4. /\ DOMAIN jhead = DOMAIN jtree \cup {job.seq}
      /\ \A q \in DOMAIN jtree \ {job.seq} : jhead[q] = jtree[q]
  BY <1>2, <1>3 DEF Without
<1>5. jtree' = jhead
  BY <1>1, <1>3, <1>4, JournalsAre, WithEqual
<1>6. RevertPhase'
  BY <1>1 DEF Sound, SessionSound, RevertPhase, Stands
<1>7. SessionSound'
  BY <1>1, <1>5, <1>6 DEF SessionSound, RunPhase, VerifyPhase, TreePhase
<1>8. QED
  BY <1>1, <1>5, <1>7, JournalsAre, NoneLeft

\* The operator's two ways out of leftovers.
LEMMA OperatorSound ==
  ASSUME Structure, Sound, DiscardLeftovers \/ CommitLeftovers
  PROVE  Sound'
<1>1. pc = "idle" /\ pc' = "idle" /\ job' = job /\ job.kind = "none"
  BY DEF DiscardLeftovers, CommitLeftovers, Structure, JobFits
<1>2. SessionSound'
  BY <1>1, IdleSound
<1>3. CASE DiscardLeftovers
  <2>1. jhead' = jhead /\ head' = head /\ jtree' = jhead
    BY <1>3 DEF DiscardLeftovers
  <2>2. QED
    BY <1>2, <2>1, JournalsAre, NoneLeft
<1>4. CASE CommitLeftovers
  <2>1. PICK s \in Runs(jtree) :
          /\ DOMAIN jtree \ DOMAIN jhead = {s}
          /\ \A v \in Views : tree[v] = IF v \in Absorbed(s) THEN jtree[s].wrote[v] ELSE head[v]
    BY <1>4 DEF CommitLeftovers
  <2>2. head' = tree /\ jhead' = jtree /\ jtree' = jtree
    BY <1>4 DEF CommitLeftovers
  <2>3. s \in DOMAIN jtree /\ s \notin DOMAIN jhead /\ jtree[s].kind = "compile"
    BY <2>1 DEF Runs
  <2>4. Grown(jhead, jtree[s], jtree) /\ NextRecord(jhead, jtree[s]) /\ NewRecord(s)
    BY <2>3, NewIsNext
  <2>5. \A v \in DOMAIN jtree[s].wrote : /\ jtree[s].wrote[v].body = jtree[s].id
                                         /\ jtree[s].before[v].body = head[v].body
    BY <2>3, <2>4 DEF NewRecord
  <2>6. \A v \in Views : tree[v].body = IF v \in DOMAIN jtree[s].wrote THEN jtree[s].id ELSE head[v].body
    BY <2>1, <2>5 DEF Absorbed
  <2>7. JournalSound(jtree, tree)
    BY <2>3, <2>4, <2>5, <2>6, JournalsAre, RunCommitted
  <2>8. QED
    BY <1>2, <2>2, <2>7, NoneLeft
<1>5. QED
  BY <1>3, <1>4

LEMMA InitSound == Init => Sound
<1> SUFFICES ASSUME Init PROVE Sound
  OBVIOUS
<1>1. /\ jhead = << >> /\ jtree = << >> /\ pc = "idle" /\ job.kind = "none"
      /\ \A v \in Views : head[v].body = 0
  BY IdleTyped DEF Init
<1>2. DOMAIN jhead = {} /\ DOMAIN jhead = 1..0
  BY <1>1
<1>3. Size(jhead) = 0
  BY <1>2, SizeIs
<1>4. Runs(jhead) = {} /\ \A v \in Views : \A s : Standing(jhead, v) = {} /\ Below(jhead, v, s) = {}
  BY <1>2 DEF Runs, Standing, Below
<1>5. Stacked(jhead, head)
  BY <1>1, <1>4 DEF Stacked, OnTop
<1>6. Chained(jhead) /\ Growing(jhead) /\ OverFits(jhead)
  BY <1>2, <1>3 DEF Chained, Growing, OverFits
<1>7. OnlyNewestOpen(jhead) /\ HasNewest(jhead)
  BY <1>4 DEF OnlyNewestOpen, HasNewest
<1>8. Leftovers
  BY <1>1 DEF Leftovers
<1>9. SessionSound
  BY <1>1 DEF SessionSound, RunPhase, VerifyPhase, RevertPhase, TreePhase
<1>10. QED
  BY <1>5, <1>6, <1>7, <1>8, <1>9 DEF Sound, JournalSound

LEMMA SoundStep ==
  ASSUME Cleared, Structure, Sound, [Next]_vars
  PROVE  Sound'
<1>1. CASE \E W \in (SUBSET Views) \ {{}} : Begin(W)
  BY <1>1, BeginSound
<1>2. CASE \E v \in Views : Validate(v) \/ WriteView(v) \/ Leg(v) \/ RestoreView(v)
  BY <1>2, ValidateSound, WriteViewSound, LegSound, RestoreViewSound
<1>3. CASE RefuseItem \/ Crash
  BY <1>3, StopSound DEF RefuseItem, Crash
<1>4. CASE StepFails \/ CommitFails
  BY <1>4, FailSound
<1>5. CASE AppendRecord
  BY <1>5, AppendSound
<1>6. CASE Commit
  BY <1>6, CommitSound
<1>7. CASE EndOfLegs \/ Annotate
  BY <1>7, EndOfLegsSound, AnnotateSound
<1>8. CASE GitRevert \/ GitConflict \/ RestoreRecord
  BY <1>8, GitRevertSound, GitConflictSound, RestoreRecordSound
<1>9. CASE \E s \in DOMAIN jtree : Reverify(s) \/ Revert(s)
  BY <1>9, ReverifySound, RevertSound
<1>10. CASE DiscardLeftovers \/ CommitLeftovers
  BY <1>10, OperatorSound
<1>11. CASE UNCHANGED vars
  <2>1. SessionSound'
    BY <1>11 DEF vars, Sound, SessionSound, RunPhase, VerifyPhase, RevertPhase, TreePhase,
                 Stands, SameBody
  <2>2. QED
    BY <1>11, <2>1, JournalStays DEF vars
<1>12. QED
  BY <1>1, <1>2, <1>3, <1>4, <1>5, <1>6, <1>7, <1>8, <1>9, <1>10, <1>11 DEF Next

-----------------------------------------------------------------------------
\* For an operator who clears leftovers.

LEMMA SoundAlways == Cleared => (Spec => [](Structure /\ Sound))
<1> SUFFICES ASSUME Cleared PROVE Spec => [](Structure /\ Sound)
  OBVIOUS
<1>1. Init => Structure /\ Sound
  BY InitStructure, InitSound
<1>2. Structure /\ Sound /\ [Next]_vars => (Structure /\ Sound)'
  BY StructureStep, SoundStep
<1>3. QED
  BY <1>1, <1>2, PTL DEF Spec

\* Whoever clones the branch gets a journal that checks, at every commit and after
\* every kill.
THEOREM InvHolds == Cleared => (Spec => []Inv)
<1> SUFFICES ASSUME Cleared PROVE Spec => []Inv
  OBVIOUS
<1>1. Structure /\ Sound => Inv
  BY StructureGivesTypes DEF Sound, JournalSound, Inv, CommittedChain
<1>2. QED
  BY <1>1, SoundAlways, PTL

\* At every commit a view's text is that of the newest run which the committed journal
\* has for it and does not call reverted.
THEOREM HeadMatchesJournalHolds == Cleared => (Spec => []HeadMatchesJournal)
<1> SUFFICES ASSUME Cleared PROVE Spec => []HeadMatchesJournal
  OBVIOUS
<1>1. Structure /\ Sound => HeadMatchesJournal
  <2> SUFFICES ASSUME Structure, Sound, NEW v \in Views
               PROVE  head[v].body = IF Writers(v) = {} THEN 0 ELSE jhead[Newest(Writers(v))].id
    BY DEF HeadMatchesJournal
  <2>1. Writers(v) = Standing(jhead, v)
    BY DEF Writers, Standing
  <2>2. DOMAIN jhead = 1..Size(jhead) /\ Size(jhead) \in Nat
        /\ OnTop(jhead, v, Size(jhead) + 1, head[v].body)
    BY JournalsAre DEF JournalSound, Stacked
  <2>3. Writers(v) \subseteq Nat /\ Below(jhead, v, Size(jhead) + 1) = Writers(v)
    BY <2>1, <2>2 DEF Standing, Runs, Below
  <2>4. CASE Writers(v) = {}
    BY <2>2, <2>3, <2>4 DEF OnTop
  <2>5. CASE Writers(v) # {}
    <3>1. PICK w \in Writers(v) : head[v].body = jhead[w].id /\ \A x \in Writers(v) : x <= w
      BY <2>2, <2>3, <2>5 DEF OnTop
    <3>2. Newest(Writers(v)) = w
      BY <2>3, <3>1, NewestIs
    <3>3. QED
      BY <2>5, <3>1, <3>2
  <2>6. QED
    BY <2>4, <2>5
<1>2. QED
  BY <1>1, SoundAlways, PTL

\* Only the begin of a run leads from an idle session to its validation.
LEMMA BeginOnly ==
  ASSUME Structure, [Next]_vars, pc = "idle", pc' = "validate"
  PROVE  \E W \in (SUBSET Views) \ {{}} : Begin(W)
<1>1. ~Stop
  BY DEF Stop, Goto
<1>2. \A v \in Views : ~Validate(v) /\ ~WriteView(v) /\ ~Leg(v) /\ ~RestoreView(v)
  BY DEF Validate, WriteView, Leg, RestoreView
<1>3. ~RefuseItem /\ ~StepFails /\ ~AppendRecord /\ ~Commit /\ ~CommitFails
      /\ ~EndOfLegs /\ ~Annotate /\ ~GitRevert /\ ~GitConflict /\ ~RestoreRecord /\ ~Crash
  BY DEF RefuseItem, StepFails, AppendRecord, Commit, CommitFails, EndOfLegs, Annotate,
         GitRevert, GitConflict, RestoreRecord, Crash
<1>4. \A s \in DOMAIN jtree : ~Reverify(s)
  BY ReverifyIs
<1>5. \A s \in DOMAIN jtree : ~Revert(s)
  BY RevertIs
<1>6. ~DiscardLeftovers /\ ~CommitLeftovers /\ ~UNCHANGED vars
  BY DEF DiscardLeftovers, CommitLeftovers, vars
<1>7. QED
  BY <1>2, <1>3, <1>4, <1>5, <1>6 DEF Next

\* No run starts over a committed run without a disposition, whatever failed or was
\* killed before.
THEOREM NeverSilentHolds == Cleared => (Spec => NeverSilent)
<1> SUFFICES ASSUME Cleared PROVE Spec => NeverSilent
  OBVIOUS
<1>1. ASSUME Structure, Sound, [Next]_vars, pc = "idle", pc' = "validate"
      PROVE  \A s \in Runs(jhead) : Terminal(jhead, s)
  <2>1. PICK W \in (SUBSET Views) \ {{}} : Begin(W)
    BY <1>1, BeginOnly
  <2>2. jtree = jhead /\ ~Blocked(jhead)
    BY <2>1 DEF Begin, StartsOn, Cleared, Clean
  <2>3. AllClosed(jhead)
    BY <1>1, <2>2, JournalsAre, AllClosedNow DEF JournalSound
  <2>4. QED
    BY <2>3 DEF AllClosed
<1>2. Structure /\ Sound /\ [Next]_vars =>
        [(pc = "idle" /\ pc' = "validate") => \A s \in Runs(jhead) : Terminal(jhead, s)]_vars
  BY <1>1
<1>3. QED
  BY <1>2, SoundAlways, PTL DEF Spec, NeverSilent

\* A plan that is being validated: its items, a refusal or a kill leave the working tree
\* alone, and nothing but a begin comes to it.
LEMMA ValidatesOnly ==
  ASSUME Structure, [Next]_vars
  PROVE  /\ pc = "validate" => tree' = tree /\ jtree' = jtree
         /\ pc = "validate" /\ pc' = "validate" => job'.old = job.old
         /\ pc # "idle" /\ pc' = "validate" => pc = "validate"
<1> DEFINE Claim == /\ pc = "validate" => tree' = tree /\ jtree' = jtree
                    /\ pc = "validate" /\ pc' = "validate" => job'.old = job.old
                    /\ pc # "idle" /\ pc' = "validate" => pc = "validate"
<1>1. CASE \E W \in (SUBSET Views) \ {{}} : Begin(W)
  BY <1>1 DEF Begin, StartsOn
<1>2. ASSUME NEW v \in Views, Validate(v) PROVE Claim
  BY <1>2, ValidateIs
<1>3. ASSUME NEW v \in Views, WriteView(v) \/ Leg(v) \/ RestoreView(v) PROVE Claim
  BY <1>3, WriteViewIs, LegIs, RestoreViewIs
<1>4. CASE RefuseItem \/ Crash
  BY <1>4, StopFits DEF RefuseItem, Crash
<1>5. CASE StepFails \/ CommitFails
  <2>1. pc \in {"write", "leg", "commit"} /\ Raise
    BY <1>5 DEF StepFails, CommitFails
  <2>2. pc' # "validate"
    BY <2>1, RaiseIs, StopFits
  <2>3. QED
    BY <2>1, <2>2
<1>6. CASE AppendRecord
  <2>1. pc = "append" /\ (pc' = "commit" \/ Raise)
    BY <1>6 DEF AppendRecord, Goto
  <2>2. pc' # "validate"
    BY <2>1, RaiseIs, StopFits
  <2>3. QED
    BY <2>1, <2>2
<1>7. CASE Commit
  <2>1. pc = "commit" /\ AfterCommit
    BY <1>7 DEF Commit
  <2>2. pc' # "validate"
    BY <2>1, AfterCommitIs, StopFits
  <2>3. QED
    BY <2>1, <2>2
<1>8. CASE EndOfLegs \/ Annotate \/ GitRevert \/ GitConflict \/ RestoreRecord
  BY <1>8, EndOfLegsIs, AnnotateIs, GitRevertIs, GitConflictIs, RestoreRecordIs
<1>9. CASE \E s \in DOMAIN jtree : Reverify(s) \/ Revert(s)
  BY <1>9, ReverifyIs, RevertIs DEF Reverify, StartsOn, Revert
<1>10. CASE DiscardLeftovers \/ CommitLeftovers
  BY <1>10 DEF DiscardLeftovers, CommitLeftovers
<1>11. CASE UNCHANGED vars
  BY <1>11 DEF vars
<1>12. QED
  BY <1>1, <1>2, <1>3, <1>4, <1>5, <1>6, <1>7, <1>8, <1>9, <1>10, <1>11 DEF Next

\* A refused plan leaves nothing behind: no view is written before the last item of the
\* plan is valid. For any operator and any commits that fail.
THEOREM RefusalLeavesNoTraceHolds == Spec => RefusalLeavesNoTrace
<1> DEFINE Intact == pc = "validate" => tree = job.old
<1>1. Init => Intact
  BY DEF Init
<1>2. ASSUME Structure, Intact, [Next]_vars PROVE Intact'
  <2> SUFFICES ASSUME pc' = "validate" PROVE tree' = job'.old
    OBVIOUS
  <2>1. CASE pc = "idle"
    <3>1. PICK W \in (SUBSET Views) \ {{}} : Begin(W)
      BY <1>2, <2>1, BeginOnly
    <3>2. QED
      BY <1>2, <3>1, BeginIs
  <2>2. CASE pc # "idle"
    BY <1>2, <2>2, ValidatesOnly
  <2>3. QED
    BY <2>1, <2>2
<1>3. ASSUME Structure, Intact, [Next]_vars, pc = "validate", pc' = "idle"
      PROVE  tree' = job.old /\ jtree' = jtree
  BY <1>3, ValidatesOnly
<1>4. Structure /\ Intact /\ [Next]_vars =>
        [(pc = "validate" /\ pc' = "idle") => tree' = job.old /\ jtree' = jtree]_vars
  BY <1>3
<1>5. QED
  BY <1>1, <1>2, <1>4, InitStructure, StructureStep, PTL DEF Spec, RefusalLeavesNoTrace

-----------------------------------------------------------------------------
\* The commits of a branch against the abstract history.

Entry(r) == [kind |-> r.kind, id |-> r.id, over |-> r.over]
LogOf(j) == [s \in 1..Size(j) |-> Entry(j[s])]
Text == [v \in Views |-> head[v].body]

LEMMA LogIs == Log = LogOf(jhead)
  BY DEF Log, LogOf, Entry

LEMMA GrownLog ==
  ASSUME NEW j, NEW r, NEW k, Grown(j, r, k)
  PROVE  LogOf(k) = Append(LogOf(j), Entry(r))
<1>1. /\ Size(j) \in Nat /\ Size(k) = Size(j) + 1 /\ k[Size(j) + 1] = r
      /\ \A s \in 1..Size(j) : k[s] = j[s]
  BY DEF Grown
<1> DEFINE n == Size(j)
           log == LogOf(j)
           S == {log[s] : s \in 1..n} \cup {Entry(r)}
<1>2. DOMAIN log = 1..n /\ log \in [1..n -> S]
  BY DEF LogOf
<1>3. log \in Seq(S) /\ Len(log) = n
  BY <1>1, <1>2
<1>4. LogOf(k) = [s \in 1..n + 1 |-> IF s = n + 1 THEN Entry(r) ELSE log[s]]
  BY <1>1 DEF LogOf
<1> HIDE DEF log, n
<1>5. Append(log, Entry(r)) = [s \in 1..n + 1 |-> IF s = n + 1 THEN Entry(r) ELSE log[s]]
  <2> DEFINE grown == Append(log, Entry(r))
  <2>1. Entry(r) \in S /\ n \in Nat
    BY <1>1 DEF n
  <2> HIDE DEF S
  <2>2. grown \in Seq(S) /\ Len(grown) = n + 1 /\ grown[n + 1] = Entry(r)
        /\ \A s \in 1..n : grown[s] = log[s]
    BY <1>3, <2>1
  <2> HIDE DEF grown
  <2>3. grown = [s \in 1..n + 1 |-> grown[s]]
    BY <2>1, <2>2
  <2>4. \A s \in 1..n + 1 : s = n + 1 \/ s \in 1..n
    BY <2>1
  <2>5. \A s \in 1..n + 1 : grown[s] = IF s = n + 1 THEN Entry(r) ELSE log[s]
    BY <2>1, <2>2, <2>4
  <2>6. grown = [s \in 1..n + 1 |-> IF s = n + 1 THEN Entry(r) ELSE log[s]]
    BY <2>3, <2>5
  <2>7. QED
    BY <2>6 DEF grown
<1>6. QED
  BY <1>4, <1>5 DEF log

\* A number is that of one record, between 1 and the bound.
LEMMA NumbersAre ==
  ASSUME Structure, NEW s \in DOMAIN jtree
  PROVE  jtree[s].id \in 1..MaxRecords
<1>1. /\ JournalType(jtree, made) /\ made \in 0..MaxRecords /\ MaxRecords \in Nat
  BY KindsAre DEF Structure, Typed
<1>2. jtree[s].id \in Nat /\ s \in Nat \ {0} /\ s <= jtree[s].id /\ jtree[s].id <= made
  BY <1>1 DEF JournalType, RecType
<1>3. QED
  BY <1>1, <1>2

LEMMA AbsorbMaps ==
  ASSUME Structure, Sound, NEW s \in DOMAIN jtree, s \notin DOMAIN jhead,
         jtree[s].kind = "compile", jhead' = jtree,
         \A v \in Views :
           head'[v].body = IF v \in DOMAIN jtree[s].wrote THEN jtree[s].id ELSE head[v].body
  PROVE  History!Absorb
<1> DEFINE r == jtree[s]
           W == DOMAIN r.wrote
<1>1. Grown(jhead, r, jtree) /\ NewRecord(s)
  BY NewIsNext
<1>2. Log' = Append(Log, Entry(r))
  <2>1. Log' = LogOf(jtree)
    BY DEF Log, LogOf, Entry
  <2>2. LogOf(jtree) = Append(LogOf(jhead), Entry(r))
    BY <1>1, GrownLog
  <2>3. QED
    BY <2>1, <2>2, LogIs
<1>3. r.over = 0 /\ W # {} /\ \A q \in DOMAIN jhead : jhead[q].id < r.id
  BY <1>1 DEF NewRecord
<1>4. r.id \in 1..MaxRecords
  BY NumbersAre
<1>5. W \in (SUBSET Views) \ {{}}
  <2>1. s \in Runs(jtree)
    BY DEF Runs
  <2>2. W \subseteq Views
    BY <2>1, JournalsAre, RunsAre
  <2>3. QED
    BY <1>3, <2>2
<1>6. \A n \in DOMAIN Log : Log[n].id # r.id
  <2>1. DOMAIN Log = DOMAIN jhead /\ \A n \in DOMAIN Log : Log[n].id = jhead[n].id
    BY JournalsAre DEF Log
  <2>2. \A n \in DOMAIN jhead : jhead[n].id \in Nat
    BY JournalsAre DEF JournalType, RecType
  <2>3. QED
    BY <1>3, <1>4, <2>1, <2>2
<1>7. Entry(r) = [kind |-> "compile", id |-> r.id, over |-> 0]
  BY <1>3 DEF Entry
<1>8. Text' = [v \in Views |-> IF v \in W THEN r.id ELSE Text[v]]
  BY DEF Text
<1>9. QED
  BY <1>2, <1>4, <1>5, <1>6, <1>7, <1>8 DEF History!Absorb, Text

\* A record that changes no text, and one that takes a run's text back.
LEMMA NoteMaps ==
  ASSUME Structure, Sound, NEW s \in DOMAIN jtree, s \notin DOMAIN jhead,
         jtree[s].kind \in {"verify", "revert-failed"}, jhead' = jtree,
         \A v \in Views : head'[v].body = head[v].body
  PROVE  History!Note
<1> DEFINE r == jtree[s]
<1>1. Grown(jhead, r, jtree) /\ r.over \in Runs(jhead)
  BY NewIsNext DEF NextRecord
<1>2. Log' = Append(Log, Entry(r))
  <2>1. Log' = LogOf(jtree)
    BY DEF Log, LogOf, Entry
  <2>2. LogOf(jtree) = Append(LogOf(jhead), Entry(r))
    BY <1>1, GrownLog
  <2>3. QED
    BY <2>1, <2>2, LogIs
<1>3. r.over \in DOMAIN Log
  BY <1>1, JournalsAre DEF Log, Runs
<1>4. Text' = Text
  BY DEF Text
<1>5. QED
  BY <1>2, <1>3, <1>4, NumbersAre DEF History!Note, Text, Entry

LEMMA RevertMaps ==
  ASSUME Structure, Sound, NEW s \in DOMAIN jtree, s \notin DOMAIN jhead,
         jtree[s].kind = "revert", jhead' = jtree, JournalSound(jhead', head'),
         NEW o \in Runs(jhead), jtree[s].over = o,
         \A v \in DOMAIN jhead[o].wrote : /\ head[v].body = jhead[o].id
                                          /\ head'[v].body = jhead[o].before[v].body,
         \A v \in Views \ DOMAIN jhead[o].wrote : head'[v].body = head[v].body,
         o \notin Reverted(jhead)
  PROVE  History!Revert
<1> DEFINE r == jtree[s]
<1>1. Grown(jhead, r, jtree)
  BY NewIsNext
<1>2. Log' = Append(Log, Entry(r))
  <2>1. Log' = LogOf(jtree)
    BY DEF Log, LogOf, Entry
  <2>2. LogOf(jtree) = Append(LogOf(jhead), Entry(r))
    BY <1>1, GrownLog
  <2>3. QED
    BY <2>1, <2>2, LogIs
<1>3. o \in DOMAIN Log /\ Log[o].id = jhead[o].id
  BY JournalsAre DEF Log, Runs
<1>4. /\ JournalType(jtree, made) /\ JournalType(jhead, made) /\ JournalSound(jhead, head)
      /\ DOMAIN jhead = 1..Size(jhead) /\ Size(jhead) \in Nat
      /\ Growing(jhead) /\ Stacked(jhead, head) /\ Stacked(jtree, head')
  BY JournalsAre DEF JournalSound
<1>5. \A q \in DOMAIN jhead : q \in Nat \ {0} /\ jhead[q].id \in Nat /\ q <= jhead[q].id
  BY <1>4 DEF JournalType, RecType
<1>6. o \in DOMAIN jhead /\ jhead[o].id \in Nat /\ jhead[o].id # 0
  BY <1>5 DEF Runs
<1>7. ASSUME NEW v \in Views, Text[v] = jhead[o].id PROVE v \in DOMAIN jhead[o].wrote
  <2>1. OnTop(jhead, v, Size(jhead) + 1, head[v].body) /\ head[v].body = jhead[o].id
    BY <1>4, <1>7 DEF Stacked, Text
  <2>2. PICK w \in Standing(jhead, v) : jhead[o].id = jhead[w].id
    BY <1>6, <2>1 DEF OnTop, Below
  <2>3. w \in DOMAIN jhead /\ v \in DOMAIN jhead[w].wrote
    BY <2>2 DEF Standing, Runs
  <2>4. ~(w < o) /\ ~(o < w) /\ w \in Nat /\ o \in Nat
    BY <1>4, <1>5, <1>6, <2>2, <2>3 DEF Growing
  <2>5. w = o
    BY <2>4
  <2>6. QED
    BY <2>3, <2>5
<1>8. ASSUME NEW v \in Views, v \in DOMAIN jhead[o].wrote PROVE Text'[v] # jhead[o].id
  <2>1. o \in Standing(jhead, v)
    BY <1>8 DEF Standing
  <2>2. OnTop(jhead, v, o, jhead[o].before[v].body)
    BY <1>4, <2>1 DEF Stacked
  <2>3. \A w \in Below(jhead, v, o) : w \in DOMAIN jhead /\ w < o
    BY DEF Below, Standing, Runs
  <2>4. \A w \in Below(jhead, v, o) : jhead[w].id < jhead[o].id /\ jhead[w].id \in Nat
    BY <1>4, <1>5, <1>6, <2>3 DEF Growing
  <2>5. jhead[o].before[v].body # jhead[o].id
    BY <1>6, <2>2, <2>4 DEF OnTop
  <2>6. QED
    BY <1>8, <2>5 DEF Text
<1>9. ASSUME NEW v \in Views, v \notin DOMAIN jhead[o].wrote PROVE Text'[v] = Text[v]
  BY <1>9 DEF Text
<1>10. Text' \in [Views -> 1..MaxRecords \cup {0}]
  <2>1. ASSUME NEW v \in Views PROVE head'[v].body \in 1..MaxRecords \cup {0}
    <3>1. OnTop(jtree, v, Size(jtree) + 1, head'[v].body)
      BY <1>4 DEF Stacked
    <3>2. \A w \in Below(jtree, v, Size(jtree) + 1) : w \in DOMAIN jtree
      BY DEF Below, Standing, Runs
    <3>3. QED
      BY <3>1, <3>2, NumbersAre DEF OnTop
  <2>2. QED
    BY <2>1 DEF Text
<1>11. /\ \A v \in Views : Text[v] = Log[o].id => Text'[v] # Log[o].id
       /\ \A v \in Views : Text[v] # Log[o].id => Text'[v] = Text[v]
  <2>1. \A v \in DOMAIN jhead[o].wrote : v \in Views => Text[v] = jhead[o].id
    BY DEF Text
  <2>2. QED
    BY <1>3, <1>7, <1>8, <1>9, <2>1
<1>12. r.id \in 1..MaxRecords
  BY NumbersAre
<1>13. Entry(r) = [kind |-> "revert", id |-> r.id, over |-> o]
  BY DEF Entry
<1>14. QED
  BY <1>2, <1>3, <1>10, <1>11, <1>12, <1>13 DEF History!Revert, Text

\* Only a commit changes what a branch holds.
LEMMA HistorySteps ==
  ASSUME [Next]_vars
  PROVE  Commit \/ CommitLeftovers \/ UNCHANGED <<head, jhead>>
<1>1. \A W : Begin(W) => UNCHANGED <<head, jhead>>
  BY DEF Begin
<1>2. \A v : Validate(v) \/ WriteView(v) \/ Leg(v) \/ RestoreView(v) => UNCHANGED <<head, jhead>>
  BY DEF Validate, WriteView, Leg, RestoreView
<1>3. RefuseItem \/ StepFails \/ AppendRecord \/ CommitFails \/ EndOfLegs \/ Annotate
        => UNCHANGED <<head, jhead>>
  BY DEF RefuseItem, StepFails, AppendRecord, CommitFails, EndOfLegs, Annotate
<1>4. GitRevert \/ GitConflict \/ RestoreRecord \/ Crash \/ DiscardLeftovers
        => UNCHANGED <<head, jhead>>
  BY DEF GitRevert, GitConflict, RestoreRecord, Crash, DiscardLeftovers
<1>5. \A s : Reverify(s) \/ Revert(s) => UNCHANGED <<head, jhead>>
  BY DEF Reverify, Revert
<1>6. UNCHANGED vars => UNCHANGED <<head, jhead>>
  BY DEF vars
<1>7. QED
  BY <1>1, <1>2, <1>3, <1>4, <1>5, <1>6 DEF Next

LEMMA CommitMaps ==
  ASSUME Structure, Sound, Commit
  PROVE  History!Next \/ UNCHANGED <<Log, Text>>
<1>1. /\ pc = "commit" /\ jhead' = jtree /\ job.at \in DOMAIN jtree
      /\ \A v \in Views : head'[v] = IF v \in job.paths THEN tree[v] ELSE head[v]
  BY CommitIs
<1>2. JournalSound(jhead', head')
  BY CommitJournal
<1>3. job.paths \subseteq Views
  BY DEF Structure, Typed, JobType
<1> DEFINE at == job.at
           r == jtree[at]
<1>4. CASE job.kind = "annotation"
  <2>1. /\ at = Size(jhead) /\ at \in DOMAIN jhead /\ DOMAIN jtree = DOMAIN jhead
        /\ \A q \in DOMAIN jhead \ {at} : jtree[q] = jhead[q]
        /\ r = [jhead[at] EXCEPT !.annotated = TRUE] /\ jhead[at] \in RecType
    BY <1>1, <1>4, JournalsAre DEF Sound, SessionSound, TreePhase, JournalType
  <2>2. \A v \in Views : head'[v].body = head[v].body
    BY <1>1, <1>4 DEF Sound, SessionSound, VerifyPhase, SameBody
  <2>3. \A q \in DOMAIN jhead : Entry(jtree[q]) = Entry(jhead[q])
    BY <2>1 DEF Entry, RecType
  <2>4. Size(jtree) = Size(jhead) /\ DOMAIN jhead = 1..Size(jhead)
    BY <2>1, JournalsAre DEF Size
  <2>5. LogOf(jtree) = LogOf(jhead)
    BY <2>3, <2>4 DEF LogOf
  <2>6. Log' = LogOf(jtree)
    BY <1>1 DEF Log, LogOf, Entry
  <2>7. Text' = Text
    BY <2>2 DEF Text
  <2>8. QED
    BY <2>5, <2>6, <2>7, LogIs
<1>5. CASE job.kind # "annotation"
  <2>1. /\ at \notin DOMAIN jhead /\ r.kind = job.kind /\ r.id = job.id
        /\ IF job.kind = "compile" THEN DOMAIN r.wrote = job.paths ELSE r.over = job.seq
    BY <1>1, <1>5 DEF Sound, SessionSound, TreePhase
  <2>2. r.kind \in Kinds \ {"annotation"}
    BY <1>1, JournalsAre DEF JournalType, RecType
  <2>3. CASE job.kind = "compile"
    <3>1. \A v \in Views : head'[v].body = IF v \in DOMAIN r.wrote THEN r.id ELSE head[v].body
      BY <1>1, <2>1, <2>3 DEF Sound, SessionSound, RunPhase
    <3>2. History!Absorb
      BY <1>1, <2>1, <2>3, <3>1, AbsorbMaps
    <3>3. QED
      BY <3>2 DEF History!Next
  <2>4. CASE job.kind = "revert"
    <3>1. r.over = job.seq /\ Stands(job.seq) /\ job.paths = DOMAIN jhead[job.seq].wrote
          /\ \A v \in job.paths : /\ head[v].body = jhead[job.seq].id
                                  /\ tree[v].body = jhead[job.seq].before[v].body
      BY <2>1, <2>4 DEF Sound, SessionSound, RevertPhase
    <3>2. job.seq \in Runs(jhead) /\ job.seq \notin Reverted(jhead)
      BY <3>1 DEF Stands
    <3>3. \A v \in job.paths : /\ head[v].body = jhead[job.seq].id
                               /\ head'[v].body = jhead[job.seq].before[v].body
      BY <1>1, <1>3, <3>1
    <3>4. \A v \in Views \ job.paths : head'[v].body = head[v].body
      BY <1>1
    <3>5. History!Revert
      BY <1>1, <1>2, <2>1, <2>4, <3>1, <3>2, <3>3, <3>4, RevertMaps
    <3>6. QED
      BY <3>5 DEF History!Next
  <2>5. CASE job.kind \in {"verify", "revert-failed"}
    <3>1. \A v \in job.paths : SameBody(v)
      BY <2>5 DEF Sound, SessionSound, VerifyPhase, RevertPhase
    <3>2. \A v \in Views : head'[v].body = head[v].body
      BY <1>1, <3>1 DEF SameBody
    <3>3. History!Note
      BY <1>1, <2>1, <2>5, <3>2, NoteMaps
    <3>4. QED
      BY <3>3 DEF History!Next
  <2>6. QED
    BY <2>1, <2>2, <2>3, <2>4, <2>5, KindsAre
<1>6. QED
  BY <1>4, <1>5

\* The commits of a branch are those of the abstract history: a commit adds one record,
\* and a view's text changes only with the record that says why.
THEOREM HistoryImplemented == Cleared => (Spec => ImplementsHistory)
<1> SUFFICES ASSUME Cleared PROVE Spec => ImplementsHistory
  OBVIOUS
<1>1. Init => History!Init
  <2> SUFFICES ASSUME Init PROVE History!Init
    OBVIOUS
  <2>1. jhead = << >> /\ DOMAIN jhead = 1..0 /\ \A v \in Views : head[v].body = 0
    BY DEF Init
  <2>2. Size(jhead) = 0
    BY <2>1, SizeIs
  <2>3. Log = << >>
    BY <2>2 DEF Log
  <2>4. QED
    BY <2>1, <2>3 DEF History!Init
<1>2. Structure /\ Sound /\ [Next]_vars => [History!Next]_<<Log, Text>>
  <2> SUFFICES ASSUME Structure, Sound, [Next]_vars
               PROVE  History!Next \/ UNCHANGED <<Log, Text>>
    OBVIOUS
  <2>1. CASE Commit
    BY <2>1, CommitMaps
  <2>2. CASE CommitLeftovers
    <3>1. PICK s \in Runs(jtree) :
            /\ DOMAIN jtree \ DOMAIN jhead = {s}
            /\ \A v \in Views : tree[v] = IF v \in Absorbed(s) THEN jtree[s].wrote[v] ELSE head[v]
      BY <2>2 DEF CommitLeftovers
    <3>2. head' = tree /\ jhead' = jtree
      BY <2>2 DEF CommitLeftovers
    <3>3. s \in DOMAIN jtree /\ s \notin DOMAIN jhead /\ jtree[s].kind = "compile"
      BY <3>1 DEF Runs
    <3>4. \A v \in DOMAIN jtree[s].wrote : jtree[s].wrote[v].body = jtree[s].id
      BY <3>3, NewIsNext DEF NewRecord
    <3>5. \A v \in Views :
            head'[v].body = IF v \in DOMAIN jtree[s].wrote THEN jtree[s].id ELSE head[v].body
      BY <3>1, <3>2, <3>4 DEF Absorbed
    <3>6. History!Absorb
      BY <3>2, <3>3, <3>5, AbsorbMaps
    <3>7. QED
      BY <3>6 DEF History!Next
  <2>3. CASE UNCHANGED <<head, jhead>>
    BY <2>3 DEF Log, Text, Size
  <2>4. QED
    BY <2>1, <2>2, <2>3, HistorySteps
<1>3. QED
  BY <1>1, <1>2, SoundAlways, PTL DEF Spec, ImplementsHistory, History!Spec, Text

-----------------------------------------------------------------------------
\* The runs of a branch against the ledger that the driver promises.

State(j, s) == IF s \in Reverted(j) THEN "reverted"
               ELSE IF Terminal(j, s) THEN "verified" ELSE "open"
Entries(j) == [s \in Runs(j) |-> State(j, s)]

Ledger == INSTANCE RunLedger WITH ledger <- Entries(jhead)

\* A record speaks of one run: the others keep their state.
LEMMA GrownStates ==
  ASSUME NEW j, NEW r, NEW k, Grown(j, r, k), Chained(j)
  PROVE  /\ r.kind # "compile" => Runs(k) = Runs(j)
         /\ \A s : r.kind = "compile" \/ s # r.over => State(k, s) = State(j, s)
<1>1. /\ Runs(k) = Runs(j) \cup (IF r.kind = "compile" THEN {Size(j) + 1} ELSE {})
      /\ Reverted(k) = Reverted(j) \cup (IF r.kind = "revert" THEN {r.over} ELSE {})
      /\ \A s : Terminal(j, s) => Terminal(k, s)
  BY GrownSets
<1>2. /\ DOMAIN k = DOMAIN j \cup {Size(j) + 1} /\ k[Size(j) + 1] = r
      /\ \A q \in DOMAIN j : k[q] = j[q]
  BY DEF Grown
<1>3. ASSUME NEW s, r.kind = "compile" \/ s # r.over PROVE State(k, s) = State(j, s)
  <2>1. s \in Reverted(k) <=> s \in Reverted(j)
    BY <1>1, <1>3
  <2>2. Covering(k, s) = Covering(j, s)
    BY <1>2, <1>3 DEF Covering
  <2>3. \A q \in Covering(j, s) : k[q] = j[q]
    BY <1>2 DEF Covering
  <2>4. QED
    BY <2>1, <2>2, <2>3 DEF State, Terminal
<1>4. QED
  BY <1>1, <1>3

\* A committed run enters the ledger above all others, open, when none of those is.
LEMMA RunEnters ==
  ASSUME Structure, Sound, NEW s \in DOMAIN jtree, s \notin DOMAIN jhead,
         jtree[s].kind = "compile", jhead' = jtree
  PROVE  Ledger!Start
<1>1. /\ Grown(jhead, jtree[s], jtree) /\ NewRecord(s) /\ AllClosed(jhead)
  BY NewIsNext DEF NextRecord
<1>2. /\ Chained(jhead) /\ OverFits(jhead) /\ Size(jhead) \in Nat /\ s = Size(jhead) + 1
      /\ DOMAIN jhead = 1..Size(jhead)
  BY <1>1, JournalsAre DEF JournalSound, NewRecord
<1>3. Runs(jtree) = Runs(jhead) \cup {s} /\ Runs(jhead) \subseteq 1..Size(jhead)
  BY <1>1, <1>2, GrownSets
<1>4. State(jtree, s) = "open"
  <2>1. \A q \in DOMAIN jhead : jhead[q].kind # "compile" => jhead[q].over # s
    BY <1>2, <1>3 DEF OverFits
  <2>2. s \notin Reverted(jhead)
    BY <2>1 DEF Reverted
  <2>3. Covering(jhead, s) = {}
    BY <2>1 DEF Covering
  <2>4. State(jhead, s) = "open"
    BY <2>2, <2>3 DEF State, Terminal
  <2>5. QED
    BY <1>1, <1>2, <2>4, GrownStates
<1>5. \A m \in Runs(jhead) : State(jtree, m) = State(jhead, m)
  BY <1>1, <1>2, GrownStates
<1>6. \A m \in Runs(jhead) : m < s /\ State(jhead, m) # "open"
  BY <1>1, <1>2, <1>3 DEF AllClosed, State
<1>7. Entries(jhead)' = [m \in Runs(jhead) \cup {s} |->
                           IF m = s THEN "open" ELSE Entries(jhead)[m]]
  BY <1>3, <1>4, <1>5 DEF Entries
<1>8. /\ DOMAIN Entries(jhead) = Runs(jhead) /\ DOMAIN Entries(jhead)' = Runs(jhead) \cup {s}
      /\ s \notin Runs(jhead)
  BY <1>7, <1>6, <1>2, <1>3 DEF Entries
<1>9. \A m \in DOMAIN Entries(jhead) : m < s /\ Entries(jhead)[m] # "open"
  BY <1>6 DEF Entries
<1>10. QED
  BY <1>7, <1>8, <1>9 DEF Ledger!Start

\* A record over a run changes at most that run's entry: a verification can close an
\* open one, and only a revert ends one that is not reverted.
LEMMA RecordEnters ==
  ASSUME Structure, Sound, NEW s \in DOMAIN jtree, s \notin DOMAIN jhead,
         jtree[s].kind \in {"verify", "revert-failed", "revert"}, jhead' = jtree,
         jtree[s].kind = "revert" => jtree[s].over \notin Reverted(jhead)
  PROVE  Ledger!Next \/ UNCHANGED Entries(jhead)
<1> DEFINE r == jtree[s]
           o == r.over
<1>1. Grown(jhead, r, jtree) /\ o \in Runs(jhead) /\ Chained(jhead)
  BY NewIsNext, JournalsAre DEF NextRecord
<1>2. Runs(jtree) = Runs(jhead) /\ \A q : q # o => State(jtree, q) = State(jhead, q)
  BY <1>1, GrownStates
<1>3. Entries(jhead)' = [Entries(jhead) EXCEPT ![o] = State(jtree, o)]
  BY <1>1, <1>2 DEF Entries
<1>4. /\ o \in DOMAIN Entries(jhead) /\ Entries(jhead)[o] = State(jhead, o)
      /\ State(jtree, o) = State(jhead, o) => UNCHANGED Entries(jhead)
  BY <1>1, <1>2 DEF Entries
<1>5. /\ Reverted(jtree) = Reverted(jhead) \cup (IF r.kind = "revert" THEN {o} ELSE {})
      /\ Terminal(jhead, o) => Terminal(jtree, o)
  BY <1>1, GrownSets
<1>6. CASE r.kind = "revert"
  <2>1. State(jhead, o) # "reverted" /\ State(jtree, o) = "reverted"
    BY <1>5, <1>6 DEF State
  <2>2. Ledger!Revert
    BY <1>3, <1>4, <2>1 DEF Ledger!Revert
  <2>3. QED
    BY <2>2 DEF Ledger!Next
<1>7. CASE r.kind # "revert"
  <2>1. \/ State(jtree, o) = State(jhead, o)
        \/ State(jhead, o) = "open" /\ State(jtree, o) = "verified"
    BY <1>5, <1>7 DEF State
  <2>2. CASE State(jhead, o) = "open" /\ State(jtree, o) = "verified"
    <3>1. Ledger!Verify
      BY <1>3, <1>4, <2>2 DEF Ledger!Verify
    <3>2. QED
      BY <3>1 DEF Ledger!Next
  <2>3. QED
    BY <1>4, <2>1, <2>2
<1>8. QED
  BY <1>6, <1>7

LEMMA AnnotationEnters ==
  ASSUME Structure, Sound, Commit, job.kind = "annotation"
  PROVE  UNCHANGED Entries(jhead)
<1>1. pc = "commit" /\ jhead' = jtree
  BY CommitIs
<1>2. /\ job.at \in DOMAIN jhead /\ DOMAIN jtree = DOMAIN jhead
      /\ \A q \in DOMAIN jhead \ {job.at} : jtree[q] = jhead[q]
      /\ jtree[job.at] = [jhead[job.at] EXCEPT !.annotated = TRUE] /\ jhead[job.at] \in RecType
  BY <1>1, JournalsAre DEF Sound, SessionSound, TreePhase, JournalType
<1>3. \A q \in DOMAIN jhead : /\ jtree[q].kind = jhead[q].kind /\ jtree[q].over = jhead[q].over
                              /\ jtree[q].complete = jhead[q].complete
  BY <1>2 DEF RecType
<1>4. Runs(jtree) = Runs(jhead)
  BY <1>2, <1>3 DEF Runs
<1>5. {q \in DOMAIN jtree : jtree[q].kind = "revert"} = {q \in DOMAIN jhead : jhead[q].kind = "revert"}
  BY <1>2, <1>3
<1>6. Reverted(jtree) = Reverted(jhead)
  BY <1>3, <1>5 DEF Reverted
<1>7. \A q : Covering(jtree, q) = Covering(jhead, q)
  BY <1>2, <1>3 DEF Covering
<1>8. \A q : Terminal(jtree, q) <=> Terminal(jhead, q)
  BY <1>3, <1>6, <1>7 DEF Terminal, Covering
<1>9. QED
  BY <1>1, <1>4, <1>6, <1>8 DEF Entries, State

\* Whatever fails or is killed between two files of a run, the commits of a branch keep
\* the ledger of runs: a run is committed over no open one, and what a verification or
\* a revert says of it is taken back by nothing but a revert.
THEOREM LedgerKept == Cleared => (Spec => Ledger!Spec)
<1> SUFFICES ASSUME Cleared PROVE Spec => Ledger!Spec
  OBVIOUS
<1>1. Init => Ledger!Init
  <2>1. Init => Runs(jhead) = {}
    BY DEF Init, Runs
  <2>2. QED
    BY <2>1 DEF Ledger!Init, Entries
<1>2. Structure /\ Sound /\ [Next]_vars => [Ledger!Next]_(Entries(jhead))
  <2> SUFFICES ASSUME Structure, Sound, [Next]_vars
               PROVE  Ledger!Next \/ UNCHANGED Entries(jhead)
    OBVIOUS
  <2>1. CASE Commit /\ job.kind = "annotation"
    BY <2>1, AnnotationEnters
  <2>2. CASE Commit /\ job.kind # "annotation"
    <3> DEFINE at == job.at
    <3>1. /\ pc = "commit" /\ jhead' = jtree /\ at \in DOMAIN jtree
      BY <2>2, CommitIs
    <3>2. /\ at \notin DOMAIN jhead /\ jtree[at].kind = job.kind
          /\ job.kind # "compile" => jtree[at].over = job.seq
      BY <2>2, <3>1 DEF Sound, SessionSound, TreePhase
    <3>3. jtree[at].kind \in Kinds \ {"annotation"}
      BY <3>1, JournalsAre DEF JournalType, RecType
    <3>4. job.kind = "revert" => job.seq \notin Reverted(jhead)
      BY DEF Sound, SessionSound, RevertPhase, Stands
    <3>5. CASE job.kind = "compile"
      <4>1. Ledger!Start
        BY <3>1, <3>2, <3>5, RunEnters
      <4>2. QED
        BY <4>1 DEF Ledger!Next
    <3>6. CASE job.kind # "compile"
      <4>1. jtree[at].kind \in {"verify", "revert-failed", "revert"}
        BY <3>2, <3>3, <3>6, KindsAre
      <4>2. QED
        BY <3>1, <3>2, <3>4, <3>6, <4>1, RecordEnters
    <3>7. QED
      BY <3>5, <3>6
  <2>3. CASE CommitLeftovers
    <3>1. PICK s \in Runs(jtree) : DOMAIN jtree \ DOMAIN jhead = {s}
      BY <2>3 DEF CommitLeftovers
    <3>2. jhead' = jtree /\ s \in DOMAIN jtree /\ s \notin DOMAIN jhead /\ jtree[s].kind = "compile"
      BY <2>3, <3>1 DEF CommitLeftovers, Runs
    <3>3. Ledger!Start
      BY <3>2, RunEnters
    <3>4. QED
      BY <3>3 DEF Ledger!Next
  <2>4. CASE UNCHANGED <<head, jhead>>
    BY <2>4
  <2>5. QED
    BY <2>1, <2>2, <2>3, <2>4, HistorySteps
<1>3. QED
  BY <1>1, <1>2, SoundAlways, PTL DEF Spec, Ledger!Spec
=============================================================================
