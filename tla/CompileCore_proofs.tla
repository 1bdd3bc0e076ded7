------------------------- MODULE CompileCore_proofs -------------------------
(***************************************************************************)
(* Proofs about the two locks of compile-core.py.                          *)
(*                                                                         *)
(* The journal's (SeqJournal): while no sequence lock goes stale - nobody  *)
(* is killed inside it, no living holder outlasts the timeout -, for any   *)
(* number of processes and chains, annotating verify runs included.        *)
(*                                                                         *)
(* The run lockfile's (RunLock): for runs that neither break nor force a   *)
(* lock, any number of runs and crashes, pids reused or not.               *)
(*                                                                         *)
(* And the two together: the run lock is what keeps writers off a chain    *)
(* whose last record waits to be annotated.                                *)
(***************************************************************************)
EXTENDS RunLock, SeqJournal, SequenceTheorems, TLAPS

CONSTANT PidOf  \* the pid each process of the journal runs under

-----------------------------------------------------------------------------
(* The journal and its sequence lock.                                      *)

NoExpiry == MayCrash = {} /\ SlowHolders = FALSE

\* Whoever is in the critical section owns the one lock file, a lock file
\* always belongs to somebody inside, and so no waiter ever finds it stale.
LockInv == /\ \A p \in Procs : pc[p] \in Critical => slock = [owner |-> p, old |-> FALSE]
           /\ slock # NoLock => slock.owner \in Procs /\ pc[slock.owner] \in Critical
           /\ \A p \in Procs : pc[p] # "unlink"

LockTypeOK == /\ slock \in SLocks
              /\ pc \in [Procs -> Steps]

-----------------------------------------------------------------------------
LEMMA StepLock ==
  ASSUME NoExpiry, LockTypeOK, LockInv, [Next]_vars
  PROVE  LockTypeOK' /\ LockInv'
<1> USE SeqJournalAssumption DEF LockTypeOK, LockInv, SLocks, Steps, Critical, Goto, NoLock
<1>1. ASSUME NEW p \in Procs, EnterLock(p) PROVE LockTypeOK' /\ LockInv'
  BY <1>1 DEF EnterLock
<1>2. ASSUME NEW p \in Procs, StatStale(p) \/ UnlinkStale(p) PROVE FALSE
  BY <1>2 DEF StatStale, UnlinkStale
<1>3. ASSUME NEW p \in Procs, AllocateSeq(p) PROVE LockTypeOK' /\ LockInv'
  BY <1>3 DEF AllocateSeq
<1>4. ASSUME NEW p \in Procs, TestFree(p) \/ WriteTemp(p) PROVE LockTypeOK' /\ LockInv'
  BY <1>4 DEF TestFree, WriteTemp
<1>5. ASSUME NEW p \in Procs, PublishRecord(p) PROVE LockTypeOK' /\ LockInv'
  BY <1>5 DEF PublishRecord
<1>6. ASSUME NEW p \in Procs, ExitLock(p) PROVE LockTypeOK' /\ LockInv'
  \* p owns the lock, so nobody else is inside and the path it removes is its own.
  BY <1>6 DEF ExitLock
<1>7. ASSUME NEW p \in Procs, TruncateOwnRecord(p) \/ RewriteOwnRecord(p)
      PROVE  LockTypeOK' /\ LockInv'
  BY <1>7 DEF TruncateOwnRecord, RewriteOwnRecord
<1>8. ASSUME NEW p \in Procs, WaitTimeout(p) PROVE LockTypeOK' /\ LockInv'
  BY <1>8 DEF WaitTimeout
<1>9. ASSUME NEW p \in Procs, Crash(p) PROVE FALSE
  BY <1>9 DEF Crash, NoExpiry
<1>10. CASE LockAges
  BY <1>10 DEF LockAges, NoExpiry
<1>11. CASE UNCHANGED vars
  BY <1>11 DEF vars
<1>12. QED
  BY <1>1, <1>2, <1>3, <1>4, <1>5, <1>6, <1>7, <1>8, <1>9, <1>10, <1>11 DEF Next, Run

THEOREM LockInvariant == NoExpiry => (Spec => [](LockTypeOK /\ LockInv))
<1> SUFFICES ASSUME NoExpiry PROVE Spec => [](LockTypeOK /\ LockInv)
  OBVIOUS
<1>1. Init => LockTypeOK /\ LockInv
  BY SeqJournalAssumption DEF Init, LockTypeOK, LockInv, SLocks, Steps, Critical, NoLock
<1>2. LockTypeOK /\ LockInv /\ [Next]_vars => (LockTypeOK /\ LockInv)'
  BY StepLock
<1>3. QED
  BY <1>1, <1>2, PTL DEF Spec

\* Two processes never allocate a seq at the same time, whichever chains and
\* worktrees they write to.
THEOREM SeqMutexHolds == NoExpiry => (Spec => []SeqMutex)
<1> SUFFICES ASSUME NoExpiry PROVE Spec => []SeqMutex
  OBVIOUS
<1>1. LockInv => SeqMutex
  BY DEF LockInv, SeqMutex
<1>2. QED
  BY <1>1, LockInvariant, PTL

-----------------------------------------------------------------------------
\* Every variable keeps its type, with or without crashes and stale locks.
LEMMA HashType == ASSUME NEW r \in Records PROVE Hash(r) \in Hashes
BY DEF Records, Hash, Hashes

\* An update at any index of a sequence, in its domain or not, gives a sequence.
LEMMA UpdateInSeq ==
  ASSUME NEW S, NEW s \in Seq(S), NEW i \in Nat, NEW e,
         i \in 1..Len(s) => e \in S
  PROVE  [s EXCEPT ![i] = e] \in Seq(S)
<1>1. CASE i \in 1..Len(s)
  BY <1>1, ExceptSeq
<1>2. CASE i \notin 1..Len(s)
  <2>1. DOMAIN s = 1..Len(s)
    OBVIOUS
  <2>2. [s EXCEPT ![i] = e] = s
    <3>1. s = [k \in 1..Len(s) |-> s[k]]
      OBVIOUS
    <3>2. QED
      BY <1>2, <2>1, <3>1
  <2>3. QED
    BY <2>2
<1>3. QED
  BY <1>1, <1>2

LEMMA StepType ==
  ASSUME TypeOK, [Next]_vars
  PROVE  TypeOK'
<1> USE SeqJournalAssumption DEF TypeOK, Goto
<1>1. ASSUME NEW p \in Procs, EnterLock(p) PROVE TypeOK'
  BY <1>1 DEF EnterLock, Steps, SLocks
<1>2. ASSUME NEW p \in Procs, StatStale(p) \/ UnlinkStale(p) \/ WaitTimeout(p)
      PROVE  TypeOK'
  BY <1>2 DEF StatStale, UnlinkStale, WaitTimeout, Steps, SLocks
<1>3. ASSUME NEW p \in Procs, AllocateSeq(p) PROVE TypeOK'
  <2>1. ChainOf[p] \in Chains /\ disk[ChainOf[p]] \in Seq(Records)
    OBVIOUS
  <2>2. HeadHash(ChainOf[p]) \in Hashes
    BY <2>1, HashType DEF HeadHash, Hashes
  <2>3. Len(disk[ChainOf[p]]) + 1 \in Nat
    BY <2>1
  <2>4. QED
    BY <1>3, <2>2, <2>3 DEF AllocateSeq, Steps
<1>4. ASSUME NEW p \in Procs, WriteTemp(p) PROVE TypeOK'
  <2>1. NewRecord(p) \in Records
    BY DEF NewRecord, Records, Forms
  <2>2. [seq |-> seq[p], rec |-> NewRecord(p)] \in [seq : Nat, rec : Records]
    BY <2>1
  <2> DEFINE T == {t \in tmp[ChainOf[p]] : t.seq # seq[p]}
                    \cup {[seq |-> seq[p], rec |-> NewRecord(p)]}
  <2>3. tmp' \in [Chains -> SUBSET [seq : Nat, rec : Records]]
    <3>1. T \in SUBSET [seq : Nat, rec : Records]
      BY <2>2
    <3>2. tmp' = [tmp EXCEPT ![ChainOf[p]] = T]
      BY <1>4 DEF WriteTemp
    <3>3. QED
      BY <3>1, <3>2
  <2>4. pc' \in [Procs -> Steps]
    BY <1>4 DEF WriteTemp, Steps
  <2>5. QED
    BY <1>4, <2>3, <2>4 DEF WriteTemp
<1>5. ASSUME NEW p \in Procs, PublishRecord(p) PROVE TypeOK'
  <2> DEFINE c == ChainOf[p]
             mine == {t \in tmp[c] : t.seq = seq[p]}
  <2>1. CASE mine = {}
    BY <1>5, <2>1 DEF PublishRecord, Steps
  <2>2. CASE mine # {}
    <3>1. PICK t \in mine :
            /\ Goto(p, "replace", "exit")
            /\ disk' = [disk EXCEPT ![c] = IF seq[p] <= Len(@)
                                            THEN [@ EXCEPT ![seq[p]] = t.rec]
                                            ELSE Append(@, t.rec)]
            /\ tmp' = [tmp EXCEPT ![c] = @ \ {t}]
      BY <1>5, <2>2 DEF PublishRecord
    <3>2. c \in Chains /\ disk[c] \in Seq(Records) /\ t.rec \in Records
      OBVIOUS
    <3>3. [disk[c] EXCEPT ![seq[p]] = t.rec] \in Seq(Records)
      BY <3>2, UpdateInSeq
    <3>4. Append(disk[c], t.rec) \in Seq(Records)
      BY <3>2
    <3>5. disk' \in [Chains -> Seq(Records)]
      BY <3>1, <3>2, <3>3, <3>4
    <3>6. tmp' \in [Chains -> SUBSET [seq : Nat, rec : Records]]
      BY <3>1
    <3>7. QED
      BY <1>5, <3>1, <3>5, <3>6 DEF PublishRecord, Steps
  <2>3. QED
    BY <2>1, <2>2
<1>6. ASSUME NEW p \in Procs, ExitLock(p) PROVE TypeOK'
  BY <1>6 DEF ExitLock, Steps, SLocks
<1>7. ASSUME NEW p \in Procs, TruncateOwnRecord(p) \/ RewriteOwnRecord(p) PROVE TypeOK'
  <2>1. ASSUME NEW form \in Forms, SetForm(p, form)
        PROVE  disk' \in [Chains -> Seq(Records)]
    <3>1. disk[ChainOf[p]] \in Seq(Records)
      OBVIOUS
    <3> DEFINE s == disk[ChainOf[p]]
               r == [s[seq[p]] EXCEPT !.form = form]
    <3>2. seq[p] \in 1..Len(s) => r \in Records
      <4> SUFFICES ASSUME seq[p] \in 1..Len(s) PROVE r \in Records
        OBVIOUS
      <4>1. s[seq[p]] \in Records
        BY <3>1, ElementOfSeq
      <4>2. QED
        BY <4>1, <2>1 DEF Records
    <3>3. [s EXCEPT ![seq[p]] = r] \in Seq(Records)
      BY <3>1, <3>2, UpdateInSeq
    <3>4. QED
      BY <2>1, <3>3 DEF SetForm
  <2>2. QED
    BY <1>7, <2>1 DEF TruncateOwnRecord, RewriteOwnRecord, Steps, Forms
<1>8. ASSUME NEW p \in Procs, Crash(p) PROVE TypeOK'
  BY <1>8 DEF Crash, Steps
<1>9. CASE LockAges
  BY <1>9 DEF LockAges, SLocks, NoLock
<1>10. CASE UNCHANGED vars
  BY <1>10 DEF vars
<1>11. ASSUME NEW p \in Procs, TestFree(p) PROVE TypeOK'
  BY <1>11 DEF TestFree, Steps
<1>12. QED
  BY <1>1, <1>2, <1>3, <1>4, <1>5, <1>6, <1>7, <1>8, <1>9, <1>10, <1>11 DEF Next, Run

THEOREM TypeCorrect == Spec => []TypeOK
<1>1. Init => TypeOK
  BY SeqJournalAssumption DEF Init, TypeOK, SLocks, Steps, Hashes
<1>2. TypeOK /\ [Next]_vars => TypeOK'
  BY StepType
<1>3. QED
  BY <1>1, <1>2, PTL DEF Spec

-----------------------------------------------------------------------------
\* The seq a process allocated stays the next free one until it publishes, and
\* the temporary file it renames is its own.
Temp(p) == {t \in tmp[ChainOf[p]] : t.seq = seq[p]}
JournalInv ==
  /\ \A p \in Procs : pc[p] \in {"test", "publish", "replace"} => seq[p] = Len(disk[ChainOf[p]]) + 1
  /\ \A p \in Procs : pc[p] = "replace" =>
                         Temp(p) = {[seq |-> seq[p], rec |-> NewRecord(p)]}
  /\ AppendedStays

IInv == TypeOK /\ LockTypeOK /\ LockInv /\ JournalInv

\* Publishing under the lock adds the process's own record at the end.
LEMMA PublishAppends ==
  ASSUME IInv, NEW p \in Procs, PublishRecord(p)
  PROVE  /\ disk' = [disk EXCEPT ![ChainOf[p]] = Append(@, NewRecord(p))]
         /\ pc[p] = "replace" /\ pc' = [pc EXCEPT ![p] = "exit"]
         /\ NewRecord(p) \in Records
<1> USE SeqJournalAssumption DEF IInv, TypeOK, JournalInv, Goto
<1>1. pc[p] = "replace"
  BY DEF PublishRecord
<1>2. Temp(p) = {[seq |-> seq[p], rec |-> NewRecord(p)]} /\ seq[p] = Len(disk[ChainOf[p]]) + 1
  BY <1>1
<1>3. ~(seq[p] <= Len(disk[ChainOf[p]]))
  <2>1. disk[ChainOf[p]] \in Seq(Records)
    OBVIOUS
  <2>2. QED
    BY <1>2, <2>1
<1>4. NewRecord(p) \in Records
  BY DEF NewRecord, Records, Forms
<1>5. PICK t \in Temp(p) :
        /\ Goto(p, "replace", "exit")
        /\ disk' = [disk EXCEPT ![ChainOf[p]] = IF seq[p] <= Len(@)
                                               THEN [@ EXCEPT ![seq[p]] = t.rec]
                                               ELSE Append(@, t.rec)]
  BY <1>2 DEF PublishRecord, Temp
<1>6. t.rec = NewRecord(p)
  BY <1>2, <1>5
<1>7. QED
  BY <1>1, <1>3, <1>4, <1>5, <1>6

\* The annotation changes the form of one record and nobody's authorship.
LEMMA SetFormKeepsAuthors ==
  ASSUME TypeOK, NEW p \in Procs, NEW form \in Forms, SetForm(p, form)
  PROVE  \A c \in Chains : /\ Len(disk'[c]) = Len(disk[c])
                           /\ DOMAIN disk'[c] = DOMAIN disk[c]
                           /\ \A n \in 1..Len(disk[c]) : disk'[c][n].by = disk[c][n].by
<1> USE SeqJournalAssumption DEF TypeOK
<1> SUFFICES ASSUME NEW c \in Chains
             PROVE  /\ Len(disk'[c]) = Len(disk[c])
                    /\ DOMAIN disk'[c] = DOMAIN disk[c]
                    /\ \A n \in 1..Len(disk[c]) : disk'[c][n].by = disk[c][n].by
  OBVIOUS
<1>1. CASE c # ChainOf[p]
  BY <1>1 DEF SetForm
<1>2. CASE c = ChainOf[p]
  <2> DEFINE s == disk[c]
             r == [s[seq[p]] EXCEPT !.form = form]
  <2>1. s \in Seq(Records) /\ disk'[c] = [s EXCEPT ![seq[p]] = r]
    BY <1>2 DEF SetForm
  <2>2. DOMAIN disk'[c] = DOMAIN s
    BY <2>1
  <2>3. Len(disk'[c]) = Len(s)
    BY <2>1, <2>2
  <2>4. ASSUME NEW n \in 1..Len(s) PROVE disk'[c][n].by = s[n].by
    <3>1. s[n] \in Records
      BY <2>1, ElementOfSeq
    <3>2. CASE n = seq[p]
      BY <2>1, <3>1, <3>2 DEF Records
    <3>3. CASE n # seq[p]
      BY <2>1, <3>3
    <3>4. QED
      BY <3>2, <3>3
  <2>5. QED
    BY <2>2, <2>3, <2>4
<1>3. QED
  BY <1>1, <1>2

LEMMA StepJournal ==
  ASSUME NoExpiry, IInv, TypeOK', LockInv', LockTypeOK', [Next]_vars
  PROVE  JournalInv'
<1> USE SeqJournalAssumption DEF IInv, TypeOK, JournalInv, AppendedStays, Appended, Goto, Temp, NewRecord
<1>0. \A p, q \in Procs : (pc[p] \in Critical /\ pc[q] \in Critical) => p = q
  BY DEF LockInv
<1>1. ASSUME NEW p \in Procs, EnterLock(p) PROVE JournalInv'
  BY <1>1 DEF EnterLock
<1>2. ASSUME NEW p \in Procs, StatStale(p) \/ UnlinkStale(p) \/ WaitTimeout(p)
      PROVE  JournalInv'
  <2>1. UNCHANGED <<disk, tmp, seq, prev>> /\ \E to \in {"unlink", "try", "failed"} :
                                               pc' = [pc EXCEPT ![p] = to]
    BY <1>2 DEF StatStale, UnlinkStale, WaitTimeout
  <2>2. QED
    BY <2>1
<1>3. ASSUME NEW p \in Procs, AllocateSeq(p) PROVE JournalInv'
  <2>1. CASE check_chain(ChainOf[p])
    <3>1. /\ UNCHANGED <<disk, tmp>>
          /\ pc[p] = "check" /\ pc' = [pc EXCEPT ![p] = "test"]
          /\ seq' = [seq EXCEPT ![p] = Len(disk[ChainOf[p]]) + 1]
          /\ \A q \in Procs \ {p} : prev'[q] = prev[q]
      BY <1>3, <2>1 DEF AllocateSeq
    <3>2. \A q \in Procs : pc'[q] \in {"test", "publish", "replace"} =>
                             seq'[q] = Len(disk'[ChainOf[q]]) + 1
      BY <3>1
    <3>3. \A q \in Procs : pc'[q] = "replace" =>
                             Temp(q)' = {[seq |-> seq[q], rec |-> NewRecord(q)']}
      BY <3>1
    <3>4. AppendedStays'
      BY <3>1
    <3>5. QED
      BY <3>1, <3>2, <3>3, <3>4
  <2>2. CASE ~check_chain(ChainOf[p])
    <3>1. /\ UNCHANGED <<disk, tmp, seq, prev>>
          /\ pc' = [pc EXCEPT ![p] = "failed-exit"]
      BY <1>3, <2>2 DEF AllocateSeq
    <3>2. QED
      BY <3>1
  <2>3. QED
    BY <2>1, <2>2
<1>4. ASSUME NEW p \in Procs, WriteTemp(p) PROVE JournalInv'
  <2>1. \A q \in Procs \ {p} : pc[q] \notin {"test", "publish", "replace"}
    BY <1>0, <1>4 DEF WriteTemp, Critical
  <2>2. tmp'[ChainOf[p]] = {t \in tmp[ChainOf[p]] : t.seq # seq[p]}
                            \cup {[seq |-> seq[p], rec |-> NewRecord(p)]}
    BY <1>4 DEF WriteTemp
  <2>3. Temp(p)' = {[seq |-> seq[p], rec |-> NewRecord(p)]}
    BY <1>4, <2>2 DEF WriteTemp
  <2>4. /\ UNCHANGED <<disk, seq, prev>>
        /\ pc[p] = "publish" /\ pc' = [pc EXCEPT ![p] = "replace"]
    BY <1>4 DEF WriteTemp
  <2>5. AppendedStays'
    BY <2>4
  <2>6. \A q \in Procs : pc'[q] \in {"test", "publish", "replace"} => q = p
    BY <2>1, <2>4
  <2>7. QED
    BY <2>3, <2>4, <2>5, <2>6
<1>5. ASSUME NEW p \in Procs, PublishRecord(p) PROVE JournalInv'
  <2> DEFINE c == ChainOf[p]
  <2>1. /\ disk' = [disk EXCEPT ![c] = Append(@, NewRecord(p))]
        /\ pc[p] = "replace" /\ pc' = [pc EXCEPT ![p] = "exit"]
        /\ NewRecord(p) \in Records
    BY <1>5, PublishAppends
  <2>2. \A q \in Procs : pc'[q] \notin {"test", "publish", "replace"}
    BY <1>0, <2>1 DEF Critical
  <2>3. UNCHANGED <<seq, prev>>
    BY <1>5 DEF PublishRecord
  <2>4. seq[p] = Len(disk[c]) + 1 /\ disk[c] \in Seq(Records)
    BY <2>1
  <2>5. /\ DOMAIN disk'[c] = 1..(Len(disk[c]) + 1)
        /\ disk'[c][Len(disk[c]) + 1] = NewRecord(p)
        /\ \A n \in 1..Len(disk[c]) : disk'[c][n] = disk[c][n]
    BY <2>1, <2>4, AppendProperties
  <2>6. ASSUME NEW q \in Procs, Appended(q)'
        PROVE  seq'[q] \in DOMAIN disk'[ChainOf[q]] /\ disk'[ChainOf[q]][seq'[q]].by = q
    <3>1. CASE q = p
      BY <2>3, <2>4, <2>5, <3>1
    <3>2. CASE q # p
      <4>1. Appended(q)
        BY <2>1, <2>6, <3>2
      <4>2. seq[q] \in DOMAIN disk[ChainOf[q]] /\ disk[ChainOf[q]][seq[q]].by = q
        BY <4>1
      <4>3. QED
        BY <2>1, <2>3, <2>4, <2>5, <4>2
    <3>3. QED
      BY <3>1, <3>2
  <2>7. QED
    BY <2>2, <2>6
<1>6. ASSUME NEW p \in Procs, ExitLock(p) PROVE JournalInv'
  BY <1>6 DEF ExitLock
<1>7. ASSUME NEW p \in Procs, TruncateOwnRecord(p) \/ RewriteOwnRecord(p)
      PROVE  JournalInv'
  <2>1. \A c \in Chains : /\ Len(disk'[c]) = Len(disk[c])
                          /\ DOMAIN disk'[c] = DOMAIN disk[c]
                          /\ \A n \in 1..Len(disk[c]) : disk'[c][n].by = disk[c][n].by
    BY <1>7, SetFormKeepsAuthors DEF TruncateOwnRecord, RewriteOwnRecord, Forms
  <2>2. UNCHANGED <<slock, tmp, seq, prev>>
    BY <1>7 DEF TruncateOwnRecord, RewriteOwnRecord
  <2>3. /\ pc[p] \in {"annotate", "rewrite"}
        /\ pc' = [pc EXCEPT ![p] = IF pc[p] = "annotate" THEN "rewrite" ELSE "done"]
    BY <1>7 DEF TruncateOwnRecord, RewriteOwnRecord
  <2>4. ASSUME NEW q \in Procs, Appended(q)'
        PROVE  seq'[q] \in DOMAIN disk'[ChainOf[q]] /\ disk'[ChainOf[q]][seq'[q]].by = q
    <3>1. Appended(q)
      BY <2>3, <2>4
    <3>2. seq[q] \in DOMAIN disk[ChainOf[q]] /\ disk[ChainOf[q]][seq[q]].by = q
      BY <3>1
    <3>3. disk[ChainOf[q]] \in Seq(Records)
      OBVIOUS
    <3>4. QED
      BY <2>1, <2>2, <3>2, <3>3
  <2>5. QED
    BY <2>1, <2>2, <2>3, <2>4
<1>8. ASSUME NEW p \in Procs, Crash(p) PROVE FALSE
  BY <1>8 DEF Crash, NoExpiry
<1>9. CASE LockAges \/ UNCHANGED vars
  BY <1>9 DEF LockAges, vars
<1>10. ASSUME NEW p \in Procs, TestFree(p) PROVE JournalInv'
  <2>1. /\ UNCHANGED <<disk, tmp, seq, prev>>
        /\ pc[p] = "test" /\ \E to \in {"publish", "failed-exit"} : pc' = [pc EXCEPT ![p] = to]
    BY <1>10 DEF TestFree
  <2>2. QED
    BY <2>1
<1>11. QED
  BY <1>1, <1>2, <1>3, <1>4, <1>5, <1>6, <1>7, <1>8, <1>9, <1>10 DEF Next, Run

THEOREM JournalInvariant == NoExpiry => (Spec => []IInv)
<1> SUFFICES ASSUME NoExpiry PROVE Spec => []IInv
  OBVIOUS
<1>1. Init => JournalInv
  BY DEF Init, JournalInv, AppendedStays, Appended
<1>2. IInv /\ TypeOK' /\ LockTypeOK' /\ LockInv' /\ [Next]_vars => JournalInv'
  BY StepJournal
<1>3. Spec => [](LockTypeOK /\ LockInv)
  BY LockInvariant
<1>4. QED
  BY <1>1, <1>2, <1>3, TypeCorrect, PTL DEF Spec, IInv

-----------------------------------------------------------------------------
LEMMA FunctionIsSeq ==
  ASSUME NEW S, NEW n \in Nat, NEW f \in [1..n -> S]
  PROVE  f \in Seq(S) /\ Len(f) = n
<1>1. f \in Seq(S)
  BY SeqDef
<1>2. 1..Len(f) = 1..n /\ Len(f) \in Nat
  BY <1>1, LenProperties
<1>3. QED
  BY <1>1, <1>2

\* Every step adds one author to one abstract log, or leaves the logs alone.
LEMMA StepLog ==
  ASSUME NoExpiry, IInv, [Next]_vars
  PROVE  [Log!Next]_Authors
<1> USE SeqJournalAssumption DEF IInv, TypeOK
<1>1. ASSUME NEW p \in Procs, PublishRecord(p) PROVE Log!Next
  <2> DEFINE c == ChainOf[p]
  <2>1. /\ disk' = [disk EXCEPT ![c] = Append(@, NewRecord(p))]
        /\ NewRecord(p) \in Records
    BY <1>1, PublishAppends
  <2>2. c \in Chains /\ disk[c] \in Seq(Records)
    OBVIOUS
  <2>3. /\ Len(disk'[c]) = Len(disk[c]) + 1
        /\ disk'[c][Len(disk[c]) + 1].by = p
        /\ \A n \in 1..Len(disk[c]) : disk'[c][n] = disk[c][n]
    BY <2>1, <2>2, AppendProperties DEF NewRecord
  <2>4. Authors'[c] = Append(Authors[c], p)
    <3> DEFINE s == [n \in 1..Len(disk[c]) |-> disk[c][n].by]
               t == [n \in 1..(Len(disk[c]) + 1) |-> disk'[c][n].by]
    <3>1. Authors[c] = s /\ Authors'[c] = t
      BY <2>2, <2>3 DEF Authors
    <3>2. Len(disk[c]) \in Nat
      BY <2>2
    <3>3. \A n \in 1..Len(disk[c]) : disk[c][n].by \in Procs
      <4>1. \A n \in 1..Len(disk[c]) : disk[c][n] \in Records
        BY <2>2, ElementOfSeq
      <4>2. QED
        BY <4>1 DEF Records
    <3>4. s \in Seq(Procs) /\ Len(s) = Len(disk[c])
      BY <3>2, <3>3, FunctionIsSeq
    <3>5. \A n \in 1..(Len(disk[c]) + 1) : disk'[c][n].by \in Procs
      <4> SUFFICES ASSUME NEW n \in 1..(Len(disk[c]) + 1) PROVE disk'[c][n].by \in Procs
        OBVIOUS
      <4>1. CASE n \in 1..Len(disk[c])
        BY <2>3, <3>3, <4>1
      <4>2. CASE n = Len(disk[c]) + 1
        BY <2>3, <4>2
      <4>3. QED
        BY <3>2, <4>1, <4>2
    <3>6. t \in Seq(Procs) /\ Len(t) = Len(disk[c]) + 1
      <4>1. PICK k \in Nat : k = Len(disk[c]) + 1
        BY <3>2
      <4>2. t \in [1..k -> Procs]
        BY <3>5, <4>1
      <4> HIDE DEF t
      <4>3. t \in Seq(Procs) /\ Len(t) = k
        BY <4>2, FunctionIsSeq
      <4>4. QED
        BY <4>1, <4>3
    <3>7. /\ Append(s, p) \in Seq(Procs) /\ Len(Append(s, p)) = Len(disk[c]) + 1
          /\ \A n \in 1..Len(disk[c]) : Append(s, p)[n] = s[n]
          /\ Append(s, p)[Len(disk[c]) + 1] = p
      BY <3>4, AppendProperties
    <3>8. \A n \in 1..(Len(disk[c]) + 1) : t[n] = Append(s, p)[n]
      BY <2>3, <3>2, <3>7
    <3>9. t = Append(s, p)
      BY <3>6, <3>7, <3>8, SeqEqual
    <3>10. QED
      BY <3>1, <3>9
  <2>5. \A d \in Chains \ {c} : Authors'[d] = Authors[d]
    BY <2>1 DEF Authors
  <2>6. Authors' = [Authors EXCEPT ![c] = Append(@, p)]
    BY <2>2, <2>4, <2>5 DEF Authors
  <2>7. QED
    BY <2>2, <2>6 DEF Log!Next
<1>2. ASSUME NEW p \in Procs, TruncateOwnRecord(p) \/ RewriteOwnRecord(p)
      PROVE  UNCHANGED Authors
  BY <1>2, SetFormKeepsAuthors DEF TruncateOwnRecord, RewriteOwnRecord, Forms, Authors
<1>3. ASSUME UNCHANGED disk PROVE UNCHANGED Authors
  BY <1>3 DEF Authors
<1>4. QED
  BY <1>1, <1>2, <1>3
  DEF Next, Run, vars, EnterLock, StatStale, UnlinkStale, WaitTimeout, AllocateSeq, TestFree,
      WriteTemp, ExitLock, Crash, LockAges

\* The record files implement append-only logs.
THEOREM JournalIsALog == NoExpiry => (Spec => ImplementsAppendLog)
<1> SUFFICES ASSUME NoExpiry PROVE Spec => ImplementsAppendLog
  OBVIOUS
<1>1. Init => Log!Init
  BY DEF Init, Log!Init, Authors
<1>2. IInv /\ [Next]_vars => [Log!Next]_Authors
  BY StepLog
<1>3. QED
  BY <1>1, <1>2, JournalInvariant, PTL DEF Spec, ImplementsAppendLog, Log!Spec

\* An acknowledged append is never overwritten: the record stays at the seq its
\* caller was given.
THEOREM AppendedStaysHolds == NoExpiry => (Spec => []AppendedStays)
<1> SUFFICES ASSUME NoExpiry PROVE Spec => []AppendedStays
  OBVIOUS
<1>1. IInv => AppendedStays
  BY DEF IInv, JournalInv
<1>2. QED
  BY <1>1, JournalInvariant, PTL

-----------------------------------------------------------------------------
\* What a verify run's command holds the run lock for: while its record waits to be
\* annotated, nobody appends to its chain.
AnnotatesAlone == \A p, q \in Procs : pc[p] \in {"annotate", "rewrite"} /\ pc[q] \in Critical
                                        => ChainOf[p] # ChainOf[q]

\* The record a run annotates is the last of its chain; the hash below a new record is
\* still right when it is published; only the last record can be truncated, by a run
\* that is rewriting it.
Linked(c) == \A n \in 1..Len(disk[c]) :
               disk[c][n].prev = IF n = 1 THEN NoProc ELSE Hash(disk[c][n - 1])
ChainInv ==
  /\ \A c \in Chains : Linked(c)
  /\ \A p \in Procs : pc[p] \in {"exit", "annotate", "rewrite"} => seq[p] = Len(disk[ChainOf[p]])
  /\ \A p \in Procs : pc[p] \in {"test", "publish", "replace"} => prev[p] = HeadHash(ChainOf[p])
  /\ \A c \in Chains : \A n \in 1..Len(disk[c]) : disk[c][n].form = "truncated" =>
       \E p \in Procs : pc[p] = "rewrite" /\ ChainOf[p] = c /\ seq[p] = n

\* One record more, or another form of the last one, leaves the links right.
LEMMA AppendLinks ==
  ASSUME TypeOK, NEW c \in Chains, Linked(c), NEW r \in Records, r.prev = HeadHash(c),
         disk'[c] = Append(disk[c], r)
  PROVE  Linked(c)'
<1>1. disk[c] \in Seq(Records) /\ Len(disk[c]) \in Nat
  BY DEF TypeOK
<1>2. /\ Len(disk'[c]) = Len(disk[c]) + 1 /\ disk'[c][Len(disk[c]) + 1] = r
      /\ \A n \in 1..Len(disk[c]) : disk'[c][n] = disk[c][n]
  BY <1>1, AppendProperties
<1>3. ASSUME NEW n \in 1..Len(disk[c]) + 1
      PROVE  disk'[c][n].prev = IF n = 1 THEN NoProc ELSE Hash(disk'[c][n - 1])
  <2>1. CASE n \in 1..Len(disk[c])
    <3>1. n # 1 => n - 1 \in 1..Len(disk[c])
      BY <1>1, <2>1
    <3>2. QED
      BY <1>2, <2>1, <3>1 DEF Linked
  <2>2. CASE n = Len(disk[c]) + 1
    <3>1. CASE Len(disk[c]) = 0
      <4>1. disk[c] = << >>
        BY <1>1, <3>1, EmptySeq
      <4>2. QED
        BY <1>2, <2>2, <3>1, <4>1 DEF HeadHash
    <3>2. CASE Len(disk[c]) # 0
      <4>1. disk[c] # << >> /\ n # 1 /\ n - 1 = Len(disk[c]) /\ n - 1 \in 1..Len(disk[c])
        BY <1>1, <2>2, <3>2, EmptySeq
      <4>2. QED
        BY <1>2, <2>2, <4>1 DEF HeadHash
    <3>3. QED
      BY <3>1, <3>2
  <2>3. QED
    BY <1>1, <2>1, <2>2
<1>4. QED
  BY <1>2, <1>3 DEF Linked

LEMMA FormLinks ==
  ASSUME TypeOK, NEW p \in Procs, NEW form \in Forms, SetForm(p, form), Linked(ChainOf[p]),
         seq[p] = Len(disk[ChainOf[p]])
  PROVE  LET c == ChainOf[p]
         IN /\ Linked(c)' /\ Len(disk'[c]) = Len(disk[c])
            /\ \A n \in 1..Len(disk[c]) : n # seq[p] => disk'[c][n] = disk[c][n]
            /\ seq[p] \in 1..Len(disk[c]) => disk'[c][seq[p]].form = form
            /\ \A d \in Chains : d # c => disk'[d] = disk[d]
<1> DEFINE c == ChainOf[p]
           s == disk[c]
           r == [s[seq[p]] EXCEPT !.form = form]
<1>1. c \in Chains /\ s \in Seq(Records) /\ Len(s) \in Nat
  BY SeqJournalAssumption DEF TypeOK
<1>2. disk'[c] = [s EXCEPT ![seq[p]] = r] /\ \A d \in Chains : d # c => disk'[d] = disk[d]
  BY <1>1 DEF SetForm, TypeOK
<1>3. Len(disk'[c]) = Len(s)
  <2>1. DOMAIN disk'[c] = DOMAIN s
    BY <1>2
  <2>2. QED
    BY <1>1, <1>2, <2>1
<1>4. \A n \in 1..Len(s) : n # seq[p] => disk'[c][n] = s[n]
  BY <1>1, <1>2
<1>5. seq[p] \in 1..Len(s) => disk'[c][seq[p]] = r /\ r.form = form /\ r.prev = s[seq[p]].prev
  <2> SUFFICES ASSUME seq[p] \in 1..Len(s)
               PROVE  disk'[c][seq[p]] = r /\ r.form = form /\ r.prev = s[seq[p]].prev
    OBVIOUS
  <2>1. s[seq[p]] \in Records
    BY <1>1, ElementOfSeq
  <2>2. QED
    BY <1>1, <1>2, <2>1 DEF Records
<1> HIDE DEF r
<1>6. ASSUME NEW n \in 1..Len(s)
      PROVE  disk'[c][n].prev = IF n = 1 THEN NoProc ELSE Hash(disk'[c][n - 1])
  <2>1. disk'[c][n].prev = s[n].prev
    BY <1>4, <1>5
  <2>2. n # 1 => n - 1 \in 1..Len(s) /\ n - 1 # seq[p]
    BY <1>1
  <2>3. n # 1 => disk'[c][n - 1] = s[n - 1]
    BY <1>4, <2>2
  <2>4. QED
    BY <2>1, <2>3 DEF Linked
<1>7. Linked(c)'
  BY <1>3, <1>6 DEF Linked
<1>8. QED
  BY <1>2, <1>3, <1>4, <1>5, <1>7

LEMMA StepChain ==
  ASSUME NoExpiry, IInv, ChainInv, AnnotatesAlone, [Next]_vars
  PROVE  ChainInv'
<1> USE SeqJournalAssumption
<1>1. TypeOK /\ \A p, q \in Procs : (pc[p] \in Critical /\ pc[q] \in Critical) => p = q
  BY DEF IInv, LockInv
<1>2. ASSUME NEW p \in Procs, PublishRecord(p) PROVE ChainInv'
  <2> DEFINE c == ChainOf[p]
  <2>1. /\ disk' = [disk EXCEPT ![c] = Append(@, NewRecord(p))]
        /\ pc[p] = "replace" /\ pc' = [pc EXCEPT ![p] = "exit"]
        /\ NewRecord(p) \in Records /\ UNCHANGED <<seq, prev>>
    BY <1>2, PublishAppends DEF PublishRecord
  <2>2. c \in Chains /\ disk[c] \in Seq(Records) /\ disk'[c] = Append(disk[c], NewRecord(p))
        /\ \A d \in Chains : d # c => disk'[d] = disk[d]
    BY <1>1, <2>1 DEF TypeOK
  <2>3. /\ Len(disk'[c]) = Len(disk[c]) + 1 /\ disk'[c][Len(disk[c]) + 1] = NewRecord(p)
        /\ \A n \in 1..Len(disk[c]) : disk'[c][n] = disk[c][n]
    BY <2>1, <2>2, AppendProperties
  <2>4. NewRecord(p).prev = HeadHash(c) /\ NewRecord(p).form = "appended"
    BY <2>1 DEF NewRecord, ChainInv
  <2>5. Linked(c)'
    BY <1>1, <2>1, <2>2, <2>4, AppendLinks DEF ChainInv
  <2>6. ASSUME NEW d \in Chains PROVE Linked(d)'
    <3>1. CASE d = c
      BY <2>5, <3>1
    <3>2. CASE d # c
      BY <2>2, <3>2 DEF ChainInv, Linked
    <3>3. QED
      BY <3>1, <3>2
  <2>7. \A q \in Procs : q # p => pc[q] \notin Critical /\ pc'[q] = pc[q]
    BY <1>1, <2>1 DEF Critical, TypeOK
  <2>8. ASSUME NEW q \in Procs, pc'[q] \in {"exit", "annotate", "rewrite"}
        PROVE  seq'[q] = Len(disk'[ChainOf[q]])
    <3>1. CASE q = p
      BY <2>1, <2>3, <3>1 DEF IInv, JournalInv
    <3>2. CASE q # p
      <4>1. pc[q] \in {"annotate", "rewrite"}
        BY <2>7, <2>8, <3>2 DEF Critical
      <4>2. ChainOf[q] # c
        BY <2>1, <4>1 DEF AnnotatesAlone, Critical
      <4>3. QED
        BY <2>1, <2>2, <4>1, <4>2 DEF ChainInv
    <3>3. QED
      BY <3>1, <3>2
  <2>9. \A q \in Procs : pc'[q] \notin {"test", "publish", "replace"}
    BY <1>1, <2>1, <2>7 DEF Critical, TypeOK
  <2>10. ASSUME NEW d \in Chains, NEW n \in 1..Len(disk'[d]), disk'[d][n].form = "truncated"
         PROVE  \E q \in Procs : pc'[q] = "rewrite" /\ ChainOf[q] = d /\ seq'[q] = n
    <3>1. n \in 1..Len(disk[d]) /\ disk[d][n].form = "truncated"
      BY <2>2, <2>3, <2>4, <2>10
    <3>2. PICK q \in Procs : pc[q] = "rewrite" /\ ChainOf[q] = d /\ seq[q] = n
      BY <3>1 DEF ChainInv
    <3>3. pc'[q] = "rewrite" /\ seq'[q] = n
      BY <2>1, <2>7, <3>2
    <3>4. QED
      BY <3>2, <3>3
  <2>11. QED
    BY <2>6, <2>8, <2>9, <2>10 DEF ChainInv
<1>3. ASSUME NEW p \in Procs, NEW form \in Forms, SetForm(p, form), UNCHANGED <<seq, prev>>,
             pc[p] \in {"annotate", "rewrite"},
             pc' = [pc EXCEPT ![p] = IF form = "truncated" THEN "rewrite" ELSE "done"]
      PROVE  ChainInv'
  <2> DEFINE c == ChainOf[p]
  <2>1. c \in Chains /\ seq[p] = Len(disk[c]) /\ Linked(c)
    BY <1>3 DEF ChainInv
  <2>2. /\ Linked(c)' /\ Len(disk'[c]) = Len(disk[c])
        /\ \A n \in 1..Len(disk[c]) : n # seq[p] => disk'[c][n] = disk[c][n]
        /\ seq[p] \in 1..Len(disk[c]) => disk'[c][seq[p]].form = form
        /\ \A d \in Chains : d # c => disk'[d] = disk[d]
    BY <1>1, <1>3, <2>1, FormLinks
  <2>3. ASSUME NEW d \in Chains PROVE Linked(d)'
    <3>1. CASE d = c
      BY <2>2, <3>1
    <3>2. CASE d # c
      BY <2>2, <3>2 DEF ChainInv, Linked
    <3>3. QED
      BY <3>1, <3>2
  <2>4. \A q \in Procs : q # p => pc'[q] = pc[q]
    BY <1>1, <1>3 DEF TypeOK
  <2>5. pc'[p] = IF form = "truncated" THEN "rewrite" ELSE "done"
    BY <1>1, <1>3 DEF TypeOK
  <2>6. \A q \in Procs : pc'[q] \in {"exit", "annotate", "rewrite"} =>
                           seq'[q] = Len(disk'[ChainOf[q]])
    BY <1>3, <2>1, <2>2, <2>4 DEF ChainInv
  <2>7. ASSUME NEW q \in Procs, pc'[q] \in {"test", "publish", "replace"}
        PROVE  prev'[q] = HeadHash(ChainOf[q])'
    <3>1. q # p /\ pc[q] \in {"test", "publish", "replace"}
      BY <2>4, <2>5, <2>7
    <3>2. ChainOf[q] # c
      BY <1>3, <3>1 DEF AnnotatesAlone, Critical
    <3>3. QED
      BY <1>3, <2>2, <3>1, <3>2 DEF ChainInv, HeadHash
  <2>8. ASSUME NEW d \in Chains, NEW n \in 1..Len(disk'[d]), disk'[d][n].form = "truncated"
        PROVE  \E q \in Procs : pc'[q] = "rewrite" /\ ChainOf[q] = d /\ seq'[q] = n
    <3>1. CASE d = c /\ n = seq[p]
      BY <1>3, <2>2, <2>5, <2>8, <3>1
    <3>2. CASE ~(d = c /\ n = seq[p])
      <4>1. n \in 1..Len(disk[d]) /\ disk[d][n].form = "truncated"
        BY <2>2, <2>8, <3>2
      <4>2. PICK q \in Procs : pc[q] = "rewrite" /\ ChainOf[q] = d /\ seq[q] = n
        BY <4>1 DEF ChainInv
      <4>3. q # p
        BY <3>2, <4>2
      <4>4. QED
        BY <1>3, <2>4, <4>2, <4>3
    <3>3. QED
      BY <3>1, <3>2
  <2>9. QED
    BY <2>3, <2>6, <2>7, <2>8 DEF ChainInv
<1>4. ASSUME NEW p \in Procs, TruncateOwnRecord(p) \/ RewriteOwnRecord(p) PROVE ChainInv'
  BY <1>3, <1>4 DEF TruncateOwnRecord, RewriteOwnRecord, Goto, Forms
<1>5. ASSUME NEW p \in Procs, AllocateSeq(p) PROVE ChainInv'
  <2>1. CASE check_chain(ChainOf[p])
    <3>1. /\ UNCHANGED disk /\ pc[p] = "check" /\ pc' = [pc EXCEPT ![p] = "test"]
          /\ prev'[p] = HeadHash(ChainOf[p])
          /\ \A q \in Procs : q # p => prev'[q] = prev[q] /\ seq'[q] = seq[q] /\ pc'[q] = pc[q]
          /\ pc'[p] = "test"
      BY <1>1, <1>5, <2>1 DEF AllocateSeq, Goto, TypeOK
    <3>2. \A q \in Procs : pc[q] = "rewrite" => q # p
      BY <3>1
    <3>3. QED
      BY <3>1, <3>2 DEF ChainInv, Linked, HeadHash
  <2>2. CASE ~check_chain(ChainOf[p])
    BY <1>1, <1>5, <2>2 DEF AllocateSeq, Goto, TypeOK, ChainInv, Linked, HeadHash
  <2>3. QED
    BY <2>1, <2>2
<1>6. ASSUME NEW p \in Procs, EnterLock(p) \/ StatStale(p) \/ UnlinkStale(p) \/ WaitTimeout(p)
                                \/ TestFree(p) \/ WriteTemp(p) \/ ExitLock(p)
      PROVE  ChainInv'
  <2>1. UNCHANGED <<disk, seq, prev>> /\ pc[p] # "rewrite"
        /\ \E to \in Steps : /\ pc' = [pc EXCEPT ![p] = to]
                             /\ to \in {"test", "publish", "replace"}
                                  => pc[p] \in {"test", "publish", "replace"}
                             /\ to \in {"exit", "annotate", "rewrite"} => pc[p] = "exit"
    BY <1>6 DEF EnterLock, StatStale, UnlinkStale, WaitTimeout, TestFree, WriteTemp, ExitLock,
                Goto, Steps
  <2>2. /\ pc[p] # "rewrite" /\ \A q \in Procs : q # p => pc'[q] = pc[q]
        /\ pc'[p] \in {"test", "publish", "replace"} => pc[p] \in {"test", "publish", "replace"}
        /\ pc'[p] \in {"exit", "annotate", "rewrite"} => pc[p] = "exit"
    BY <1>1, <2>1 DEF TypeOK
  <2>3. QED
    BY <2>1, <2>2 DEF ChainInv, Linked, HeadHash
<1>7. ASSUME NEW p \in Procs, Crash(p) PROVE FALSE
  BY <1>7 DEF Crash, NoExpiry
<1>8. CASE LockAges \/ UNCHANGED vars
  BY <1>8 DEF LockAges, vars, ChainInv, Linked, HeadHash
<1>9. QED
  BY <1>2, <1>4, <1>5, <1>6, <1>7, <1>8 DEF Next, Run

\* While no verify run is between its append and its annotation, every chain checks, for
\* any number of writers and verify runs on any chains, when verify runs annotate alone.
THEOREM ChainsAtRestHolds == NoExpiry => (Spec /\ []AnnotatesAlone => []ChainsAtRest)
<1> SUFFICES ASSUME NoExpiry PROVE Spec /\ []AnnotatesAlone => []ChainsAtRest
  OBVIOUS
<1>1. Init => ChainInv
  BY DEF Init, ChainInv, Linked
<1>2. IInv /\ ChainInv /\ AnnotatesAlone /\ [Next]_vars => ChainInv'
  BY StepChain
<1>3. IInv /\ ChainInv => ChainsAtRest
  BY DEF ChainInv, Linked, ChainsAtRest, check_chain
<1>4. QED
  BY <1>1, <1>2, <1>3, JournalInvariant, PTL DEF Spec

\* They do when each is the only writer of its chain.
SoleWriters == \A p \in Annotators, q \in Procs : ChainOf[p] = ChainOf[q] => p = q

THEOREM ChainsAtRestAlone == NoExpiry /\ SoleWriters => (Spec => []ChainsAtRest)
<1> SUFFICES ASSUME NoExpiry, SoleWriters PROVE Spec => []ChainsAtRest
  OBVIOUS
<1> DEFINE OwnAnnotation == \A p \in Procs : pc[p] \in {"annotate", "rewrite"} => p \in Annotators
<1>1. Init => OwnAnnotation
  BY DEF Init
<1>2. ASSUME TypeOK, OwnAnnotation, [Next]_vars PROVE OwnAnnotation'
  <2>1. CASE LockAges \/ UNCHANGED vars
    BY <1>2, <2>1 DEF LockAges, vars
  <2>2. ASSUME NEW p \in Procs, Run(p) \/ WaitTimeout(p) \/ Crash(p)
        PROVE  \E to \in Steps : /\ pc' = [pc EXCEPT ![p] = to]
                                 /\ to \in {"annotate", "rewrite"} =>
                                      p \in Annotators \/ pc[p] \in {"annotate", "rewrite"}
    BY <2>2 DEF Run, EnterLock, StatStale, UnlinkStale, WaitTimeout, AllocateSeq, TestFree,
                WriteTemp, PublishRecord, ExitLock, TruncateOwnRecord, RewriteOwnRecord, Crash,
                Goto, Steps
  <2>3. CASE \E p \in Procs : Run(p) \/ WaitTimeout(p) \/ Crash(p)
    BY <1>2, <2>2, <2>3 DEF TypeOK
  <2>4. QED
    BY <1>2, <2>1, <2>3 DEF Next
<1>3. OwnAnnotation => AnnotatesAlone
  BY DEF AnnotatesAlone, SoleWriters, Critical
<1>4. Spec => []OwnAnnotation
  BY <1>1, <1>2, TypeCorrect, PTL DEF Spec
<1>5. QED
  BY <1>3, <1>4, ChainsAtRestHolds, PTL

-----------------------------------------------------------------------------
(* The run lockfile.                                                       *)

\* No run passes --break-stale-lock or --force.
KeepsLocks == Breakers = {} /\ Forcers = {}

\* The inductive invariant: types, ownership inside, and no process is about
\* to remove a lock it took for stale.
RunLockInv == /\ RunTypeOK
              /\ InsideOwnsFile
              /\ \A p \in Pids : at[p] # "remove"

-----------------------------------------------------------------------------
\* Every variable keeps its type (both with and without breakers).
THEOREM RunLockTypeCorrect == LockSpec => []RunTypeOK
<1>1. LockInit => RunTypeOK
  BY RunLockAssumption DEF LockInit, RunTypeOK, Locks, RunSteps
<1>2. RunTypeOK /\ [LockNext]_lockvars => RunTypeOK'
  <2> SUFFICES ASSUME RunTypeOK, [LockNext]_lockvars PROVE RunTypeOK'
    OBVIOUS
  <2> USE RunLockAssumption DEF RunTypeOK, Locks, RunSteps, RunGoto
  <2>1. ASSUME NEW p \in Pids, Start(p) PROVE RunTypeOK'
    BY <2>1 DEF Start
  <2>2. ASSUME NEW p \in Pids, PreCheck(p) PROVE RunTypeOK'
    BY <2>2 DEF PreCheck
  <2>3. ASSUME NEW p \in Pids, ReadHolder(p) PROVE RunTypeOK'
    BY <2>3 DEF ReadHolder, NoRunLock
  <2>4. ASSUME NEW p \in Pids, Refuse(p) \/ DecideToBreak(p) PROVE RunTypeOK'
    BY <2>4 DEF Refuse, DecideToBreak
  <2>5. ASSUME NEW p \in Pids, RemoveStale(p) PROVE RunTypeOK'
    BY <2>5 DEF RemoveStale
  <2>6. ASSUME NEW p \in Pids, CreateExcl(p) PROVE RunTypeOK'
    <3>1. CASE Exists
      BY <2>6, <3>1 DEF CreateExcl
    <3>2. CASE ~Exists
      <4>1. LockFile(p) \in Locks
        BY DEF LockFile
      <4>2. QED
        BY <2>6, <3>2, <4>1 DEF CreateExcl
    <3>3. QED
      BY <3>1, <3>2
  <2>7. ASSUME NEW p \in Pids, WriteHolder(p) PROVE RunTypeOK'
    BY <2>7 DEF WriteHolder, NoRunLock
  <2>8. ASSUME NEW p \in Pids, FinishRun(p) \/ CliExit(p) \/ Release(p) PROVE RunTypeOK'
    BY <2>8 DEF FinishRun, CliExit, Release, ReleaseCheck, ReleaseUnlink
  <2>9. ASSUME NEW p \in Pids, RunDies(p) PROVE RunTypeOK'
    BY <2>9 DEF RunDies
  <2>10. CASE UNCHANGED lockvars
    BY <2>10 DEF lockvars
  <2>11. QED
    BY <2>1, <2>2, <2>3, <2>4, <2>5, <2>6, <2>7, <2>8, <2>9, <2>10
    DEF LockNext, Acquire
<1>3. QED
  BY <1>1, <1>2, PTL DEF LockSpec

LEMMA InitRunLock == LockInit => RunLockInv
BY RunLockAssumption DEF LockInit, RunLockInv, RunTypeOK, InsideOwnsFile, Inside, Locks, RunSteps

\* Without breakers the invariant is inductive.
LEMMA StepRunLock == KeepsLocks /\ RunLockInv /\ RunTypeOK' /\ [LockNext]_lockvars => RunLockInv'
<1> SUFFICES ASSUME KeepsLocks, RunLockInv, RunTypeOK', [LockNext]_lockvars PROVE RunLockInv'
  OBVIOUS
<1> USE RunLockAssumption DEF RunLockInv, RunTypeOK, InsideOwnsFile, Inside, Locks, RunGoto
<1>1. ASSUME NEW p \in Pids, Start(p) PROVE RunLockInv'
  BY <1>1 DEF Start
<1>2. ASSUME NEW p \in Pids, PreCheck(p) PROVE RunLockInv'
  BY <1>2 DEF PreCheck
<1>3. ASSUME NEW p \in Pids, ReadHolder(p) PROVE RunLockInv'
  BY <1>3 DEF ReadHolder
<1>4. ASSUME NEW p \in Pids, Refuse(p) PROVE RunLockInv'
  BY <1>4 DEF Refuse
<1>5. ASSUME NEW p \in Pids, DecideToBreak(p) \/ RemoveStale(p) PROVE RunLockInv'
  BY <1>5 DEF DecideToBreak, RemoveStale, KeepsLocks
<1>6. ASSUME NEW p \in Pids, CreateExcl(p) PROVE RunLockInv'
  \* The lock was free, so by InsideOwnsFile nobody else is inside.
  BY <1>6 DEF CreateExcl, LockFile, Exists, NoRunLock
<1>7. ASSUME NEW p \in Pids, WriteHolder(p) PROVE RunLockInv'
  BY <1>7 DEF WriteHolder
<1>8. ASSUME NEW p \in Pids, FinishRun(p) \/ CliExit(p) \/ ReleaseCheck(p) PROVE RunLockInv'
  BY <1>8 DEF FinishRun, CliExit, ReleaseCheck
<1>9. ASSUME NEW p \in Pids, ReleaseUnlink(p) PROVE RunLockInv'
  \* p is inside, so the lock is p's and no other process is inside.
  BY <1>9 DEF ReleaseUnlink
<1>10. ASSUME NEW p \in Pids, RunDies(p) PROVE RunLockInv'
  BY <1>10 DEF RunDies
<1>11. CASE UNCHANGED lockvars
  BY <1>11 DEF lockvars
<1>12. QED
  BY <1>1, <1>2, <1>3, <1>4, <1>5, <1>6, <1>7, <1>8, <1>9, <1>10, <1>11
  DEF LockNext, Acquire, Release

THEOREM RunLockInvariant == KeepsLocks => (LockSpec => []RunLockInv)
<1> SUFFICES ASSUME KeepsLocks PROVE LockSpec => []RunLockInv
  OBVIOUS
<1>1. RunLockInv /\ RunTypeOK' /\ [LockNext]_lockvars => RunLockInv'
  BY StepRunLock
<1>2. QED
  BY <1>1, InitRunLock, RunLockTypeCorrect, PTL DEF LockSpec

-----------------------------------------------------------------------------
\* At most one run holds the lock, for every number of processes and crashes:
\* two holders would both be the creator of the one file.
THEOREM MutualExclusionHolds == KeepsLocks => (LockSpec => []MutualExclusion)
<1> SUFFICES ASSUME KeepsLocks PROVE LockSpec => []MutualExclusion
  OBVIOUS
<1>1. RunLockInv => MutualExclusion
  BY DEF RunLockInv, InsideOwnsFile, MutualExclusion, Inside
<1>2. QED
  BY <1>1, RunLockInvariant, PTL

-----------------------------------------------------------------------------
\* Every step is a step of the abstract mutex or leaves its owner alone.
LEMMA StepMutex ==
  ASSUME KeepsLocks, RunLockInv, [LockNext]_lockvars
  PROVE  [Mutex!Next]_AbstractOwner
<1> USE RunLockAssumption DEF RunLockInv, RunTypeOK, InsideOwnsFile, Inside, Locks, RunGoto, AbstractOwner, Exists, NoRunLock
<1>1. ASSUME NEW p \in Pids,
             Start(p) \/ PreCheck(p) \/ ReadHolder(p) \/ Refuse(p)
      PROVE  AbstractOwner' = AbstractOwner
  BY <1>1 DEF Start, PreCheck, ReadHolder, Refuse
<1>2. ASSUME NEW p \in Pids, DecideToBreak(p) \/ RemoveStale(p) PROVE FALSE
  BY <1>2 DEF DecideToBreak, RemoveStale, KeepsLocks
<1>3. ASSUME NEW p \in Pids, CreateExcl(p)
      PROVE  AbstractOwner' = AbstractOwner \/ Mutex!Take(p)
  BY <1>3 DEF CreateExcl, LockFile, Mutex!Take
<1>4. ASSUME NEW p \in Pids, WriteHolder(p)
      PROVE  AbstractOwner' = AbstractOwner
  BY <1>4 DEF WriteHolder
<1>5. ASSUME NEW p \in Pids, FinishRun(p) \/ ReleaseCheck(p)
      PROVE  AbstractOwner' = AbstractOwner
  BY <1>5 DEF FinishRun, ReleaseCheck
<1>6. ASSUME NEW p \in Pids, ReleaseUnlink(p)
      PROVE  Mutex!Give(p)
  BY <1>6 DEF ReleaseUnlink, Mutex!Give
<1>7. ASSUME NEW p \in Pids, RunDies(p) \/ CliExit(p)
      PROVE  AbstractOwner' = AbstractOwner \/ Mutex!Die(p)
  BY <1>7 DEF RunDies, CliExit, Mutex!Die
<1>8. CASE UNCHANGED lockvars
  BY <1>8 DEF lockvars
<1>9. QED
  BY <1>1, <1>2, <1>3, <1>4, <1>5, <1>6, <1>7, <1>8
  DEF LockNext, Acquire, Release, Mutex!Next

\* The lockfile protocol implements the abstract mutex.
THEOREM LockfileIsAMutex == KeepsLocks => (LockSpec => ImplementsMutex)
<1> SUFFICES ASSUME KeepsLocks PROVE LockSpec => ImplementsMutex
  OBVIOUS
<1>1. LockInit => Mutex!Init
  BY DEF LockInit, Mutex!Init, AbstractOwner, Exists
<1>2. RunLockInv /\ [LockNext]_lockvars => [Mutex!Next]_AbstractOwner
  BY StepMutex
<1>3. LockSpec => []RunLockInv
  BY RunLockInvariant
<1>4. QED
  BY <1>1, <1>2, <1>3, PTL DEF LockSpec, ImplementsMutex, Mutex!Spec

-----------------------------------------------------------------------------
(* The journal under the run lock.                                         *)

\* Who is between the allocation of a record's seq and its annotation.
AtRecord(p) == pc[p] \in Critical \cup {"annotate", "rewrite"}

\* A command appends its records one after the other: under a pid at most one is under
\* way. (A driver session writes its compile record and its verify record in one process.)
OneByOne == \A p, q \in Procs : AtRecord(p) /\ AtRecord(q) /\ PidOf[p] = PidOf[q] => p = q

\* A verify run's command still holds the run lock while its record waits to be annotated,
\* and so does whoever appends to that chain in the meantime. Compile and verify runs do;
\* the driver's own appends (revert, adjudication, baseline reset) take no run lock.
HoldsRunLock == \A p, q \in Procs :
                  /\ pc[p] \in {"annotate", "rewrite"}
                  /\ pc[q] \in Critical
                  /\ ChainOf[p] = ChainOf[q]
                    => at[PidOf[p]] = "held" /\ at[PidOf[q]] = "held"

\* Both would be inside; but a process is in the critical section or annotates, not both.
LEMMA RunLockKeepsWritersOff ==
  ASSUME PidOf \in [Procs -> Pids], OneByOne, HoldsRunLock, MutualExclusion
  PROVE  AnnotatesAlone
<1> SUFFICES ASSUME NEW p \in Procs, NEW q \in Procs,
                    pc[p] \in {"annotate", "rewrite"}, pc[q] \in Critical,
                    ChainOf[p] = ChainOf[q]
             PROVE  FALSE
  BY DEF AnnotatesAlone
<1>1. p = q
  <2>1. at[PidOf[p]] = "held" /\ at[PidOf[q]] = "held"
    BY DEF HoldsRunLock
  <2>2. PidOf[p] = PidOf[q]
    BY <2>1 DEF MutualExclusion
  <2>3. QED
    BY <2>2 DEF OneByOne, AtRecord
<1>2. QED
  BY <1>1 DEF Critical

\* Under the run lock every chain checks whenever no record waits to be annotated: the
\* journal needs the lockfile, because a rewrite outside the sequence lock changes the hash
\* the next record has already taken.
THEOREM ChainsAtRestUnderRunLock ==
  NoExpiry /\ KeepsLocks /\ PidOf \in [Procs -> Pids] =>
    (Spec /\ LockSpec /\ []OneByOne /\ []HoldsRunLock => []ChainsAtRest)
<1> SUFFICES ASSUME NoExpiry, KeepsLocks, PidOf \in [Procs -> Pids]
             PROVE  Spec /\ LockSpec /\ []OneByOne /\ []HoldsRunLock => []ChainsAtRest
  OBVIOUS
<1>1. LockSpec => []MutualExclusion
  BY MutualExclusionHolds
<1>2. Spec /\ []AnnotatesAlone => []ChainsAtRest
  BY ChainsAtRestHolds
<1>3. OneByOne /\ HoldsRunLock /\ MutualExclusion => AnnotatesAlone
  BY RunLockKeepsWritersOff
<1>4. QED
  BY <1>1, <1>2, <1>3, PTL
=============================================================================
