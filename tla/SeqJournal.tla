----------------------------- MODULE SeqJournal -----------------------------
(***************************************************************************)
(* append_record of compile-core.py under the spin lock _SeqLock, with the *)
(* steps of a verify run that follow its append: the record file it has    *)
(* just written is read back, annotated with verify_commit and rewritten.  *)
(*                                                                         *)
(* One lock file in git's common directory serves every hash-chained       *)
(* directory of the repository (receipts/journal, registrations and        *)
(* candidates use the same append_record); a process appends one record.   *)
(***************************************************************************)
EXTENDS Naturals, Sequences

CONSTANTS Procs,        \* processes that append one record each
          Chains,       \* the hash-chained directories
          ChainOf,      \* the chain each process appends to
          Annotators,   \* verify runs: they rewrite their record afterwards
          MayCrash,     \* processes that can be killed
          SlowHolders,  \* can a living process hold the lock beyond the 30 s staleness timeout?
          NoProc

ASSUME SeqJournalAssumption == /\ ChainOf \in [Procs -> Chains]
                               /\ Annotators \subseteq Procs
                               /\ MayCrash \subseteq Procs
                               /\ SlowHolders \in BOOLEAN
                               /\ NoProc \notin Procs

VARIABLES slock,    \* compile-seq.lock: who created it, is its mtime beyond the timeout
          disk,     \* the record files of each chain, by seq
          tmp,      \* the temporary files of each chain
          pc,       \* where each process is
          seq,      \* the seq each process allocated (0 before)
          prev      \* the prev_record_hash each process will write

vars == <<slock, disk, tmp, pc, seq, prev>>

NoLock == [owner |-> NoProc, old |-> FALSE]
SLocks == {NoLock} \cup [owner : Procs, old : BOOLEAN]

\* A record is known by who appended it. Its bytes change when it is
\* annotated, and while it is rewritten the file is truncated.
Forms == {"appended", "truncated", "annotated"}
Hashes == (Procs \X Forms) \cup {NoProc}
Records == [by : Procs, form : Forms, prev : Hashes]
Hash(r) == <<r.by, r.form>>

Steps == {"try", "unlink", "check", "test", "publish", "replace", "exit", "failed-exit",
          "annotate", "rewrite", "done", "failed", "dead"}

\* The body of the with statement, up to the unlink in __exit__.
Critical == {"check", "test", "publish", "replace", "exit", "failed-exit"}

Goto(p, from, to) == pc[p] = from /\ pc' = [pc EXCEPT ![p] = to]

-----------------------------------------------------------------------------
\* Mutated form: the record read is one too low.
HashBelowHead(c) == IF Len(disk[c]) < 2 THEN NoProc ELSE Hash(disk[c][Len(disk[c]) - 1])

\* The hash of the last record of a chain: None below the first.
HeadHash(c) == IF disk[c] = << >> THEN NoProc ELSE Hash(disk[c][Len(disk[c])])

\* Strict chain: every record parses and carries the hash of the one below it.
check_chain(c) ==
  \A n \in 1..Len(disk[c]) :
     /\ disk[c][n].form # "truncated"
     /\ disk[c][n].prev = IF n = 1 THEN NoProc ELSE Hash(disk[c][n - 1])

Init == /\ slock = NoLock
        /\ disk = [c \in Chains |-> << >>]
        /\ tmp = [c \in Chains |-> {}]
        /\ pc = [p \in Procs |-> "try"]
        /\ seq = [p \in Procs |-> 0]
        /\ prev = [p \in Procs |-> NoProc]

\* Mutated form: the create does not fail on an existing file.
EnterShared(p) ==
  /\ Goto(p, "try", "check")
  /\ slock' = [owner |-> p, old |-> FALSE]
  /\ UNCHANGED <<disk, tmp, seq, prev>>

\* _SeqLock.__enter__, the O_EXCL create.
EnterLock(p) ==
  /\ slock = NoLock
  /\ Goto(p, "try", "check")
  /\ slock' = [owner |-> p, old |-> FALSE]
  /\ UNCHANGED <<disk, tmp, seq, prev>>

\* Mutated form: a waiter removes no lock but its own.
StatOwn(p) ==
  /\ slock.old /\ slock.owner = p
  /\ Goto(p, "try", "unlink")
  /\ UNCHANGED <<slock, disk, tmp, seq, prev>>

\* The create collided and the file looks older than the timeout.
StatStale(p) ==
  /\ slock # NoLock /\ slock.old
  /\ Goto(p, "try", "unlink")
  /\ UNCHANGED <<slock, disk, tmp, seq, prev>>

\* The stale file is removed by its path; one that is already gone is ignored.
UnlinkStale(p) ==
  /\ Goto(p, "unlink", "try")
  /\ slock' = NoLock
  /\ UNCHANGED <<disk, tmp, seq, prev>>

\* The waiter's own deadline passes while others hold the lock.
WaitTimeout(p) ==
  /\ slock # NoLock /\ ~slock.old
  /\ Goto(p, "try", "failed")
  /\ UNCHANGED <<slock, disk, tmp, seq, prev>>

\* check_chain and the read of the record below the new seq; a corrupt chain
\* raises.
AllocateSeq(p) ==
  /\ IF check_chain(ChainOf[p])
       THEN /\ Goto(p, "check", "test")
            /\ seq' = [seq EXCEPT ![p] = Len(disk[ChainOf[p]]) + 1]
            /\ prev' = [prev EXCEPT ![p] = HeadHash(ChainOf[p])]
       ELSE /\ Goto(p, "check", "failed-exit")
            /\ UNCHANGED <<seq, prev>>
  /\ UNCHANGED <<slock, disk, tmp>>

NewRecord(p) == [by |-> p, form |-> "appended", prev |-> prev[p]]

\* The exists test, which raises for a record file that is already there.
TestFree(p) ==
  /\ IF seq[p] <= Len(disk[ChainOf[p]])
       THEN Goto(p, "test", "failed-exit")
       ELSE Goto(p, "test", "publish")
  /\ UNCHANGED <<slock, disk, tmp, seq, prev>>

\* The write of <seq>.json.tmp, over one another process has left there.
WriteTemp(p) ==
  /\ Goto(p, "publish", "replace")
  /\ tmp' = [tmp EXCEPT ![ChainOf[p]] = {t \in @ : t.seq # seq[p]}
                                        \cup {[seq |-> seq[p], rec |-> NewRecord(p)]}]
  /\ UNCHANGED <<slock, disk, seq, prev>>

\* os.replace of the temporary file, whoever wrote it last; one that is gone
\* raises.
PublishRecord(p) ==
  LET c == ChainOf[p]
      mine == {t \in tmp[c] : t.seq = seq[p]}
  IN /\ IF mine = {}
          THEN Goto(p, "replace", "failed-exit") /\ UNCHANGED <<disk, tmp>>
          ELSE \E t \in mine :
                 /\ Goto(p, "replace", "exit")
                 /\ disk' = [disk EXCEPT ![c] = IF seq[p] <= Len(@)
                                                 THEN [@ EXCEPT ![seq[p]] = t.rec]
                                                 ELSE Append(@, t.rec)]
                 /\ tmp' = [tmp EXCEPT ![c] = @ \ {t}]
     /\ UNCHANGED <<slock, seq, prev>>

\* __exit__ removes the lock file by its path, on success and on a raise.
ExitLock(p) ==
  /\ \/ Goto(p, "exit", IF p \in Annotators THEN "annotate" ELSE "done")
     \/ Goto(p, "failed-exit", "failed")
  /\ slock' = NoLock
  /\ UNCHANGED <<disk, tmp, seq, prev>>

SetForm(p, form) ==
  disk' = [disk EXCEPT ![ChainOf[p]] = [@ EXCEPT ![seq[p]].form = form]]

\* verify_run's annotation, outside the lock: open(jpath, "w") truncates the
\* record file, json.dump fills it again.
TruncateOwnRecord(p) ==
  /\ Goto(p, "annotate", "rewrite")
  /\ SetForm(p, "truncated")
  /\ UNCHANGED <<slock, tmp, seq, prev>>

RewriteOwnRecord(p) ==
  /\ Goto(p, "rewrite", "done")
  /\ SetForm(p, "annotated")
  /\ UNCHANGED <<slock, tmp, seq, prev>>

Crash(p) ==
  /\ p \in MayCrash
  /\ pc[p] \notin {"done", "failed", "dead"}
  /\ pc' = [pc EXCEPT ![p] = "dead"]
  /\ UNCHANGED <<slock, disk, tmp, seq, prev>>

\* The lock file's mtime falls behind the timeout. Critical sections last
\* milliseconds, so this is a crashed holder's lock, or SlowHolders.
LockAges ==
  /\ slock # NoLock /\ ~slock.old
  /\ SlowHolders \/ pc[slock.owner] \notin Critical
  /\ slock' = [slock EXCEPT !.old = TRUE]
  /\ UNCHANGED <<disk, tmp, pc, seq, prev>>

Run(p) == \/ EnterLock(p) \/ StatStale(p) \/ UnlinkStale(p) \/ AllocateSeq(p)
          \/ TestFree(p) \/ WriteTemp(p) \/ PublishRecord(p) \/ ExitLock(p)
          \/ TruncateOwnRecord(p) \/ RewriteOwnRecord(p)

Next == LockAges \/ \E p \in Procs : Run(p) \/ WaitTimeout(p) \/ Crash(p)

Spec == Init /\ [][Next]_vars

\* Processes are scheduled, and time passes.
FairSpec == /\ Spec
            /\ WF_vars(LockAges)
            /\ \A p \in Procs : WF_vars(Run(p))

-----------------------------------------------------------------------------
TypeOK == /\ slock \in SLocks
          /\ disk \in [Chains -> Seq(Records)]
          /\ tmp \in [Chains -> SUBSET [seq : Nat, rec : Records]]
          /\ pc \in [Procs -> Steps]
          /\ seq \in [Procs -> Nat]
          /\ prev \in [Procs -> Hashes]

\* One process at a time allocates a seq, across all chains and worktrees.
SeqMutex == \A p, q \in Procs : (pc[p] \in Critical /\ pc[q] \in Critical) => p = q

\* While no verify run is between its append and its annotation, check_chain
\* accepts every chain (compile-core.py:18: "Integrity on prev_record_hash
\* (hash of record seq-1)"): otherwise no record can be appended any more.
ChainsAtRest == (\A p \in Procs : pc[p] \notin {"annotate", "rewrite"})
                   => \A c \in Chains : check_chain(c)

\* A record whose append succeeded stays at the seq its caller was given: it
\* is never overwritten by a second allocation of that seq.
Appended(p) == pc[p] \in {"exit", "annotate", "rewrite", "done"}
AppendedStays == \A p \in Procs : Appended(p) =>
                    /\ seq[p] \in DOMAIN disk[ChainOf[p]]
                    /\ disk[ChainOf[p]][seq[p]].by = p

\* A crash never blocks the journal for good: whoever waits for the lock gets
\* a verdict.
WaiterServed == \A p \in Procs : pc[p] = "try" ~> pc[p] \in {"done", "failed", "dead"}

-----------------------------------------------------------------------------
\* The log each chain stands for: who appended, in seq order.
Authors == [c \in Chains |-> [n \in 1..Len(disk[c]) |-> disk[c][n].by]]

Log == INSTANCE AppendLog WITH Entries <- Procs, log <- Authors

\* The files implement append-only logs.
ImplementsAppendLog == Log!Spec
=============================================================================
