# Rheoscope: verification of the memory engine

Rheoscope is a harness of templates, recipes and hooks around one program with state of its own: the
**memory engine** of the capability `knowledge-os`
(`src/capabilities/knowledge-os/extracted/deploy/`, called `deploy/` below). The engine compiles raw
events into wiki views, has every change verified by another model, and keeps a hash-chained journal of
what it did, all of it in a git repository that several processes and a person write to. This project
models that program in TLA+, checks the models with TLC and proves what can be proved with TLAPS.

## 1. Inventory

Every part of the repository is in the table. "Hard" says what makes its behaviour difficult to test.

| Part (code) | State it keeps | Operations | Hard | What makes it correct |
|---|---|---|---|---|
| Run lockfile (`compile-core.py`, `acquire_lock`, `release_lock`) | `.claude/compile-run.lock.json`, created empty and then filled | acquire, refuse, break a stale lock, force, release, CLI acquire | several processes, crashes between two system calls, reused pids, a half-written file | one run at a time; a live run's lock is never broken; an orphan is recoverable |
| Journal and sequence lock (`compile-core.py`, `_SeqLock`, `append_record`, `check_chain`) | `receipts/<chain>/<seq>.json`, `compile-seq.lock` | append, check, annotate in place | processes in several worktrees, stale lock by age, crash in the critical section | chains that check; a seq is given once; nobody waits for ever |
| Compile engine (`compile-v2.py`, `run`, `verify_run`) | views, journal records, commits | validate, write, append, commit, legs, stamp, annotate | failing I/O, failing commit, crash between any two steps | a refusal leaves nothing; a commit carries text and record together |
| Compile driver (`compile-driver.py`) | none of its own: journal, views, commits | `--run`, `--reverify`, `--revert`, `--set-aside`, `--baseline-reset`, `--verify-ledger` | verbs without the lock, verifier calls of minutes, operator against session | unverified work blocks; a revert undoes its run only; confirmed runs stand |
| Dispatch guard and backends (`compile-backends.py`) | none (asks the bridge, reads the record) | permit, refuse, author, verify | time-outs and retries; the record is read before the lock | a refused leg journals nothing; no answer is never an approval |
| Coverage debt and routing legs (`compile-v2.py`) | rows in journal records | owe, clear by verified no-op, judge again | long sequences of runs and reverts | an event the corpus owes is never lost |
| Baseline ladder (`compile-driver.py`, `compile-v2.py`) | stamps, rulings and resets in journal records | stamp, adjudicate, reset | reverted runs in between; three rungs compete | the newest standing rung decides |
| Attribution of a view's history (`compile-v2.py`, `_attribute_view_history`) | none: reads commits and journal | walk | runs and reverts that overlap, edits that go along in other commits | no change is left ungraded that nobody answered for |
| Session candidates (`candidates.py`, `harvest-`, `register-`, `promote-candidate.py`) | staged files, `receipts/candidates/` chain, raw events, promotion lock | harvest, reconcile, expire, promote | decisions on a snapshot, file first and record second, crash in between | a promotion is final and single-use |
| Retirement publication (`retire.py`, `promote.py`, `trust.py`) | `refs/retire/*`, tags, the branch head, manifests | propose, discard, recover, promote, batch, rollback | compare-and-swap on a moving head, half-published batches, crash before the tree follows the head | only what was approved on this head is published, each view whole or not at all |
| Pending list (`pending.py`) | sweeps, acknowledgements, alarms (append-only files) | open, close, acknowledge, observe | no lock at all | an item shown to nobody stays pending |
| Verifier bridge (`src/core/skills/bridge/*.js`) | child processes, one answer each | verify, time out, kill | close, error and time-out race | one answer, and none after a time-out |
| Cross-check loop (`converge.js`) | a ledger of claims and rounds | lint, round, record verdicts | edits between rounds, two invocations, one failed verifier | the round cap holds; a recheck rests on fresh evidence |
| Inbox, debt, staleness (`decision-inbox.py`, `debt.py`, `staleness.py`) | one sidecar; the rest is computed at read time | generate, census | - | pure functions of committed files |
| Intake and registration (`registrations.py`, `register-intake.py`, `backfill-*.py`) | `receipts/registrations/` chain | append | shares the sequence lock | as the journal |
| Origin and tool grants (`origin.py`, `tool_grant.py`) | none | decide | - | pure functions |
| Serving and assembly (`assemble.py`, `catalog.py`, `project.py`, `session-model.py`) | none | select, print | - | read-only |
| Sensors, drills, audits (`check-*`, `drill-*`, `audit-*`) | none | report | - | read-only |
| Doctor, adapter generator, hooks (`doctor.py`, `gen-skill-adapters.py`) | none | diagnose, generate | - | pure functions of the checkout |
| Credential scripts, installer, governance scripts, methodology, templates | the system's credential store; copied files | copy, compare | - | pure input and output |

How they meet:

- **Locks.** `run()` and `verify_run()` hold the run lock. The driver's reconciliation, the automatic
  revert, `--revert` and the rulings do not. Every append of every chain takes the sequence lock, which
  lives in git's common directory and so covers all worktrees.
- **Calls.** The driver calls `run()`, then `verify_run()`, grades the verify record, and reverts the run
  commit itself. The engine calls the backends, and those the bridge, once per verify leg.
- **Shared files.** The driver decides from the journal in the *working tree*; publication moves the
  *branch head* and lets the working tree follow; the candidates and the registrations have chains of
  their own behind the same lock.
- **The person.** Breaks stale locks, discards or commits what a killed run left, rules on verdicts, signs.

## 2. Modules

| Module | What it is | Code |
|---|---|---|
| `RunMutex` | abstract: a mutex whose holder may die, and whose orphan may be freed | what the lockfile promises |
| `RunLock` | the lockfile, one action per system call | `compile-core.py:100-160` and its CLI |
| `AppendLog` | abstract: logs that grow at the end | what `append_record` promises |
| `SeqJournal` | `append_record` under `_SeqLock`, `check_chain`, the annotation | `compile-core.py:163-305`, `compile-v2.py:3372-3389` |
| `RunLedger` | abstract: open, verified or reverted runs | what the driver promises |
| `CompileDriver` | sessions, verbs and legs over one branch | `compile-driver.py`, `compile-v2.py` |
| `CommitHistory` | abstract: one commit adds one record, text changes with the record that says why | what a clone of the branch sees |
| `CompileRun` | file and commit steps of one session, with crashes and failures | `compile-v2.py:1717-1912, 2923-3389`, `compile-driver.py:1285-1382` |
| `CoverageDebt` | routing tables, the leg that judges them, and the rows it leaves | `compile-v2.py:560-1010` and `verify_run` |
| `PromotionLedger` | abstract: an artifact arms one promotion, and a promotion is final | what the promotion gate promises |
| `Candidates` | harvesters, reconcilers and promoters over one ledger | `harvest-`, `register-`, `promote-candidate.py`, `candidates.py` |
| `Publication` | abstract: each view is a stack of texts; a retirement pushes, a rollback takes off what its retirement covered | what a reader of the branch may rely on |
| `RetirePublish` | preparation, promotion, batches, rollback, recovery, with a session beside them | `retire.py`, `promote.py`, `trust.py` |
| `AttributionWalk` | the history of one view, and where the grading of a verify packet starts on it | `compile-v2.py:2289-2601` |
| `Pending` | sweeps, acknowledgements and the observer's alarms, without a lock | `pending.py` |
| `Converge` | the rounds of the cross-check loop and what the session does between them | `converge.js` and the skill that drives it |
| `MC...` | small instances | |
| `..._proofs` | theorems: `RunLock` and `SeqJournal` together (`CompileCore_proofs`), `CoverageDebt` and `AttributionWalk` (`VerifyRun_proofs`), `CompileDriver`, `CompileRun`, `Candidates`, `RetirePublish`, `Converge`, `Pending` | |

The first eight are layers. `CompileDriver` uses the lock as `RunMutex` describes it (taken, released,
orphaned, broken) and an append as `AppendLog` does (one step), and this is proved (`LockIsAMutex`, `JournalIsALog`):
what `RunLock` and `SeqJournal` implement below, the driver asks for and no more. `CompileRun` takes a run apart into its
files and commits, and what it commits keeps the ledger that `CompileDriver` keeps (`LedgerKept`). `Candidates` and `CoverageDebt` take an
append as one step in the same way.
`AttributionWalk` looks at the commits of one view that these modules and `RetirePublish` make. `CompileRun` opens up what `CompileDriver` takes as one step, an append with its commit, and gives up several
sessions in return. `CoverageDebt` looks at the same journal for what it says of events.

Definitions whose comment starts with "Mutated form" are plausible bugs. No specification uses them. Each
is a replacement for the definition that follows it, and each checked property is refuted by one of them.

### RunLock

| State | Code |
|---|---|
| `lock` | the file: who created it, and whether `json.dump` has filled it |
| `at`, `seen` | where each process is, and the pid it read |
| `crashes` | how many processes were killed |

`Start` launches a run; without `PidReuse` the system does not give a new process the pid of a lock's dead
holder. `PreCheck`, `ReadHolder`, `Refuse`, `DecideToBreak`, `RemoveStale`, `CreateExcl` and `WriteHolder`
are the system calls of `acquire_lock` in their order. The pid is read in one step, probed in the next and
the path removed in a third, whatever file is there by then. `FinishRun`, `ReleaseCheck` and
`ReleaseUnlink` are `release_lock`, which checks no owner. `CliExit` is the `--acquire-lock-cli` entry,
which exits with the lock in place. The hostname and the timestamp are left out: the code never decides
on them. The specification is `LockSpec`, its types `RunTypeOK`: `CompileCore_proofs` extends this module and
`SeqJournal` together, so their names differ.

### SeqJournal

| State | Code |
|---|---|
| `slock` | the lock file: its creator, and whether its mtime is beyond the 30 s |
| `disk`, `tmp` | record files and temporary files of every chain |
| `pc`, `seq`, `prev` | the locals of `append_record` |

A record is its author, its form (`appended`, `truncated`, `annotated`) and the hash of the record below;
a hash is the author with the form, so that rewriting a record changes its hash. `EnterLock`, `StatStale`,
`UnlinkStale` and `WaitTimeout` are `_SeqLock.__enter__`; `AllocateSeq`, `TestFree`, `WriteTemp` and
`PublishRecord` are the body of `append_record`; `ExitLock` is `__exit__`, which removes the lock by its
path. `TruncateOwnRecord` and `RewriteOwnRecord` are the annotation `verify_run` makes to a record it has
already appended, outside the lock. `LockAges` is time. A process appends one record, which is what the
programs that call `append_record` do between two of their own decisions.

### CompileDriver

| State | Code |
|---|---|
| `journal` | the records of the branch, by seq: compile, verify, revert, adjudication, reset |
| `head`, `tree` | the content of each view in the newest commit and in the working tree |
| `lock` | the run lock, as `RunMutex` has it |
| `pc`, `job` | where each session is and its locals, the text read for a leg among them |

A view's content is the run that wrote its body and the run whose verification its stamp records. The verbs
map to actions as follows: `--run` is `Reconcile`, `Absorb` (or `AbsorbRefused`), `VerifyStart`, `AskNoOp` and
`NoOpAnswer` for each no-op, `SendPacket` and `Answer` for each view, `VerifyCommit`, `Grade`, and `AutoRevert`
when something is missing;
`--reverify` is `Reverify` and the same legs; `--revert` is `Revert` (its checks) and then `Restore` (its
effects); `--set-aside` is `SetAside`; `--baseline-reset` is `ResetBaseline`, which
appends a `BaselineReset` record. `VerifyRaises` is a held lock, a refusing guard or a failing backend. The verdict of a leg is any
of four outcomes; "recorded" and "blocking" rejections are one here, since they differ in an exit code only.

Abstractions: an append and its commit are one step (`CompileRun` takes them apart); an author keeps the
derivation region of a view, as the validator demands; whether git can merge is decided by what changed
since the run, and where only the distance of two hunks decides, both outcomes are possible. The commit a
reset refreshes the baseline from is the one the branch starts with. A no-op
candidate is an event of the class that has to be verified (the others are consumed when the run is committed).
The routing legs are in `CoverageDebt`; staging is left out.

### CompileRun

| State | Code |
|---|---|
| `tree`, `head` | views in the working tree and in the newest commit |
| `jtree`, `jhead` | the journal likewise, as functions from seqs to records |
| `made` | numbers the records, so that two records with one seq differ |
| `pc`, `job` | the one session and its locals |

`Begin`, `Validate`, `RefuseItem`, `WriteView`, `AppendRecord` and `Commit` are `run()`; `Leg`, `EndOfLegs`,
`AppendRecord`, `Commit`, `Annotate` and a second `Commit` are `verify_run()`; `GitRevert` or `GitConflict`,
`RestoreView`, `RestoreRecord`, `AppendRecord` and `Commit` are `revert_run_commit`. `StepFails` is an I/O
error, `CommitFails` a commit that git refuses, `Crash` a kill at any step. `DiscardLeftovers` and
`CommitLeftovers` are the two ways out a person has, and `Tidy` says whether one is taken before the next
verb. Files a run creates are not told from those it edits here (they are in `CompileDriver`), and
`--set-aside` and `--baseline-reset` are left out.

### CoverageDebt

| State | Code |
|---|---|
| `journal` | compile, verify and revert records, with the routing and the findings they carry |
| `pass` | what the holder of the run lock has under way: a checked plan, or a question to the verifier |

What is owed is never stored: `Rows`, `Cleared`, `Rerouted`, `Rejudged` and `Outstanding` are
`coverage_debt_rows`, `cleared_debt_ids`, `clears_all_seqs` and the rest of `outstanding_coverage_debt`,
computed from the journal. `Check` and `Absorb` are `run()` around `check_claim_routing`; `Ask` and `Record` are
the routing leg of `verify_run`, with the second question it puts to a verifier that objects without a quote,
and `Gaps` is what it keeps of the two answers. `GiveUp` is a pass that ends without a record. `Revert` is the
driver's and needs no lock: any run may be reverted, also with a pass under way. `Honest` is what is assumed of
the verifier: one that can be attributed and that judges names every claim the table leaves out, now or in the
answer it gave before. Whether it quotes each one, confirms, objects or stays silent is open, and with `Misnames`
a finding without a quote may land on another event of the run. Every event a plan routes is one the run absorbs.

### Candidates

| State | Code |
|---|---|
| `day` | the date that names new files, and that expiry counts from |
| `files`, `removed` | the staging directory, and what was deleted from it by hand |
| `ledger` | `receipts/candidates/`, in order |
| `raw` | raw events written by promotions, with the artifact in their text |
| `plock` | `promote-candidate.lock`: held, by whom, old or not |
| `hpc`, `hev` | harvesters: file first, then record |
| `rpc`, `listed`, `known`, `plan` | reconcilers: the listing, the snapshot of the ledger, what they decided |
| `ppc`, `pev`, `part` | promoters: the step, the candidate's file, the artifact |

`Harvest` is `harvest-candidates.py` (write the file, append `staged`); `Reconcile` is
`register-candidates.py` (list, read the ledger, plan, append one record at a time); `Promote` is
`promote-candidate.py`: `PreChecks` before the lock, `TakeLock`, `FindStale`, `BreakLock` and `GiveUp` for the lock,
`Recheck` under it, `FindRaw` (does the raw event exist, and is it this artifact's?), `WriteRaw` (which replaces
whatever is there by then), `AppendPromoted`, `LeaveLock`. `HarvesterDies`, `ReconcilerDies` and `PromoterDies` are
kills; `RemoveFile` is a person with `rm`; `LockAges` and `Tick` are time. `SlowHolders` says whether a living
promoter can hold the lock beyond 30 s, `MayCrash` which promoters are killed, `BadFiles` which malformed files
were put into the directory.

### RetirePublish

| State | Code |
|---|---|
| `obj`, `made` | the commits, by number, with parent, ancestors, record and tree |
| `head` | the branch, moved by `git update-ref` with the old value |
| `prepared` | the commits that `refs/retire/<seq>` and `refs/retire/batch/<id>` name |
| `tags` | the commits a promotion record names |
| `tree` | the working tree, which `git read-tree` brings to the head afterwards |
| `session` | a compile session that has written a view and not yet committed |
| `pc`, `job` | terminals: the command and what it has in hand |

`Propose` and `ProposeBatch` with `Member` and `Binder` are `retire.py`, and so are `Discard` and
`Recover`. `Promote` and `PromoteBatch` are `promote.py`, `Publish` is `trust.py`; each then goes through `Check`
and `Move`, the first two also through `SyncTree` and `DropRefs`. `Rollback`, `PrepareRollback` and `TagRollback` make an inverse commit that is
published in the same way. `SessionWrites` and `SessionCommits` are the engine beside it, `Crash` kills a
command between any two steps, `ResetTree` is the person who brings a lagging tree back to the branch. `Quiet`
says that a session and a command do not run at once. `Synced` says that a session writes only where the
working tree is that of the branch: the tree lags after a kill between `promote.py:403` and `:409` and after every
`trust.py --publish`, and no code tests for it before a run, so that this is asked of the person. `MembersAlone` lets a member of a batch be promoted
by its own digest.

### Pending

| State | Code |
|---|---|
| `now` | the clock, in the resolution of the ledgers |
| `landed` | retirements and trust-surface commits on the branch |
| `sweeps`, `acks`, `alarms` | the three append-only files |
| `briefed`, `draft`, `tip` | committed briefings, and the briefing file in tree and `HEAD` |
| `runs`, `pc`, `loc` | run ids given out; sessions and what they have read |
| `watch` | alarms the observer has decided on and not yet written |

The list is computed at each look: `Counts` is `_ack_defect`, `Unread` is `status()`'s list, `Missed` and
`FailedCycles` are what the observer alarms about. The observer looks (`ObserverLooks`), reads the alarms again
(`ObserverReads`) and appends row by row (`ObserverWrites`); an attended open does the same with `Start`, `Reread`
and `Raise` before its own row (`Open`). `Render`, `CommitBriefing`, `Ack`, `AckRow`, `AckEnd`, and `Ok` with `CloseOk`
or `Fail` with `CloseFailed`, are the rest of a sweep: each close takes its time in one step and is on file in a later one.
A commit bears its committer's date and may land later (`Land`); rows and items carry the time they
came in (`at`), which the properties are about and the code never sees. Where the code takes a time just before a look
(`pending.py:592`, `:784`, `:832`), the model takes it with the look, so that more has to be read. A briefing
is the set of items it shows. Assumed: run ids are unique, clocks agree, and rows are not edited.

### AttributionWalk

| State | Code |
|---|---|
| `commits` | the first-parent history of one view: what made each commit, the view in it, and the view its record names |
| `flightPlan` | does the view lie under `wiki/flight-plans/`? |

The actions are what other modules describe, seen in the history only: `AbsorbView`, with an edit that an editor
saved before the commit; `Verify`; `SetAside`; both reverts, `RestoreBytes` also when a commit came in after its
check; `Retire`; `EditLinks`; `Edit` by hand or through a merge. `Walk(i, j)` is `_attribute_view_history` with the
approved commit `i` and the run's parent `j`: `Accounted` is its classification of a commit, `Opened`, `Closed` and `Stop`
its treatment of reverted runs. `Progress` is the walk after each commit, a recursive function of the commit's number.
The specification is `HistorySpec`, its types `HistoryTypeOK`, since `VerifyRun_proofs` extends this module and `CoverageDebt`
together.

What the property compares the walk with is a path (`LeadsTo`): commits from the approved one to where grading
starts, each made on the bytes that the one before it left, and each answered for if it changes the text. It is about
bytes and not about who wrote a piece. Reverts that restore bytes may bring a text back under another run's name: three
runs that take a piece out, put it in and take it out again, reverted in the order they were made, leave the text as it
was before them, and git's history gives the piece to the second of them.
A baseline that is not on the first-parent line and a record of an unknown kind end the walk at once, and are left out;
so are edits that went into the commit of a verification.

### Converge

| State | Code |
|---|---|
| `ledger` | `ledger.json`: rounds, and per claim its state, digest and history |
| `evidence` | the evidence file of each claim |
| `files` | `verdicts/<claim>-r<round>.json` |
| `pc`, `job` | `converge.js` processes: the ledger they read, digests, answers |
| `outcome` | converged, escalated or handed off |

`Start` is `main()` up to the first verifier (cap, lint, digests); `Ask`, `Answer`, `Collected`, `Record` and
`WriteLedger` are the round, with `Concurrency` verifiers out at a time; `HaltVerify`, `HaltRecord` and `Killed`
are its failures. `Process`, `Cascade`, `Reground`, `CopyVerdict` and `Dispose` are the session between rounds,
as the skill's text and the lint allow it. `MidRound`, `PendingAgain` and several `Rounders` are the things it is told not to do, or not told.

## 3. Runs

Each passing run ends with every reachable state of its instance visited; the numbers are distinct states.
`Inv` is in each module its type invariant together with the named invariants in brackets.

| Run | Instance | Shows |
|---|---|---|
| `lock_exclusion` (4 024) | 3 processes, none breaks, 2 crashes, pids reused, one uses the CLI | `MutualExclusion`, and the lockfile implements `RunMutex` |
| `lock_recovery` (369) | 2 processes that break and retry, 2 crashes | `OrphanRecovered`: the lock is free or in living hands again and again |
| `lock_break_race` | 2 breakers, 1 crash | violates `LiveLockNeverBroken` (section 5) |
| `seq_writers` (970) | 3 processes, 2 chains, an annotating verify run, one process killed anywhere | `ChainsAtRest`, `WaiterServed`, and the chains implement `AppendLog` |
| `driver_one_session` (840 138) | 2 views, one of them new, and 1 no-op event, runs of 1 or 2 of them, every verb and verdict, one session at a time, 1 crash, 4 records | `Inv` (`UnverifiedBlocks`), `RevertedTextGone`, `LegOnEveryAbsorption`, `RevertUndoesOnlyItsRun`, `ConfirmedStands`, `BlockedIsResolved`, the branch implements `RunLedger` and the use of the lock `RunMutex` |
| `run_tidy` (245 777) | 2 views, 5 records, 2 crashes, failing commits, a tidy operator | `Inv` (`CommittedChain`), `HeadMatchesJournal`, `RefusalLeavesNoTrace`, `NeverSilent`, and the commits implement `CommitHistory` |
| `debt_history` (149 514) | 2 events, 1 claim, 2 runs, 6 records | `Inv` (`JudgedOnce`), `NothingForgotten`, `DebtIsTakenOver` |
| `candidates_gate` (688 888) | 1 candidate, 2 artifacts, 2 promoters of which one is killed, a harvester, a reconciler, 1 mishap (a kill or a removed file), a file that may be malformed, 2 days, fairness | `Inv` (`PromotedHasRaw`, `RecordHasFile`), `SingleUse`, `NoOrphanLeft`, `AllSettle` (no candidate stays open), and ledger and raw directory implement `PromotionLedger` |
| `retire_brake` (782 578) | 2 views, 1 terminal, 5 commits, 1 crash, a session | `Inv` (`PublishedReads`), `RemainderStaysOut`, `ForwardOnly`, and the published texts implement `Publication` |
| `pending_sweeps` (9 029 439) | an attended and a scheduled session, an observer that starts until there is an alarm, 1 item that is up to a second old, 2 runs, 2 briefings, 3 seconds, 1 crash | `Inv` (`AckCounts`), `OkMeansRead`, `FailureIsRead` |
| `converge_rounds` (346 362) | 2 claims, 2 rounds, 2 verifiers at a time, 1 copied verdict, 1 halt, fairness | `Inv` (`VerdictOnRecord`, `NoEchoJudged`), `EachRoundOnFreshBytes`, `ConvergedOnWhatWasJudged`, `RoundsAreFinal`, `LoopEnds` |
| `walk_windows` (1 515 034) | 1 view of 2 pieces, a flight plan or not, 6 commits | `WalkInv` (`NothingSlipsThrough`): between any two commits, what a verifier is not asked about was answered for |

Why the bounds are enough to be interesting:

- *Lock.* Two processes race and a third arrives late. Two crashes let an orphan be orphaned again.
- *Journal.* Two writers of one chain collide on a seq, and the third shows that the lock spans chains. One
  crash leaves a stale lock with two waiters to remove it, one of each chain; two waiters of one chain, or a
  slow holder, are where the refinement fails (section 5).
- *Driver.* `MaxSeq` bounds where a new `--run`, `--reverify`, ruling or reset may start; the steps of a
  session that has started go on above it, so no session is cut in the middle. Four leave room for
  a run, its verification, a ruling or a failed revert, and a second run on the same views. Two reverts of
  one run are one that fails and one that succeeds. Two of three legs disagree: two views, or a view and a no-op.
- *Files.* Five records are a run, its verification, its revert and a second run with its verification. Two
  crashes are one in the work and one in its repair.
- *Debt.* Six records are two runs, a leg of each and a revert of each, in any order. Two events tell a row of
  one from the routing of the other; one claim can be given a home, deferred, left out, or cleared.
- *Candidates.* Two artifacts for one candidate make two promotions that both want it; the reconciler and the
  harvester append between the check and the consumption. Two days let a file be harvested under two names, and
  with `ExpiryDays = 0` the second day is when a candidate is due. One kill leaves one lock, and one promoter to
  find it stale: two promoters inside at once are in section 5. One mishap is a kill of one process between any
  two steps, or one file removed by hand.
- *Publication.* Five commits are a batch of two with its binder and the inverses of both, or a session's
  commit between a proposal and its publication. One kill falls between any two steps of any command.
- *Pending.* Three seconds are before, in and after a close; with `Window = 0` and `Stale = 1` a sweep is overdue
  and an open row stale within them. Two runs are one of each kind of session. One alarm of the observer's
  is enough to race with an attended open for the same failure; the open itself adds what it finds.
  Two briefings are one that is overtaken, by a change, an alarm or the other session, and the next.
- *Walk.* Six commits are the start and two runs whose reverts overlap, with one commit more before, between or
  after. Two pieces tell an edit from the run it went along with. Every commit of a history is tried as the approved one, and every later one as the run's parent.
- *Rounds.* Two rounds are the cap of tier T2. Two claims are one that is judged while the other's verifier fails.

`CHECK_DEADLOCK FALSE` is set where the processes end, or the bounds on new work do: those systems may
stop. The lock runs check deadlock.

### Fairness

- `RunLock!FairLockSpec`: a live process is scheduled, and refused runs are retried with the same flags. Crashes
  are never fair. The retry is the person's part of the documented way out, `--break-stale-lock`.
- `SeqJournal!FairSpec`: processes are scheduled and time passes. `WaitTimeout` is not fair; a waiter is
  served even if its own deadline never strikes.
- `CompileDriver!FairSpec`: a session's next step is weakly fair: every call it makes returns, the verifier's
  by the bridge's time-out. `DiscardChanges` and `--revert` of the newest blocked run are strongly fair: other
  sessions can disable them for a moment, and the property is about an operator who keeps trying. `--reverify`
  is not fair: a verifier may be out of reach for ever.
- `Candidates!FairSpec`: days pass, and the reconciler runs: every healthy session starts it. Harvests and
  promotions need not happen.
- `Converge!FairSpec`: a round goes on once it has started, and the session does its part: it starts a round,
  processes what was not confirmed, writes new evidence, or disposes. Each is a step the skill prescribes.

## 4. Proofs

| Theorem | Under | Says |
|---|---|---|
| `CompileCore_proofs!RunLockTypeCorrect` | nothing | every variable keeps its type, breakers and forcers included |
| `CompileCore_proofs!MutualExclusionHolds` | `KeepsLocks` | `MutualExclusion`, for any processes, crashes and reused pids |
| `CompileCore_proofs!LockfileIsAMutex` | `KeepsLocks` | the lockfile implements `RunMutex` |
| `CompileCore_proofs!TypeCorrect` | nothing | every variable keeps its type, with crashes and stale locks |
| `CompileCore_proofs!SeqMutexHolds` | `NoExpiry` | one process allocates at a time, over all chains |
| `CompileCore_proofs!AppendedStaysHolds` | `NoExpiry` | a record keeps the seq its author was given |
| `CompileCore_proofs!JournalIsALog` | `NoExpiry` | the files implement `AppendLog`, the annotation included |
| `CompileCore_proofs!ChainsAtRestHolds` | `NoExpiry`, `[]AnnotatesAlone` | every chain checks while no record waits for its annotation |
| `CompileCore_proofs!ChainsAtRestAlone` | `NoExpiry`, `SoleWriters` | the same, where each annotating run is the only writer of its chain |
| `CompileCore_proofs!ChainsAtRestUnderRunLock` | `NoExpiry`, `KeepsLocks`, `[]OneByOne`, `[]HoldsRunLock` | the same, where whoever writes to a chain that waits for an annotation holds the run lock |
| `CompileDriver_proofs!TypeCorrect` | nothing | every variable keeps its type, for any number of sessions at once |
| `CompileDriver_proofs!InvHolds` | `OneAtATime` | types and `UnverifiedBlocks`: a run without a disposition is at work or blocks the next |
| `CompileDriver_proofs!RevertedTextGoneHolds` | `OneAtATime` | no view holds text of a run that the journal calls reverted |
| `CompileDriver_proofs!LegOnEveryAbsorptionHolds` | `OneAtATime` | a run that counts as verified has a completed leg on all it absorbed |
| `CompileDriver_proofs!RevertUndoesOnlyItsRunHolds` | `OneAtATime` | a revert changes no view but its run's, and those only where its own text is on top |
| `CompileDriver_proofs!ConfirmedStandsHolds` | `OneAtATime` | a run that was confirmed throughout is not reverted |
| `CompileDriver_proofs!LedgerImplemented` | `OneAtATime` | the branch implements `RunLedger` |
| `CompileDriver_proofs!LockIsAMutex` | nothing | the passes of any sessions take and free the lock as `RunMutex` has it |
| `CompileDriver_proofs!OnePassAtATime` | nothing | one verify pass at a time, and no run absorbs meanwhile |
| `CompileDriver_proofs!JournalIsALog` | nothing | the journal implements `AppendLog`, whatever sessions write to it |
| `CompileDriver_proofs!SaidIsFinalHolds` | nothing | a run that was verified or reverted stays so, and no completed answer is lost |
| `CompileRun_proofs!TypeCorrect` | nothing | every variable keeps its type, for any operator, failures and kills |
| `CompileRun_proofs!InvHolds` | `Cleared` | types and `CommittedChain`: the journal of every commit checks |
| `CompileRun_proofs!HeadMatchesJournalHolds` | `Cleared` | each committed text is that of the newest run that stands on its view |
| `CompileRun_proofs!NeverSilentHolds` | `Cleared` | no run starts over a committed run without a disposition |
| `CompileRun_proofs!RefusalLeavesNoTraceHolds` | nothing | a refused plan writes no view |
| `CompileRun_proofs!HistoryImplemented` | `Cleared` | the commits implement `CommitHistory` |
| `CompileRun_proofs!LedgerKept` | `Cleared` | the same commits implement `RunLedger`, whatever fails or is killed between two files of a run |
| `Candidates_proofs!ExclusiveHolds` | `NoBreaks` | no two living promoters are between `Recheck` and `AppendPromoted` at once |
| `Candidates_proofs!PromotedHasRawHolds` | `[]Exclusive` | a record that consumes an artifact is a promotion whose raw event was written under it and is still its own |
| `Candidates_proofs!SingleUseHolds` | `[]Exclusive` | one commit arms one promotion |
| `Candidates_proofs!GateImplemented` | `[]Exclusive` | ledger and raw directory implement `PromotionLedger` |
| `Candidates_proofs!InvHolds` | `[]Exclusive` | types, `PromotedHasRaw` and `RecordHasFile` |
| `Candidates_proofs!TypeCorrect` | nothing | every variable keeps its type, with kills, slow holders and broken locks |
| `Candidates_proofs!RecordHasFileHolds` | nothing | the ledger claims no file that was not written |
| `Candidates_proofs!NoOrphanLeftHolds` | nothing | a reconciler that ran to its end leaves no file it saw without a record |
| `RetirePublish_proofs!BranchMovesForward` | nothing | no publication loses a commit of the branch, for any terminals, sessions and kills |
| `RetirePublish_proofs!TypeCorrect` | nothing | types, and no two proposals share a ref or a promotion record |
| `RetirePublish_proofs!RemainderStaysOutHolds` | `~MembersAlone` | what a stopped batch left is not published |
| `RetirePublish_proofs!InvHolds` | `Quiet`, `Synced`, `~MembersAlone` | types and `PublishedReads`: the reader calls published what the publisher let through |
| `RetirePublish_proofs!PublicationImplemented` | `Quiet`, `Synced` | the texts on the branch implement `Publication` |
| `VerifyRun_proofs!JudgedOnceHolds` | nothing | types, and no run's routing is judged twice |
| `VerifyRun_proofs!DebtIsTakenOverHolds` | nothing | debt leaves only to a later run over its event that stands |
| `VerifyRun_proofs!NothingForgottenHolds` | `~Misnames` | what the newest judged routing of an event leaves out is outstanding |
| `VerifyRun_proofs!WalkInvHolds` | nothing | types and `NothingSlipsThrough`, for histories of any length and texts of any number of pieces |
| `Converge_proofs!TypeCorrect` | nothing | every variable keeps its type, for any `converge.js` processes at once |
| `Converge_proofs!InvHolds` | `Disciplined` | types, `VerdictOnRecord` and `NoEchoJudged` |
| `Converge_proofs!EachRoundOnFreshBytesHolds` | `Disciplined` | no claim is judged twice in a row on the same bytes |
| `Converge_proofs!ConvergedOnWhatWasJudgedHolds` | `Disciplined` | a converged session's last verdicts are about the evidence that lies there |
| `Converge_proofs!RoundsAreFinalHolds` | `Disciplined` | recorded rounds and entries stay, and a round starts over no waiting claim |
| `Pending_proofs!TypeCorrect` | nothing | every variable keeps its type: no row of a run that was not given out, or from the future |
| `Pending_proofs!InvHolds` | `StopsAtClose` | types and `AckCounts`: what an acknowledgement took is pending no more |
| `Pending_proofs!OkMeansReadHolds` | `StopsAtClose` | an ok close means everything before it was read |
| `Pending_proofs!FailureIsReadHolds` | `StopsAtClose` | an ok close means that the failures before its open were read |

The premises are about the constants, those under a `[]` excepted, and they are needed: section 5 says what fails
without each.

- `KeepsLocks` (lock): no process passes `--break-stale-lock` or `--force`, which are the person's decision.
- `NoExpiry` (journal) and `NoBreaks` (candidates, where it gives `Exclusive`): nobody is killed inside the sequence or promotion lock, and no
  living holder outlasts its 30 seconds. A holder does one append, and the lock has no other way to be broken.
- `AnnotatesAlone`: while a verify record waits for its annotation, nobody is appending to the same chain. A
  `--run` and a `--reverify` hold the run lock through both (`compile-v2.py:2955-3421`), and an annotation outside of
  it is the divergence of section 5. `SoleWriters` is a way to have it by the constants alone, and
  `HoldsRunLock` is the code's way: who appends to a chain under annotation is inside the run lock, and one command
  appends its records one after the other (`OneByOne`). The driver's own appends (`compile-driver.py:1369`, `:2790`, `:3022`)
  take no run lock and are outside of the theorem.
- `OneAtATime`: one session of the driver. The run lock serialises what it covers; section 5 lists what two sessions do
  in the gaps between checks and lock.
- `Cleared`: the operator commits or discards leftovers before the next verb, as the driver's own message asks, and
  the two commits after a verification succeed. All other commits may fail.
- `Exclusive` (candidates): no two promoters are inside the promotion lock at once. `NoBreaks` is one way to have it
  (`ExclusiveHolds`), and the instance of `candidates_gate` another: its holder may be killed, but nobody is left
  to break the lock twice. Where locks are broken by two, or under a slow holder, the code has no such guarantee.
- `Quiet`: a session and a publication do not run at once; `trust.py:904` demands it. `Synced`: before a session, a
  person brings a working tree that lags to the branch (`git read-tree`, `git checkout`). This is an assumption about the
  person and not about the code, which would write on the old tree and take a seq of the branch again. `~MembersAlone`: nobody
  promotes one member of a batch by its own digest.
- `Disciplined`: one `converge.js` at a time, a session that waits for its round, and `recheck` as the way to ask
  for a judged claim again. The skill's text prescribes each.
- `StopsAtClose`: a session writes no row under a run it has closed.
- `~Misnames`: findings name an event of their run.

No theorem bounds the number of sessions, views, records, rounds or kills; the bounds in the modules are constants
of any value. Apart from the premises, the theorems rest on the assumptions the modules state about their
constants, which TLC evaluates in every run.

*Lockfile.* `MutualExclusion` is not inductive: from a state in which a process is about to unlink a file
that is another's, exclusion is lost two steps later. The invariant `RunLockInv` adds that a process from its create
to its unlink finds its own file at the path (`InsideOwnsFile`) and that nobody is at the removal step. `O_EXCL`
keeps the first, `KeepsLocks` the second. Two processes inside would then both have created the one file. For the
refinement, the abstract owner is the file's creator while it is inside and an orphan afterwards. `CreateExcl`
is `Take`, the unlink is `Give`, and a crash or the CLI's exit is `Die`. `BreakOrphan` cannot occur.

*Journal.* `LockInv`: whoever is in the critical section owns the lock file, the file always belongs to
somebody inside, and so no waiter finds it stale. On top of it `JournalInv` ties the locals to the files: an
allocated seq is the one above the chain's end until it is published, and the temporary file is the
process's own. `PublishAppends` then shows that the only step that changes a chain's authors appends one,
and `SetFormKeepsAuthors` that the annotation changes none. For `ChainsAtRest`, `ChainInv` follows the hash: what
a process took as the last record's hash is still that until it publishes, and only the last record of a
chain can be truncated, by a run that is rewriting it. So a rewrite changes no bytes that a later record has
hashed, which is what `AnnotatesAlone` is for. The run lock provides it: two writers at once would both hold the lock
(`RunLockKeepsWritersOff`), so `MutualExclusion` of one module discharges the premise of the other.

*Driver.* `RunsFit`, `LaterFit` and `JobFits` say that every later record is about a run on record and a session
works on such a run; with the types they are inductive for any number of sessions. With one session,
`OnlyNewestOpen` and `NoneOpenAtAbsorb` make the runs that stand on a view a stack: each was written over the text
of the one before, and the view holds the text of the top one. That gives `RevertedTextGone` and, since only
the top can be undone, `RevertUndoesOnlyItsRun`. For `LegOnEveryAbsorption` the invariant keeps account of
the legs a session has sent and of those the records hold; what excuses a view from a leg, a baseline that
advanced, is never taken back. In the refinement a compile record is `RunLedger`'s start, a verify record or the ruling
that completes it its verification, a revert its end. What holds with any number of sessions is proved apart, from the types and
one more fact: a session whose pass is under way holds the lock (`PassHoldsLock`), because it took it when it was free
and nobody but itself or its death gives it up. So passes exclude each other, and an absorption, which needs a free lock.
What two sessions can still do to each other, they do outside of the lock (section 5).

*Files and commits.* `JournalSound` is about one commit alone: its chain has no gap, and each text is that of the top of
the runs that stand there. `Leftovers` says how far the working tree may be from the commit when nobody works, and
`RunPhase`, `VerifyPhase` and `RevertPhase` what the session has written but not committed at each step. A crash goes
from a phase to leftovers; `Cleared` goes from leftovers back to the commit. `NeverSilent` needs that the next verb
looks at a tree that has all that is committed. `CommitHistory` follows from `JournalSound` before and after
each commit. `LedgerKept` reads the same commits as the ledger of runs that `CompileDriver` implements with whole runs as
single steps: a run is committed, by its session or by the operator who picks up what a killed one left, when no run is open
(`AllClosed` in `NewRecord`), a second commit with the annotation changes no entry, and a verification that comes after
a failed one closes what that one left open.

*Promotion gate.* Harvesters and reconcilers append records that consume nothing (`PlainStep`), so that single use
is a matter among promoters. `UseInv` says that what a promoter found unused under the lock still is when it
appends, and `RawInv` ties its step to the raw directory: what `FindRaw` found absent is absent until `WriteRaw`, and from
then on the raw event is there under the promoter's artifact. Both are lost when a second promoter comes in, since
`WriteRaw` replaces what it does not look at again; so they are shown for behaviours with `[]Exclusive`. `LockInv`, whose lock file
always belongs to the one promoter inside, gives `Exclusive` where `NoBreaks` holds. `RecordHasFile` and `NoOrphanLeft` need no lock:
`FileInv` says that whoever is about to append a record has seen its file, or wrote it, and that a file
stays unless it is removed by hand. A reconciler that has listed the directory has each file it saw either on record or
in the rest of its batch (`ReconcileOK`), and others' appends can only move one from the batch to the record.

*Publication.* `ForwardOnly` needs that a command moves the branch only to a commit that has the branch's old
value among its ancestors. `JobsOK` says so of what each terminal has in hand: a chain of commits, each the
child of the one before, the first a child of the head it compared with. `ObjOK`, `RefsOK` and `ShapeOK` say that
commits, refs and batches are as they were made; the compare-and-swap of `Move` does the rest. `BatchInv` adds whose a commit is: no
two binders share a member, members that are still being prepared are in one hand, and a promotion of
a batch has in hand that binder's chain and no other commit. So a member reaches the branch only with its batch, from
the base the batch was prepared on, and the remainder of a stopped batch has lost that base for good. `TreeInv`
is about the tree of every commit, published or not: its journal has each record among its ancestors, at
the seq of the record (`JournalOK`), and its texts are its parent's with one layer more on one view or, for a
rollback, one less, a retirement's (`TextOK`). A session that has written holds the next seq and the next layer
while every terminal is aside (`SessionOK`): that they are the next ones of the branch needs `Synced`, that they stay so needs `Quiet`. `TextOK` is the step of `Publication`. The reader
wants a tag besides: `TagRec` says that what is on the branch has its own or its binder's.

*Debt.* `Structure` holds the journal together: a leg is above its run, a plan clears rows that are below it and of
an event it routes, and a run that no leg has judged has no leg. Let *s* be the newest standing run over an
event, with a leg *r*. What *s* leaves out was put on record in *r*, by `Honest` and what `Gaps` keeps. Whatever
cleared such a row, by name, in bulk or by a new judgement, would be a standing run over that event above *s*.

*Walk.* The walk is a recursive function over a history of any length, so its theorem needs an induction over data. The
library's induction rules cannot be instantiated by the provers here; instead, `LeastNumber` gives any set of numbers a least one,
and what holds after every commit is shown by looking at the first commit after which it would not. This is done twice:
for the recursion to have a solution (`ProgressSteps`), and for `WalkSound`, what the walk knows after commit *k*. With no run
open the path has come to *k* with the bytes of *k*, unless the walk has stopped behind it; with runs open, the path up to
the first of them is kept, and the span's bytes are those at its end. A commit that is accounted for makes the path
longer (`PathGoesOn`), the close of a span brings its bytes back and so the same path (`ReachesAgain`), and
a stop falls back to the path that was kept. `HistorySound` says of the commits what the walk does not look at: a
verification, a ruling and a link edit leave the text alone, and an edit is what its commit holds.

*Rounds.* `ClaimSound` ties a claim to its history: the digest is that of the last verdict, the evidence is as judged
until the claim is to be judged again, and no two verdicts in a row are about the same bytes. `RoundSound` says at each
place of a round what it holds: the ledger it has read is the one on disk but for what it is about to write, the
digests it took are of the evidence that lies there, and the answers out are about those bytes. A kill
between the verdict files and the ledger leaves files without entries, which the next round writes again.

*Pending list.* A row counts only by other rows: an acknowledgement by its run's attended open, by that run's close, which may
not be the earlier one, and by a briefing that had been committed and shows the item. `RunsOwned` says that a run is one session's,
`ClosesLast` that it has one close, after its last acknowledgement, and `AllCount` that every row written so far
counts. `Told` says that for each failed close that was on file before an attended session opened there is an alarm, or the session
has it in hand: what its second reading drops is on file by then. `ReadAtClose` says that between its last look and its close
nothing is unread that came in before the time of the close; what lands meanwhile did not. A session that goes on after its close breaks the second of these first.

Every safety property that a run checks is a theorem, and so is every refinement. Only model-checked is what needs fairness
(`OrphanRecovered`, `WaiterServed`, `BlockedIsResolved`, `AllSettle`, `LoopEnds`), which TLAPS does not reach.

## 5. Findings

One disagreement of the code with what the repository says of it has a run of its own: **two runs break one
stale lock** (`lock_break_race`). `acquire_lock` decides on what it read (`compile-core.py:121`) and then removes
the path (`:132`). A second breaker removes the lock the first has just taken, and a lock that is created but
not yet filled reads as stale. `compile-core.py:10`: "a live-PID lock is NEVER auto-broken".

The properties of the passing runs depend on their instances. Outside of them some fail, and this is known.
Each row was found with TLC, by changing the constants as it says; the properties named here that no run
checks are defined in the modules.

| Property | Fails when |
|---|---|
| `ChainsAtRest` | another process appends to the chain while `verify_run` annotates its record, after the sequence lock is released (`compile-v2.py:3383`): the new record holds the hash of bytes that no longer exist, against `compile-core.py:18`; also when the annotator is killed while it rewrites |
| the refinement of `AppendLog` | two waiters of one chain find the same stale sequence lock and the second removes the first's new one, or a holder is slower than 30 s |
| `UnverifiedBlocks`, the refinement of `RunLedger` | two `--run` sessions reconcile before either absorbs |
| `RevertUndoesOnlyItsRun` | a `--run` or `--reverify` commits between the checks and the effects of `--revert` |
| `ConfirmedStands` | a `--reverify` confirms the run whose `--run` could not take the lock and reverts it |
| `RevertedTextGone` | `--revert` lands while a verify leg is out: the leg reads the view (`compile-v2.py:3084`), waits minutes, and writes back what it read with the stamp (`:3271`) |
| `RevertedStampGone` | one leg is confirmed and another fails: the automatic revert (`compile-driver.py:2073`) is a merge that keeps the stamp committed since, against `:1275`, "The stamp goes with the absorption it stamped" |
| `LegOnEveryRun` | run 1 is rejected, run 2 on the same view is killed before its verification, `--set-aside` rules on run 1, and `--reverify` of run 2 finds the ruling newer and sends no leg (`compile-v2.py:2243-2259`): run 2 counts as verified and nobody has judged it, against `compile-driver.py:2048`, "a leg on EVERY absorption" |
| `NeverSilent` | a session is killed while `git revert -n` has its run's record out of the working tree, and the next verb starts over the leftovers (`Tidy = FALSE`): reconciliation does not see the run, and the next `--run` takes its seq (`compile-driver.py:1322-1335`), against `:209`, "a detected-and-blocking state, never a silent one" |
| `CommittedChain` | the commit of a verify record or of its annotation fails: the revert then commits its own record above a gap |
| `NothingForgotten` | `Misnames`: a finding that names no event of the run is filed under the first (`compile-v2.py:826-838`), and the claim it is about has no row where it belongs |
| `SingleUse`, `PromotedHasRaw`, the refinement of `PromotionLedger` | two promoters wait on one stale promotion lock, or a holder is slower than 30 s: both are inside, both find no raw event (`promote-candidate.py:1044`), and the second replaces that of the first (`:635`), against `:1048`, "silently overwriting an existing raw event would be a write authority over truth" |
| `CrashedHarvestConverges` | a harvest is killed between file and record, and harvested again on the next day under a new name: the first file stays an orphan that no later run converges (`harvest-candidates.py:164`) |
| `PublishedReads`, the refinement of `Publication` | `Synced = FALSE`: a publication moves the branch and leaves the tree behind (a kill between `promote.py:403` and `:409`, or `trust.py --publish`, `trust.py:2464`), and a session writes on that tree and takes the seq that the published retirement has; `RemainderStaysOut` and `ForwardOnly` hold then too |
| `PublishedReads`, the refinement of `Publication` | `Quiet = FALSE`: a session writes a view while a publication replaces it (against `trust.py:904`) |
| `PublishedReads`, `RemainderStaysOut` | `MembersAlone`: `promote.py` accepts a member of a batch by its own digest (`:308`), and the reader wants the tag of the batch (`trust.py:1215`) |
| `AckCounts` | `AfterClose`: a session acknowledges under a run it has closed; the row is written and never counts (`pending.py:603`) |
| `VerdictOnRecord`, `NoEchoJudged`, `ConvergedOnWhatWasJudged` | `MidRound`: the session writes evidence while verifiers are out; the digest was taken before they read (`converge.js:237`) |
| `EachRoundOnFreshBytes` | `PendingAgain`: a judged claim put back to `pending` is not asked for new bytes (`converge.js:206,239`), against the skill's "enforced to have changed between rounds" |
| `VerdictOnRecord`, `RoundsAreFinal` | two `converge.js` processes run at the same time over one ledger |

One more thing the publication model showed, with no property of its own: rerunning `--rollback` of a batch after
`--last 1` restores nothing further.

## 6. Not modelled

- **Data.** The texts of views and packets, validation rules, frontmatter, hashes as numbers, dates and
  formats. No property is about them; a text is known by who wrote it.
- **Read-only parts.** Sensors, drills, audits, serving, the doctor, the census and the debt figures compute an
  answer from committed files and keep nothing. Most of the code's lines are in these parts.
- **Backends and the bridge.** The dispatch guard is seen from the engine only: a leg that is refused, that fails or
  that answers. What a child process does between its start and its one answer is not modelled.
- **Intake.** `registrations.py` appends to a chain of its own as `SeqJournal` has it, and decides nothing else.
- **Within the modelled parts.** Staging, the evidence files that a second verification
  overwrites, the packet that a reset or a baseline makes, a reset to a commit other than the first, and in
  `retire.py` which lines retire.
- **Time.** Clocks that disagree between machines, and alarms that must come one day: the instance of
  `Pending` is too large for TLC to check liveness.
- **Scripts and prose.** The installer, credential wrappers, hooks, recipes and templates.

## 7. Plan

What is left, the most consequential first:

1. **The bridge**: one answer per child process, none after its time-out, with close, error and time-out racing.
2. **Driver**: later refresh commits of `--baseline-reset`.
3. **Evidence files** of verify legs, with the names that `compile-v2.py:3217` gives them.

Runs are kept few: as these arrive, the ones that ask similar questions of one module are merged.

## 8. Running

    tlc -config RunLock_plain.cfg MCRunLock.tla
    tlapm CompileCore_proofs.tla

`PROJECT.json` lists the runs with their configurations, the code lines each definition stands for, the
replacement that refutes each property, the hazards of the code and the theorems.
