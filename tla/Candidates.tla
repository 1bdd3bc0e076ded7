----------------------------- MODULE Candidates -----------------------------
(***************************************************************************)
(* Session candidates: harvest-candidates.py stages a file,                *)
(* register-candidates.py reconciles files and ledger,                     *)
(* promote-candidate.py turns a registered candidate into a raw event      *)
(* under a signed artifact that may be used once.                          *)
(*                                                                         *)
(* All three append to one ledger (receipts/candidates/) whose appends     *)
(* SeqJournal models: here an append is one step. Only promotions exclude  *)
(* one another; harvesters and reconcilers run beside them without a lock. *)
(***************************************************************************)
EXTENDS Naturals, FiniteSets, Sequences, SequencesExt

CONSTANTS Cands,          \* candidate ids: a session and a span
          Artifacts,      \* signed gate artifacts on the branch
          ArmsOf,         \* the one candidate each artifact names
          CommitOf,       \* the commit that introduced each artifact
          Harvesters,     \* processes, each harvesting again and again
          Reconcilers,    \* processes, each reconciling again and again
          Promoters,      \* processes, each promoting at most once
          MayCrash,       \* promoters that can be killed
          SlowHolders,    \* can a living promoter hold the lock beyond 30 s?
          BadFiles,       \* malformed files that may lie in the staging directory
          MaxDay,         \* bound on the calendar
          ExpiryDays,     \* _EXPIRY_DAYS
          MaxMishaps,     \* bound: harvesters and reconcilers killed, files removed by hand
          NoArtifact, Nobody

Days == 1..MaxDay
Events == Cands \X Days      \* a staged file is named by its date and its candidate id

ASSUME CandidatesAssumption ==
  /\ IsFiniteSet(Cands)
  /\ ArmsOf \in [Artifacts -> Cands]
  /\ NoArtifact \notin Artifacts
  /\ Nobody \notin Promoters
  /\ MayCrash \subseteq Promoters
  /\ SlowHolders \in BOOLEAN
  /\ BadFiles \subseteq Events
  /\ MaxDay \in Nat \ {0} /\ ExpiryDays \in Nat /\ MaxMishaps \in Nat

VARIABLES day,        \* today
          files,      \* what is under each name of the staging directory
          removed,    \* names whose file was removed by hand
          ledger,     \* the candidate chain
          raw,        \* raw events: the artifact in their text
          plock,      \* promote-candidate.lock
          hpc, hev,   \* harvesters: the step, and the file at hand
          rpc, listed, known, plan,   \* reconcilers: the step, staged_paths, known_events, actions
          ppc, pev, part,   \* promoters: the step, the candidate's file, the artifact
          deaths      \* harvesters and reconcilers killed so far

harvest == <<hpc, hev>>
reconcile == <<rpc, listed, known, plan>>
promote == <<raw, plock, ppc, pev, part>>
staging == <<day, files, removed>>
vars == <<staging, ledger, deaths, harvest, reconcile, promote>>
outside == <<staging, ledger, deaths, harvest, reconcile>>

Mishaps == deaths + Cardinality(removed)

STATES == {"staged", "registered", "promoted", "expired", "quarantined"}
TERMINAL_STATES == {"promoted", "expired", "quarantined"}
Records == [event : Events, state : STATES, art : Artifacts \cup {NoArtifact}]
Record(e, state) == [event |-> e, state |-> state, art |-> NoArtifact]

FreeLock == [owner |-> Nobody, held |-> FALSE, old |-> FALSE]

-----------------------------------------------------------------------------
(* The ledger as its readers see it.                                       *)

NoEvent == <<>>
None == [event |-> NoEvent, state |-> "none", art |-> NoArtifact]

\* The effective map: a later record of the same candidate supersedes.
load_candidate_ledger(led) ==
  [c \in Cands |->
     LET S == {n \in DOMAIN led : led[n].event[1] = c}
     IN IF S = {} THEN None ELSE led[CHOOSE n \in S : \A m \in S : m <= n]]

effective_state(c) == load_candidate_ledger(ledger)[c].state

known_events == {ledger[n].event : n \in DOMAIN ledger}

\* Check 10, over the whole history: neither the artifact nor its commit has
\* been consumed by any record, superseded or not.
SingleUseScan(g) ==
  \A n \in DOMAIN ledger : ledger[n].art # NoArtifact
                              => CommitOf[ledger[n].art] # CommitOf[g]

-----------------------------------------------------------------------------
(* The harvester.                                                          *)

HGoto(h, from, to) == hpc[h] = from /\ hpc' = [hpc EXCEPT ![h] = to]

\* Step 2: a terminal candidate, and one whose file is there, end the run
\* without a trace; a candidate with a record but no file gets its file back;
\* a candidate without a record is fresh.
HarvestLookup(h, c) ==
  LET rec == load_candidate_ledger(ledger)[c]
  IN /\ rec.state \notin TERMINAL_STATES
     /\ \/ /\ rec.state = "none"
           /\ HGoto(h, "idle", "write")
           /\ hev' = [hev EXCEPT ![h] = <<c, day>>]
        \/ /\ rec.state # "none" /\ files[rec.event] = "none"
           /\ HGoto(h, "idle", "rewrite")
           /\ hev' = [hev EXCEPT ![h] = rec.event]
     /\ UNCHANGED <<staging, ledger, deaths, reconcile, promote>>

\* The run ends; its memory is gone.
HEnd(h, from) == HGoto(h, from, "idle") /\ hev' = [hev EXCEPT ![h] = NoEvent]

\* write_candidate_atomic: the file appears whole, over whatever had its name.
PutFile(e) == files' = [files EXCEPT ![e] = "valid"]

Rematerialise(h) ==
  /\ HEnd(h, "rewrite")
  /\ PutFile(hev[h])
  /\ UNCHANGED <<day, removed, ledger, deaths, reconcile, promote>>

\* Step 3: file first, record second.
HarvestWrite(h) ==
  /\ HGoto(h, "write", "append")
  /\ PutFile(hev[h])
  /\ UNCHANGED <<day, removed, ledger, deaths, hev, reconcile, promote>>

HarvestAppend(h) ==
  /\ HEnd(h, "append")
  /\ ledger' = Append(ledger, Record(hev[h], "staged"))
  /\ UNCHANGED <<staging, deaths, reconcile, promote>>

HarvesterDies(h) ==
  /\ Mishaps < MaxMishaps
  /\ \E step \in {"write", "append", "rewrite"} : HEnd(h, step)
  /\ deaths' = deaths + 1
  /\ UNCHANGED <<staging, ledger, reconcile, promote>>

-----------------------------------------------------------------------------
(* The reconciler.                                                         *)

RGoto(r, from, to) == rpc[r] = from /\ rpc' = [rpc EXCEPT ![r] = to]

\* Mutated form: a file is no orphan once its candidate has a record.
FreshOrphans(paths, events) ==
  {e \in paths \ events : /\ files[e] # "none"
                          /\ load_candidate_ledger(ledger)[e[1]] = None}

\* Step 1: the listed files that no record names and that are still there.
Orphans(paths, events) == {e \in paths \ events : files[e] # "none"}

Earliest(S) == CHOOSE e \in S : \A f \in S : e[2] <= f[2]
Latest(S) == CHOOSE e \in S : \A f \in S : f[2] <= e[2]

\* When orphan e is reached, in the order of names, its candidate's state is
\* already planned, or on record, for another file.
Claimed(O, e) ==
  LET rec == load_candidate_ledger(ledger)[e[1]]
      before == {f \in O : f[1] = e[1] /\ f[2] < e[2]}
  IN \/ \E f \in before : files[f] = "bad"
     \/ IF rec = None THEN before # {} ELSE rec.event # e

\* A malformed orphan is quarantined, and so is a claimed one.
OrphanState(O, e) == IF files[e] = "bad" \/ Claimed(O, e) THEN "quarantined" ELSE "staged"

\* The planned states after step 1. The quarantine of a claimed file, unlike
\* that of a malformed one, leaves its candidate's planned state alone.
AfterOrphans(O) ==
  [c \in Cands |->
     LET rec == load_candidate_ledger(ledger)[c]
         own == {e \in O : e[1] = c}
         bad == {e \in own : files[e] = "bad"}
     IN IF bad # {} THEN Record(Latest(bad), "quarantined")
        ELSE IF rec = None /\ own # {} THEN Record(Earliest(own), "staged")
        ELSE IF rec.event \in own THEN Record(rec.event, "staged")
        ELSE rec]

\* Steps 2 and 3: which candidates in planned state `from` move on, and how.
Movers(eff, from) == {c \in Cands : eff[c].state = from /\ files[eff[c].event] = "valid"}
Moved(eff, S, to) == [c \in Cands |-> IF c \in S THEN Record(eff[c].event, to) ELSE eff[c]]

\* Mutated form: a candidate expires a day late.
ExpiresLate(e) == day - e[2] > ExpiryDays + 1

Expired(e) == day - e[2] > ExpiryDays

\* One planned record per event, in order; it becomes a record when appended.
Moves(events, states) == [n \in DOMAIN events |-> <<events[n], states[events[n]]>>]

\* The files in the order of their names: by date first.
NameOrders(O) == {s \in SetToSeqs(O) : \A m, n \in DOMAIN s : m < n => s[m][2] <= s[n][2]}

\* One step's records after the other's.
AllTo(state) == [e \in Events |-> state]
Batches(orphans, states, registered, expired) ==
  {Moves(s, states) \o Moves(t, AllTo("registered")) \o Moves(u, AllTo("expired")) :
     s \in NameOrders(orphans), t \in SetToSeqs(registered), u \in SetToSeqs(expired)}

\* The whole batch, from the paths and events read before and the effective
\* map read now: orphans in the order of their names, then staged to
\* registered, then registered to expired, in the order of the effective map.
compute_actions(paths, events) ==
  LET O == Orphans(paths, events)
      eff1 == AfterOrphans(O)
      S == Movers(eff1, "staged")
      eff2 == Moved(eff1, S, "registered")
      X == {c \in Movers(eff2, "registered") : Expired(eff2[c].event)}
  IN Batches(O, [e \in O |-> OrphanState(O, e)],
             {eff1[c].event : c \in S}, {eff2[c].event : c \in X})

ListStaged(r) ==
  /\ RGoto(r, "idle", "history")
  /\ listed' = [listed EXCEPT ![r] = {e \in Events : files[e] # "none"}]
  /\ UNCHANGED <<staging, ledger, deaths, known, plan, harvest, promote>>

ReadHistory(r) ==
  /\ RGoto(r, "history", "plan")
  /\ known' = [known EXCEPT ![r] = known_events]
  /\ UNCHANGED <<staging, ledger, deaths, listed, plan, harvest, promote>>

PlanActions(r) ==
  /\ RGoto(r, "plan", "append")
  /\ \E batch \in compute_actions(listed[r], known[r]) : plan' = [plan EXCEPT ![r] = batch]
  /\ known' = [known EXCEPT ![r] = {}]
  /\ UNCHANGED <<staging, ledger, deaths, listed, harvest, promote>>

\* run_register_candidates appends the batch record by record and looks at
\* nothing again.
AppendPlanned(r) ==
  /\ rpc[r] = "append" /\ plan[r] # <<>>
  /\ ledger' = Append(ledger, Record(Head(plan[r])[1], Head(plan[r])[2]))
  /\ plan' = [plan EXCEPT ![r] = Tail(@)]
  /\ UNCHANGED <<staging, deaths, rpc, listed, known, harvest, promote>>

ReportRun(r) ==
  /\ plan[r] = <<>>
  /\ RGoto(r, "append", "reported")
  /\ UNCHANGED <<staging, ledger, deaths, listed, known, plan, harvest, promote>>

Rest(r) ==
  /\ RGoto(r, "reported", "idle")
  /\ listed' = [listed EXCEPT ![r] = {}]
  /\ UNCHANGED <<staging, ledger, deaths, known, plan, harvest, promote>>

\* Killed, or stopped by an append that failed: the records already appended
\* stay.
ReconcilerDies(r) ==
  /\ Mishaps < MaxMishaps
  /\ rpc[r] \notin {"idle", "reported"}
  /\ rpc' = [rpc EXCEPT ![r] = "idle"]
  /\ listed' = [listed EXCEPT ![r] = {}]
  /\ known' = [known EXCEPT ![r] = {}]
  /\ plan' = [plan EXCEPT ![r] = <<>>]
  /\ deaths' = deaths + 1
  /\ UNCHANGED <<staging, ledger, harvest, promote>>

-----------------------------------------------------------------------------
(* The promotion gate.                                                     *)

PGoto(p, from, to) == ppc[p] = from /\ ppc' = [ppc EXCEPT ![p] = to]

\* Check 1: the candidate is registered, its event is a path in the staging
\* directory, and the file there is still the one registered.
Eligible(rec) == /\ rec.state = "registered"
                 /\ rec.event \in Events /\ files[rec.event] = "valid"

\* Checks 2 to 9: a clean candidate, and an artifact on the branch, introduced
\* by a commit with a pinned signature, that names this candidate and no other.
ArmedBy(c, g) == ArmsOf[g] = c

\* Checks 1 to 10 without the lock. A refusal leaves no trace.
PreChecks(p, c, g) ==
  LET rec == load_candidate_ledger(ledger)[c]
  IN /\ Eligible(rec) /\ ArmedBy(c, g) /\ SingleUseScan(g)
     /\ PGoto(p, "check", "lock")
     /\ pev' = [pev EXCEPT ![p] = rec.event]
     /\ part' = [part EXCEPT ![p] = g]
     /\ UNCHANGED <<outside, raw, plock>>

\* Mutated form: the create does not fail on a lock that is there.
TakeHeldLock(p) ==
  /\ PGoto(p, "lock", "recheck")
  /\ plock' = [owner |-> p, held |-> TRUE, old |-> FALSE]
  /\ UNCHANGED <<outside, raw, pev, part>>

\* _PromotionLock: the O_EXCL create.
TakeLock(p) ==
  /\ ~plock.held
  /\ PGoto(p, "lock", "recheck")
  /\ plock' = [owner |-> p, held |-> TRUE, old |-> FALSE]
  /\ UNCHANGED <<outside, raw, pev, part>>

\* The lock found is older than the timeout; the waiter then removes whatever
\* is under its name.
FindStale(p) ==
  /\ plock.held /\ plock.old
  /\ PGoto(p, "lock", "break")
  /\ UNCHANGED <<outside, raw, plock, pev, part>>

BreakLock(p) ==
  /\ PGoto(p, "break", "lock")
  /\ plock' = FreeLock
  /\ UNCHANGED <<outside, raw, pev, part>>

\* Check 12: the waiter's patience ends while another promotion is at it.
GiveUp(p) ==
  /\ plock.held /\ ~plock.old
  /\ PGoto(p, "lock", "done")
  /\ UNCHANGED <<outside, raw, plock, pev, part>>

\* Mutated form: only the state is looked at again under the lock.
RecheckStateOnly(p) ==
  /\ PGoto(p, "recheck", IF effective_state(pev[p][1]) = "registered" THEN "raw" ELSE "leave")
  /\ UNCHANGED <<outside, raw, plock, pev, part>>

\* The authoritative re-checks under the lock.
Recheck(p) ==
  /\ PGoto(p, "recheck", IF /\ effective_state(pev[p][1]) = "registered"
                            /\ SingleUseScan(part[p])
                         THEN "raw" ELSE "leave")
  /\ UNCHANGED <<outside, raw, plock, pev, part>>

\* Mutated form: an existing raw event is taken for this promotion's own.
TakeAnyRaw(p) ==
  /\ PGoto(p, "raw", IF raw[pev[p]] = NoArtifact THEN "write" ELSE "append")
  /\ UNCHANGED <<outside, raw, plock, pev, part>>

\* The raw event, whose text names the artifact: absent, it is to be written;
\* with the same text, an earlier attempt wrote it; with another, the run refuses.
FindRaw(p) ==
  /\ PGoto(p, "raw", CASE raw[pev[p]] = NoArtifact -> "write"
                       [] raw[pev[p]] = part[p] -> "append"
                       [] OTHER -> "leave")
  /\ UNCHANGED <<outside, raw, plock, pev, part>>

\* os.replace: over whatever has come to be there since the look.
WriteRaw(p) ==
  /\ PGoto(p, "write", "append")
  /\ raw' = [raw EXCEPT ![pev[p]] = part[p]]
  /\ UNCHANGED <<outside, plock, pev, part>>

AppendPromoted(p) ==
  /\ PGoto(p, "append", "leave")
  /\ ledger' = Append(ledger, [event |-> pev[p], state |-> "promoted", art |-> part[p]])
  /\ UNCHANGED <<staging, deaths, raw, plock, pev, part, harvest, reconcile>>

\* __exit__ removes the lock by its name, whoever's it is.
LeaveLock(p) ==
  /\ PGoto(p, "leave", "done")
  /\ plock' = FreeLock
  /\ UNCHANGED <<outside, raw, pev, part>>

PromoterDies(p) ==
  /\ p \in MayCrash
  /\ ppc[p] \notin {"check", "done", "dead"}
  /\ ppc' = [ppc EXCEPT ![p] = "dead"]
  /\ UNCHANGED <<outside, raw, plock, pev, part>>

Locked == {"recheck", "raw", "write", "append", "leave"}

\* The lock's mtime falls behind the timeout: a dead holder's, or SlowHolders.
LockAges ==
  /\ plock.held /\ ~plock.old
  /\ SlowHolders \/ ppc[plock.owner] \notin Locked
  /\ plock' = [plock EXCEPT !.old = TRUE]
  /\ UNCHANGED <<outside, raw, ppc, pev, part>>

-----------------------------------------------------------------------------
Tick ==
  /\ day < MaxDay
  /\ day' = day + 1
  /\ UNCHANGED <<files, removed, ledger, deaths, harvest, reconcile, promote>>

\* A staged file is removed outside the lifecycle (VANISHED CANDIDATE).
RemoveFile(e) ==
  /\ Mishaps < MaxMishaps
  /\ files[e] = "valid"
  /\ files' = [files EXCEPT ![e] = "none"]
  /\ removed' = removed \cup {e}
  /\ UNCHANGED <<day, ledger, deaths, harvest, reconcile, promote>>

Init ==
  /\ day = 1
  /\ \E B \in SUBSET BadFiles : files = [e \in Events |-> IF e \in B THEN "bad" ELSE "none"]
  /\ removed = {} /\ ledger = <<>> /\ deaths = 0
  /\ raw = [e \in Events |-> NoArtifact]
  /\ plock = FreeLock
  /\ hpc = [h \in Harvesters |-> "idle"] /\ hev = [h \in Harvesters |-> NoEvent]
  /\ rpc = [r \in Reconcilers |-> "idle"]
  /\ listed = [r \in Reconcilers |-> {}] /\ known = [r \in Reconcilers |-> {}]
  /\ plan = [r \in Reconcilers |-> <<>>]
  /\ ppc = [p \in Promoters |-> "check"]
  /\ pev = [p \in Promoters |-> NoEvent] /\ part = [p \in Promoters |-> NoArtifact]

Harvest(h) == \/ \E c \in Cands : HarvestLookup(h, c)
              \/ Rematerialise(h) \/ HarvestWrite(h) \/ HarvestAppend(h)

Reconcile(r) == \/ ListStaged(r) \/ ReadHistory(r) \/ PlanActions(r)
                \/ AppendPlanned(r) \/ ReportRun(r) \/ Rest(r)

Promote(p) == \/ \E c \in Cands, g \in Artifacts : PreChecks(p, c, g)
              \/ TakeLock(p) \/ FindStale(p) \/ BreakLock(p) \/ GiveUp(p)
              \/ Recheck(p) \/ FindRaw(p) \/ WriteRaw(p)
              \/ AppendPromoted(p) \/ LeaveLock(p)

Next == \/ \E h \in Harvesters : Harvest(h) \/ HarvesterDies(h)
        \/ \E r \in Reconcilers : Reconcile(r) \/ ReconcilerDies(r)
        \/ \E p \in Promoters : Promote(p) \/ PromoterDies(p)
        \/ LockAges \/ Tick
        \/ \E e \in Events : RemoveFile(e)

Spec == Init /\ [][Next]_vars

\* A healthy session runs the reconciler at its start, and days pass.
FairSpec == /\ Spec
            /\ WF_vars(Tick)
            /\ \A r \in Reconcilers : WF_vars(Reconcile(r))

-----------------------------------------------------------------------------
PSteps == {"check", "lock", "break", "done", "dead"} \cup Locked

TypeOK ==
  /\ day \in Days
  /\ files \in [Events -> {"none", "valid", "bad"}]
  /\ removed \subseteq Events
  /\ ledger \in Seq(Records)
  /\ deaths \in Nat
  /\ raw \in [Events -> Artifacts \cup {NoArtifact}]
  /\ plock \in [owner : Promoters \cup {Nobody}, held : BOOLEAN, old : BOOLEAN]
  /\ hpc \in [Harvesters -> {"idle", "write", "append", "rewrite"}]
  /\ hev \in [Harvesters -> Events \cup {NoEvent}]
  /\ rpc \in [Reconcilers -> {"idle", "history", "plan", "append", "reported"}]
  /\ listed \in [Reconcilers -> SUBSET Events]
  /\ known \in [Reconcilers -> SUBSET Events]
  /\ plan \in [Reconcilers -> Seq(Events \X STATES)]
  /\ ppc \in [Promoters -> PSteps]
  /\ pev \in [Promoters -> Events \cup {NoEvent}]
  /\ part \in [Promoters -> Artifacts \cup {NoArtifact}]

\* No two `promoted` records were armed by the same commit, whatever else is
\* appended between check and consumption (promote-candidate.py:663: "one
\* signed artifact arms exactly one promotion").
SingleUse ==
  \A m, n \in DOMAIN ledger :
     (ledger[m].art # NoArtifact /\ ledger[n].art # NoArtifact /\ m # n)
        => CommitOf[ledger[m].art] # CommitOf[ledger[n].art]

\* Every record that consumes an artifact is a promotion whose raw event was
\* written under that artifact: no promotion is on record that did not happen,
\* or whose raw event another promoter has replaced.
PromotedHasRaw ==
  \A n \in DOMAIN ledger :
     ledger[n].art # NoArtifact => /\ ledger[n].state = "promoted"
                                   /\ raw[ledger[n].event] = ledger[n].art

\* The ledger never claims a file that was not written: whatever event a
\* record names is there, unless somebody removed it by hand.
RecordHasFile ==
  \A n \in DOMAIN ledger : \/ files[ledger[n].event] # "none"
                           \/ ledger[n].event \in removed

\* Types, and a ledger that claims nothing that did not happen: no promotion without
\* its raw event, no record without its file.
Inv == TypeOK /\ PromotedHasRaw /\ RecordHasFile

\* A reconciler that ran to its end has left no file it saw without a record,
\* valid or not, whatever crashed harvest it came from.
NoOrphanLeft ==
  \A r \in Reconcilers :
     rpc[r] = "reported" => listed[r] \subseteq known_events \cup removed

\* No staged candidate is left open: in the end it is dispositioned, or it is
\* registered and not due to expire, or somebody has removed one of its files.
Settled(e) == LET rec == load_candidate_ledger(ledger)[e[1]]
              IN \/ rec.state \in TERMINAL_STATES
                 \/ rec.state = "registered" /\ day - rec.event[2] <= ExpiryDays
AllSettle == \A e \in Events : files[e] = "valid" ~> (Settled(e) \/ \E f \in removed : f[1] = e[1])

\* Check 2 of check-candidates.py: every staged file is the one some
\* candidate's effective record names. harvest-candidates.py:164 promises it of
\* a harvest that crashed: "a VISIBLE conservation gap that
\* register-candidates.py converges on its next run".
CrashedHarvestConverges ==
  \A r \in Reconcilers :
     rpc[r] = "reported" =>
        \A e \in listed[r] \ removed :
           \E c \in Cands : load_candidate_ledger(ledger)[c].event = e

-----------------------------------------------------------------------------
Gate == INSTANCE PromotionLedger
          WITH raws <- raw,
               promotions <- {<<ledger[n].event, ledger[n].art>> :
                                n \in {m \in DOMAIN ledger : ledger[m].art # NoArtifact}}

\* Raw directory and ledger implement the abstract gate.
ImplementsGate == Gate!Spec
=============================================================================
