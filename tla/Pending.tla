------------------------------ MODULE Pending ------------------------------
(***************************************************************************)
(* The pending list (pending.py): what the operator has not read yet. The  *)
(* list is computed at each look from the branch and from three files that *)
(* are only appended to, without a lock: heartbeats of sweeps, rows of     *)
(* acknowledgement, alarms. Sweeps and the observer run at once.           *)
(*                                                                         *)
(* Abstracted: a briefing is the set of the items it shows, and its bytes  *)
(* are that set; rows are never edited, so the findings about edited rows  *)
(* and about the ledgers' own history are left out.                        *)
(***************************************************************************)
EXTENDS Integers, FiniteSets, FiniteSetsExt

CONSTANTS Attended, Unattended,  \* sweep sessions, by RHEOSCOPE_UNATTENDED
          Window,                \* observation_window_days
          Stale,                 \* OPEN_STALE_HOURS
          AfterClose,            \* does a session go on under a run it has closed?
          MaxItems, MaxRuns, MaxTime, MaxCrashes,
          MaxAlarms, MaxBriefings, MaxLag  \* bounds

ASSUME PendingAssumption ==
  /\ Attended \cap Unattended = {} /\ AfterClose \in BOOLEAN
  /\ Window \in Nat /\ Stale \in Nat
  /\ MaxItems \in Nat /\ MaxRuns \in Nat /\ MaxTime \in Nat /\ MaxCrashes \in Nat
  /\ MaxAlarms \in Nat /\ MaxBriefings \in Nat /\ MaxLag \in Nat

Sessions == Attended \cup Unattended

VARIABLES now,       \* the clock, in the ledgers' resolution
          landed,    \* retirements and trust-surface commits on the branch
          sweeps, acks, alarms,
          briefed,   \* committed briefings: what they show, and when
          draft, tip,  \* the briefing file: in the working tree, and at HEAD
          runs,      \* run ids given out
          pc, loc,   \* the sessions: step, and what they have read
          watch,     \* the alarms the observer is about to write
          crashes

vars == <<now, landed, sweeps, acks, alarms, briefed, draft, tip, runs, pc, loc, watch, crashes>>

-----------------------------------------------------------------------------
\* status(): everything below is computed from the files at each look.

\* A commit carries its committer's date, which the list shows, and comes onto the
\* branch at another time (at), which the code never sees.
Item(kind, n, date, at) == [kind |-> kind, n |-> n, date |-> date, at |-> at]

\* An alarm is an item of its own, named by its time and its kind.
AlarmItem(a) == Item(a.kind, 0, a.ts, a.ts)
Items == landed \cup {AlarmItem(a) : a \in alarms}

Rows(kind, run) == {r \in sweeps : r.kind = kind /\ r.run = run}
FirstClose(run) == Min({r.ts : r \in Rows("close", run)})

\* A run is attended when every open row of it is.
AttendedRun(run) == Rows("open", run) # {} /\ \A r \in Rows("open", run) : r.attended

\* rendered_in: a commit by its id, an alarm by its time.
RenderedIn(shows, it) == IF it.kind = "commit" THEN it \in shows
                         ELSE \E x \in shows : x.kind # "commit" /\ x.date = it.date

\* _ack_defect finds nothing wrong with row a.
Counts(a) ==
  /\ a.ts >= a.item.date
  /\ AttendedRun(a.run)
  /\ Rows("close", a.run) # {} => a.ts <= FirstClose(a.run)
  /\ \E b \in briefed : b.shows = a.shows /\ b.at <= a.ts
  /\ RenderedIn(a.shows, a.item)

Acked == {a.item : a \in {r \in acks : r.item \in Items /\ Counts(r)}}
Unread == Items \ Acked

Never == -1
OkCloses == {r \in sweeps : r.kind = "close" /\ r.outcome = "ok" /\ r.attended /\ AttendedRun(r.run)}
LastAttendedOk == IF OkCloses = {} THEN Never ELSE Max({r.ts : r \in OkCloses})

\* A cycle failed when it closed so, or was left open too long.
FailedCycles == {r \in sweeps : \/ r.kind = "close" /\ r.outcome = "failed"
                                \/ r.kind = "open" /\ Rows("close", r.run) = {} /\ now - r.ts > Stale}
Cycle(r) == <<r.run, r.ts>>

Overdue == {it \in Unread : now - it.date > Window}
Missed == \/ Overdue # {}
          \/ LastAttendedOk = Never /\ Unread # {}
          \/ LastAttendedOk # Never /\ now - LastAttendedOk > Window

-----------------------------------------------------------------------------
Blank == [run |-> 0, ts |-> 0, todo |-> {}, unread |-> {}, whole |-> TRUE, shows |-> {},
          new |-> {}, reread |-> FALSE]
At(s) == [Blank EXCEPT !.run = loc[s].run]

Goto(s, to, l) == pc' = [pc EXCEPT ![s] = to] /\ loc' = [loc EXCEPT ![s] = l]

Init == /\ now = 0 /\ landed = {}
        /\ sweeps = {} /\ acks = {} /\ alarms = {}
        /\ briefed = {} /\ draft = {} /\ tip = {}
        /\ runs = 0 /\ crashes = 0
        /\ pc = [s \in Sessions |-> "idle"] /\ loc = [s \in Sessions |-> Blank]
        /\ watch = [new |-> {}, reread |-> FALSE]

\* The world: time passes, and changes land, some of them made before.
Tick == /\ now < MaxTime /\ now' = now + 1
        /\ UNCHANGED <<landed, sweeps, acks, alarms, briefed, draft, tip, runs, pc, loc, watch, crashes>>

Land == /\ Cardinality(landed) < MaxItems
        /\ \E date \in {d \in 0..now : now - d <= MaxLag} :
             landed' = landed \cup {Item("commit", Cardinality(landed) + 1, date, now)}
        /\ UNCHANGED <<now, sweeps, acks, alarms, briefed, draft, tip, runs, pc, loc, watch, crashes>>

-----------------------------------------------------------------------------
\* observe(): a look at what failed and what is overdue, the alarms on file read
\* once more, then one row for each alarm. Whether the same missed cycle is
\* outstanding is settled by the look, whether a failed cycle has its alarm by the
\* second reading; what is appended after that is not seen.

Alarm(kind, key) == [kind |-> kind, ts |-> now, key |-> key]
Raised(a) == \E b \in alarms : b.kind = a.kind /\ b.key = a.key
Outstanding(a) == \E b \in alarms : b.kind = a.kind /\ b.key = a.key /\ AlarmItem(b) \in Unread

Fresh(new) == {a \in new : a.kind = "failed" => ~Raised(a)}

FailedAlarms == {Alarm("failed", Cycle(r)) : r \in FailedCycles}
MissedAlarms == IF Missed THEN {Alarm("missed", <<LastAttendedOk>>)} ELSE {}

\* An alarm on file stays, so those the look finds need no second reading.
Due == Fresh(FailedAlarms) \cup {a \in MissedAlarms : ~Outstanding(a)}

Writing(new) == [new |-> new, reread |-> new # {}]

ObserverLooks ==
  /\ watch.new = {} /\ Cardinality(alarms) < MaxAlarms
  /\ watch' = [new |-> Due, reread |-> FALSE]
  /\ UNCHANGED <<now, landed, sweeps, acks, alarms, briefed, draft, tip, runs, pc, loc, crashes>>

ObserverReads ==
  /\ watch.new # {} /\ ~watch.reread
  /\ watch' = Writing(Fresh(watch.new))
  /\ UNCHANGED <<now, landed, sweeps, acks, alarms, briefed, draft, tip, runs, pc, loc, crashes>>

ObserverWrites ==
  /\ watch.reread
  /\ \E a \in watch.new :
       alarms' = alarms \cup {a} /\ watch' = Writing(watch.new \ {a})
  /\ UNCHANGED <<now, landed, sweeps, acks, briefed, draft, tip, runs, pc, loc, crashes>>

-----------------------------------------------------------------------------
\* A sweep, under a run id of its own.

\* A row bears the time its caller took; at, when a failed close came to the file,
\* which the code never sees.
Heartbeat(s, kind, outcome) ==
  sweeps' = sweeps \cup {[kind |-> kind, run |-> loc[s].run, ts |-> loc[s].ts,
                          at |-> IF outcome = "failed" THEN now ELSE loc[s].ts,
                          attended |-> s \in Attended, outcome |-> outcome]}

\* Mutated form: an open without a look.
StartBlind(s) ==
  /\ pc[s] = "idle" /\ runs < MaxRuns
  /\ runs' = runs + 1
  /\ Goto(s, "open", [Blank EXCEPT !.run = runs + 1, !.ts = now, !.reread = TRUE])
  /\ UNCHANGED <<now, landed, sweeps, acks, alarms, briefed, draft, tip, watch, crashes>>

\* An attended open runs the observer first.
Start(s) ==
  /\ pc[s] = "idle" /\ runs < MaxRuns
  /\ runs' = runs + 1
  /\ Goto(s, "open", [Blank EXCEPT !.run = runs + 1, !.ts = now,
                                   !.new = IF s \in Attended THEN Due ELSE {},
                                   !.reread = s \notin Attended])
  /\ UNCHANGED <<now, landed, sweeps, acks, alarms, briefed, draft, tip, watch, crashes>>

Reread(s) ==
  /\ pc[s] = "open" /\ ~loc[s].reread
  /\ Goto(s, "open", [loc[s] EXCEPT !.new = Fresh(@), !.reread = TRUE])
  /\ UNCHANGED <<now, landed, sweeps, acks, alarms, briefed, draft, tip, runs, watch, crashes>>

Raise(s) ==
  /\ pc[s] = "open" /\ loc[s].reread
  /\ \E a \in loc[s].new :
       alarms' = alarms \cup {a} /\ Goto(s, "open", [loc[s] EXCEPT !.new = @ \ {a}])
  /\ UNCHANGED <<now, landed, sweeps, acks, briefed, draft, tip, runs, watch, crashes>>

Open(s) ==
  /\ pc[s] = "open" /\ loc[s].reread /\ loc[s].new = {}
  /\ Heartbeat(s, "open", "")
  /\ Goto(s, "render", At(s))
  /\ UNCHANGED <<now, landed, acks, alarms, briefed, draft, tip, runs, watch, crashes>>

Render(s) ==
  /\ pc[s] = "render"
  /\ draft' = Unread
  /\ Goto(s, "commit", loc[s])
  /\ UNCHANGED <<now, landed, sweeps, acks, alarms, briefed, tip, runs, watch, crashes>>

CommitBriefing(s) ==
  /\ pc[s] = "commit" /\ Cardinality(briefed) < MaxBriefings
  /\ tip' = draft /\ briefed' = briefed \cup {[shows |-> draft, at |-> now]}
  /\ Goto(s, IF s \in Attended THEN "ack" ELSE "close", loc[s])
  /\ UNCHANGED <<now, landed, sweeps, acks, alarms, draft, runs, watch, crashes>>

\* Mutated form: the briefing need not be what HEAD holds.
AckAnyDraft(s) ==
  /\ pc[s] = "ack"
  /\ LET shown == {it \in Unread : RenderedIn(draft, it)}
     IN Goto(s, "rows", [loc[s] EXCEPT !.ts = now, !.shows = draft, !.todo = shown, !.unread = shown,
                                       !.whole = (shown = Unread)])
  /\ UNCHANGED <<now, landed, sweeps, acks, alarms, briefed, draft, tip, runs, watch, crashes>>

\* ack(): the briefing must be what HEAD holds; then one row for each item it shows.
Ack(s) ==
  /\ pc[s] = "ack"
  /\ LET shown == {it \in Unread : RenderedIn(draft, it)}
     IN IF draft = tip
          THEN Goto(s, "rows", [loc[s] EXCEPT !.ts = now, !.shows = draft, !.todo = shown,
                                              !.unread = shown, !.whole = (shown = Unread)])
          ELSE Goto(s, "render", loc[s])
  /\ UNCHANGED <<now, landed, sweeps, acks, alarms, briefed, draft, tip, runs, watch, crashes>>

AckRow(s) ==
  /\ pc[s] = "rows"
  /\ \E it \in loc[s].todo :
       /\ acks' = acks \cup {[ts |-> loc[s].ts, run |-> loc[s].run, item |-> it, shows |-> loc[s].shows]}
       /\ loc' = [loc EXCEPT ![s].todo = @ \ {it}]
  /\ UNCHANGED <<now, landed, sweeps, alarms, briefed, draft, tip, runs, pc, watch, crashes>>

\* What the briefing does not show is refused, after the rows of what it does.
AckEnd(s) ==
  /\ pc[s] = "rows" /\ loc[s].todo = {}
  /\ IF loc[s].whole THEN Goto(s, "acked", [At(s) EXCEPT !.unread = loc[s].unread])
                            ELSE Goto(s, "render", At(s))
  /\ UNCHANGED <<now, landed, sweeps, acks, alarms, briefed, draft, tip, runs, watch, crashes>>

\* Mutated form: an ok close is not refused.
OkAnyway(s) ==
  /\ pc[s] \in {"acked", "close"}
  /\ Goto(s, "ok", [At(s) EXCEPT !.ts = now])
  /\ UNCHANGED <<now, landed, sweeps, acks, alarms, briefed, draft, tip, runs, watch, crashes>>

\* heartbeat(ok): an attended run may close so only when nothing is pending. The
\* look and the row are two steps.
Ok(s) ==
  /\ pc[s] \in {"acked", "close"}
  /\ IF s \in Attended /\ Unread # {}
       THEN Goto(s, "render", At(s))
       ELSE Goto(s, "ok", [At(s) EXCEPT !.ts = now])
  /\ UNCHANGED <<now, landed, sweeps, acks, alarms, briefed, draft, tip, runs, watch, crashes>>

CloseOk(s) ==
  /\ pc[s] = "ok"
  /\ Heartbeat(s, "close", "ok")
  /\ Goto(s, "idle", Blank)
  /\ UNCHANGED <<now, landed, acks, alarms, briefed, draft, tip, runs, watch, crashes>>

\* heartbeat(failed): the time is taken first, the row appended later.
Fail(s) ==
  /\ pc[s] \in {"render", "commit", "ack", "acked", "close"}
  /\ Goto(s, "failing", [At(s) EXCEPT !.ts = now])
  /\ UNCHANGED <<now, landed, sweeps, acks, alarms, briefed, draft, tip, runs, watch, crashes>>

CloseFailed(s) ==
  /\ pc[s] = "failing"
  /\ Heartbeat(s, "close", "failed")
  /\ \/ Goto(s, "idle", Blank)
     \/ AfterClose /\ Goto(s, "render", At(s))
  /\ UNCHANGED <<now, landed, acks, alarms, briefed, draft, tip, runs, watch, crashes>>

\* A sweep dies; its run stays open.
Crash(s) ==
  /\ pc[s] # "idle" /\ crashes < MaxCrashes
  /\ crashes' = crashes + 1
  /\ Goto(s, "idle", Blank)
  /\ UNCHANGED <<now, landed, sweeps, acks, alarms, briefed, draft, tip, runs, watch>>

Sweep(s) == \/ Start(s) \/ Reread(s) \/ Raise(s) \/ Open(s)
            \/ Render(s) \/ CommitBriefing(s) \/ Ack(s) \/ AckRow(s) \/ AckEnd(s)
            \/ Ok(s) \/ CloseOk(s) \/ Fail(s) \/ CloseFailed(s)

Observer == ObserverLooks \/ ObserverReads \/ ObserverWrites
Next == Tick \/ Land \/ Observer \/ \E s \in Sessions : Sweep(s) \/ Crash(s)
Spec == Init /\ [][Next]_vars

-----------------------------------------------------------------------------
TypeOK ==
  /\ now \in 0..MaxTime /\ runs \in 0..MaxRuns /\ crashes \in 0..MaxCrashes
  /\ \A it \in landed : it.date <= it.at /\ it.at <= now
  /\ \A r \in sweeps : r.run \in 1..runs /\ r.ts <= r.at /\ r.at <= now
  /\ \A a \in acks : a.item \in Items /\ a.ts <= now
  /\ \A b \in briefed : b.shows \subseteq Items /\ b.at <= now
  /\ pc \in [Sessions -> {"idle", "open", "render", "commit", "ack", "rows", "acked", "close", "ok",
                        "failing"}]

\* A successful ack leaves nothing of what it acknowledged pending
\* (pending.py:603, "a successful ack empties the pending list").
AckCounts == \A s \in Sessions : pc[s] = "acked" => loc[s].unread \subseteq Acked

\* Types, and acknowledgements that count.
Inv == TypeOK /\ AckCounts

\* An attended run that closed ok leaves no change behind it unread: whatever
\* came onto the branch before its close, however old, was acknowledged
\* (pending.py:601-606).
OkMeansRead == \A r \in OkCloses : \A it \in landed : it.at < r.ts => it \in Acked

\* No failed cycle goes untold, whatever succeeded after it: a sweep that opened
\* after its row was on file, attended, and closed ok has shown its alarm
\* (pending.py:821-828).
FailureIsRead ==
  \A r \in OkCloses : \A o \in Rows("open", r.run) :
    \A f \in sweeps : f.outcome = "failed" /\ f.at < o.ts =>
      \E al \in alarms : al.kind = "failed" /\ al.key = Cycle(f) /\ AlarmItem(al) \in Acked
=============================================================================
