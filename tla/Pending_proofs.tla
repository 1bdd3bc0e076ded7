--------------------------- MODULE Pending_proofs ---------------------------
(***************************************************************************)
(* Proofs about Pending: its types for any sessions, and for sessions that *)
(* stop at their close what an acknowledgement and an ok close mean, for   *)
(* any sweeps at once, observers' looks, changes, alarms and crashes.      *)
(***************************************************************************)
EXTENDS Pending, TLAPS

StopsAtClose == AfterClose = FALSE

-----------------------------------------------------------------------------
\* Types, with the times of everything that has one.

Steps == {"idle", "open", "render", "commit", "ack", "rows", "acked", "close", "ok", "failing"}
Fields == {"run", "ts", "todo", "unread", "whole", "shows", "new", "reread"}

Dated(time) == time \in Nat /\ time <= now
LandedOK(it) == Dated(it.date) /\ Dated(it.at) /\ it.date <= it.at
AlarmOK(a) == Dated(a.ts)
RunOK(run) == run \in 1..runs
RowOK(r) == RunOK(r.run) /\ Dated(r.ts) /\ Dated(r.at) /\ r.ts <= r.at

Typed ==
  /\ now \in 0..MaxTime /\ runs \in 0..MaxRuns /\ crashes \in 0..MaxCrashes
  /\ pc \in [Sessions -> Steps]
  /\ DOMAIN loc = Sessions /\ \A s \in Sessions : DOMAIN loc[s] = Fields

FilesOK ==
  /\ \A it \in landed : LandedOK(it)
  /\ \A a \in alarms : AlarmOK(a)
  /\ \A r \in sweeps : RowOK(r)
  /\ \A a \in acks : RunOK(a.run) /\ a.item \in Items /\ Dated(a.ts)
  /\ \A b \in briefed : b.shows \subseteq Items /\ Dated(b.at)
  /\ draft \subseteq Items
  /\ \A a \in watch.new : AlarmOK(a)

LocOK(s) ==
  /\ Dated(loc[s].ts)
  /\ pc[s] # "idle" => RunOK(loc[s].run)
  /\ loc[s].todo \subseteq Items
  /\ \A a \in loc[s].new : AlarmOK(a)

Structure == Typed /\ FilesOK /\ \A s \in Sessions : LocOK(s)

-----------------------------------------------------------------------------
\* What holds besides while a session stops at its close.

AckedItems == {a.item : a \in acks}

\* A run is one session's, and while it is at work the run has that session's open
\* row and no close.
RunsOwned ==
  /\ \A s, t \in Sessions : pc[s] # "idle" /\ pc[t] # "idle" /\ loc[s].run = loc[t].run => s = t
  /\ \A s \in Sessions : pc[s] # "idle" => \A r \in sweeps : r.run = loc[s].run =>
       r.kind = "open" /\ r.attended = (s \in Attended) /\ pc[s] # "open"
  /\ \A s \in Sessions : pc[s] \notin {"idle", "open"} =>
       \E r \in sweeps : r.kind = "open" /\ r.run = loc[s].run
  /\ \A s \in Sessions : pc[s] \in {"ack", "rows", "acked"} => s \in Attended

\* A run is closed once, after its last acknowledgement.
ClosesLast ==
  /\ \A r, q \in sweeps : r.kind = "close" /\ q.kind = "close" /\ r.run = q.run => r.ts = q.ts
  /\ \A r \in sweeps, a \in acks : r.kind = "close" /\ a.run = r.run => a.ts <= r.ts
  /\ \A s \in Sessions : pc[s] \in {"ok", "failing"} =>
       \A a \in acks : a.run = loc[s].run => a.ts <= loc[s].ts

\* What HEAD holds was committed as a briefing.
TipCommitted ==
  /\ briefed # {} => \E b \in briefed : b.shows = tip
  /\ \A s \in Sessions : pc[s] = "ack" => briefed # {}

\* What an acknowledgement has read, and what of it has its row.
AckFits(s) ==
  /\ pc[s] = "rows" =>
       /\ \E b \in briefed : b.shows = loc[s].shows /\ b.at <= loc[s].ts
       /\ \A it \in loc[s].todo : it.date \in Nat /\ it.date <= loc[s].ts
                                    /\ RenderedIn(loc[s].shows, it)
       /\ loc[s].unread \subseteq AckedItems \cup loc[s].todo
  /\ pc[s] = "acked" => loc[s].unread \subseteq AckedItems

AllCount == \A a \in acks : Counts(a)

\* A failed close has its alarm, or a session about to open has it in hand.
FailedRows == {f \in sweeps : f.outcome = "failed"}
AlarmOn(al, f) == al.kind = "failed" /\ al.key = Cycle(f)
Told ==
  /\ \A f \in FailedRows : f.kind = "close"
  /\ \A o \in sweeps : o.kind = "open" /\ o.attended =>
       \A f \in FailedRows : f.at < o.ts => \E al \in alarms : AlarmOn(al, f)
  /\ \A s \in Attended : pc[s] = "open" =>
       \A f \in FailedRows : f.at < loc[s].ts => \E al \in alarms \cup loc[s].new : AlarmOn(al, f)

\* What an attended run found acknowledged when it was let to close ok.
ReadBefore(time) == \A it \in landed : it.at < time => it \in AckedItems
ToldBefore(time) == \A f \in FailedRows : f.at < time =>
                      \E al \in alarms : AlarmOn(al, f) /\ AlarmItem(al) \in AckedItems
ReadAtClose ==
  /\ \A s \in Attended : pc[s] = "ok" =>
       /\ ReadBefore(loc[s].ts)
       /\ \A o \in Rows("open", loc[s].run) : ToldBefore(o.ts)
  /\ \A r \in sweeps : r.kind = "close" /\ r.outcome = "ok" /\ r.attended =>
       /\ ReadBefore(r.ts)
       /\ \A o \in Rows("open", r.run) : ToldBefore(o.ts)

Sound == /\ RunsOwned /\ ClosesLast /\ TipCommitted /\ AllCount
         /\ \A s \in Sessions : AckFits(s)
         /\ Told /\ ReadAtClose

IInv == Structure /\ Sound

-----------------------------------------------------------------------------
\* Every file only grows, and its new entries are of now.
LEMMA FilesGrow ==
  ASSUME Structure, [Next]_vars
  PROVE  /\ now \in Nat /\ now' \in Nat /\ now <= now' /\ runs \in Nat /\ runs <= runs' /\ runs' \in Nat
         /\ landed \subseteq landed' /\ sweeps \subseteq sweeps' /\ acks \subseteq acks'
         /\ alarms \subseteq alarms' /\ briefed \subseteq briefed'
         /\ Items \subseteq Items'
         /\ \A t : Dated(t) => Dated(t)'
         /\ \A r : RunOK(r) => RunOK(r)'
<1>1. now \in Nat /\ runs \in Nat
  BY PendingAssumption DEF Structure, Typed
<1> DEFINE Grown == /\ now' \in {now, now + 1} /\ runs' \in {runs, runs + 1}
                   /\ landed \subseteq landed' /\ sweeps \subseteq sweeps' /\ acks \subseteq acks'
                   /\ alarms \subseteq alarms' /\ briefed \subseteq briefed'
<1>2. Grown
  <2>1. CASE Tick \/ Land \/ UNCHANGED vars
    BY <2>1 DEF Tick, Land, vars
  <2>2. CASE Observer
    BY <2>2 DEF Observer, ObserverLooks, ObserverReads, ObserverWrites
  <2>3. ASSUME NEW s \in Sessions, Start(s) \/ Reread(s) \/ Raise(s) \/ Open(s) \/ Render(s) \/ CommitBriefing(s)
        PROVE  Grown
    BY <2>3 DEF Start, Reread, Raise, Open, Render, CommitBriefing, Heartbeat
  <2>4. ASSUME NEW s \in Sessions, \/ Ack(s) \/ AckRow(s) \/ AckEnd(s) \/ Ok(s) \/ CloseOk(s)
                                  \/ Fail(s) \/ CloseFailed(s) \/ Crash(s)
        PROVE  Grown
    BY <2>4 DEF Ack, AckRow, AckEnd, Ok, CloseOk, Fail, CloseFailed, Crash, Heartbeat
  <2>5. QED
    BY <2>1, <2>2, <2>3, <2>4 DEF Next, Sweep
<1>3. Items \subseteq Items'
  BY <1>2 DEF Items
<1>4. now' \in Nat /\ runs' \in Nat /\ now <= now' /\ runs <= runs'
  BY <1>1, <1>2
<1>5. \A t : Dated(t) => Dated(t)'
  BY <1>1, <1>4 DEF Dated
<1>6. \A r : RunOK(r) => RunOK(r)'
  BY <1>1, <1>4 DEF RunOK
<1>7. QED
  BY <1>1, <1>2, <1>3, <1>4, <1>5, <1>6

LEMMA DueIsNow == \A a \in Due : a.ts = now
<1>1. \A a \in FailedAlarms : a.ts = now
  BY DEF FailedAlarms, Alarm
<1>2. \A a \in MissedAlarms : a.ts = now
  BY DEF MissedAlarms, Alarm
<1>3. QED
  BY <1>1, <1>2 DEF Due, Fresh

\* A session goes to a step of its own, the others stay where they are.
LEMMA TypedStep ==
  ASSUME Structure, [Next]_vars
  PROVE  Typed'
<1> USE PendingAssumption
<1>1. Typed
  BY DEF Structure
<1>2. CASE Tick \/ Land \/ Observer \/ UNCHANGED vars
  BY <1>1, <1>2 DEF Tick, Land, Observer, ObserverLooks, ObserverReads, ObserverWrites, vars, Typed
<1>3. ASSUME NEW s \in Sessions, NEW to \in Steps, NEW l, DOMAIN l = Fields, Goto(s, to, l),
             now' = now, runs' \in 0..MaxRuns, crashes' \in 0..MaxCrashes
      PROVE  Typed'
  BY <1>1, <1>3 DEF Goto, Typed
<1>4. DOMAIN Blank = Fields
  BY DEF Blank, Fields
<1>5. ASSUME NEW s \in Sessions, Sweep(s) \/ Crash(s)
      PROVE  /\ now' = now
             /\ runs' \in 0..MaxRuns /\ crashes' \in 0..MaxCrashes
             /\ \/ loc' = [loc EXCEPT ![s].todo = loc'[s].todo] /\ pc' = pc
                \/ \E to \in Steps : \E l : DOMAIN l = Fields /\ Goto(s, to, l)
  <2>1. DOMAIN loc[s] = Fields /\ DOMAIN At(s) = Fields
    BY <1>1, <1>4, <1>5 DEF Typed, At
  <2>2. runs \in 0..MaxRuns /\ crashes \in 0..MaxCrashes
    BY <1>1 DEF Typed
  <2>3. CASE Start(s)
    <3> DEFINE l == [Blank EXCEPT !.run = runs + 1, !.ts = now,
                                  !.new = IF s \in Attended THEN Due ELSE {},
                                  !.reread = s \notin Attended]
    <3>1. DOMAIN l = Fields /\ "open" \in Steps
      BY <1>4 DEF Steps
    <3>2. Goto(s, "open", l) /\ now' = now /\ runs' \in 0..MaxRuns /\ crashes' = crashes
      BY <2>2, <2>3 DEF Start
    <3>3. QED
      BY <2>2, <3>1, <3>2
  <2>4. CASE Reread(s) \/ Raise(s) \/ Open(s) \/ Render(s) \/ CommitBriefing(s)
    BY <2>1, <2>2, <2>4 DEF Reread, Raise, Open, Render, CommitBriefing, Steps
  <2>5. CASE Ack(s) \/ AckEnd(s)
    BY <2>1, <2>2, <2>5 DEF Ack, AckEnd, Steps
  <2>6. CASE AckRow(s)
    BY <2>1, <2>2, <2>6, <1>1 DEF AckRow, Typed
  <2>7. CASE Ok(s) \/ CloseOk(s) \/ Fail(s) \/ CloseFailed(s)
    BY <2>1, <2>2, <2>7, <1>4 DEF Ok, CloseOk, Fail, CloseFailed, Steps
  <2>8. CASE Crash(s)
    BY <2>1, <2>2, <2>8, <1>4 DEF Crash, Steps
  <2>9. QED
    BY <1>5, <2>3, <2>4, <2>5, <2>6, <2>7, <2>8 DEF Sweep
<1>6. ASSUME NEW s \in Sessions, Sweep(s) \/ Crash(s) PROVE Typed'
  <2>1. CASE loc' = [loc EXCEPT ![s].todo = loc'[s].todo] /\ pc' = pc
    BY <1>1, <1>5, <1>6, <2>1 DEF Typed
  <2>2. CASE \E to \in Steps : \E l : DOMAIN l = Fields /\ Goto(s, to, l)
    BY <1>3, <1>5, <1>6, <2>2
  <2>3. QED
    BY <1>5, <1>6, <2>1, <2>2
<1>7. QED
  BY <1>2, <1>6 DEF Next

\* The files' new entries.
LEMMA FilesOKStep ==
  ASSUME Structure, [Next]_vars
  PROVE  FilesOK'
<1> USE DEF FilesOK
<1>1. FilesOK /\ now \in Nat
  BY PendingAssumption DEF Structure, Typed
<1>2. \A it \in landed : LandedOK(it)'
  BY <1>1, FilesGrow DEF LandedOK
<1>3. \A a \in alarms \cup watch.new : AlarmOK(a)'
  BY <1>1, FilesGrow DEF AlarmOK
<1>4. \A r \in sweeps : RowOK(r)'
  BY <1>1, FilesGrow DEF RowOK
<1>5. \A a \in acks : RunOK(a.run)' /\ a.item \in Items' /\ Dated(a.ts)'
  BY <1>1, FilesGrow
<1>6. \A b \in briefed : b.shows \subseteq Items' /\ Dated(b.at)'
  BY <1>1, FilesGrow
<1>7. draft \subseteq Items'
  BY <1>1, FilesGrow
<1>8. Dated(now)
  BY <1>1 DEF Dated
<1> DEFINE Old == <<landed, alarms, sweeps, acks, briefed, draft, watch>>
<1>9. CASE UNCHANGED Old
  BY <1>2, <1>3, <1>4, <1>5, <1>6, <1>7, <1>9
<1>10. CASE Land
  <2>1. \A it \in landed' : LandedOK(it)'
    BY <1>1, <1>2, <1>10 DEF Land, Item, LandedOK, Dated
  <2>2. QED
    BY <1>3, <1>4, <1>5, <1>6, <1>7, <1>10, <2>1 DEF Land
<1>11. CASE Observer
  <2>1. \A a \in watch'.new \cup alarms' : AlarmOK(a)'
    BY <1>3, <1>8, <1>11, DueIsNow
    DEF Observer, ObserverLooks, ObserverReads, ObserverWrites, Writing, Fresh, AlarmOK, Dated
  <2>2. QED
    BY <1>2, <1>4, <1>5, <1>6, <1>7, <1>11, <2>1 DEF Observer, ObserverLooks, ObserverReads, ObserverWrites
<1>12. ASSUME NEW s \in Sessions, Raise(s) PROVE FilesOK'
  <2>1. LocOK(s) /\ now' = now
    BY <1>12 DEF Structure, Raise
  <2>2. \A a \in alarms' : AlarmOK(a)'
    BY <1>3, <1>12, <2>1 DEF Raise, LocOK, AlarmOK, Dated
  <2>3. QED
    BY <1>2, <1>3, <1>4, <1>5, <1>6, <1>7, <1>12, <2>2 DEF Raise
<1>13. ASSUME NEW s \in Sessions, Open(s) \/ CloseOk(s) \/ CloseFailed(s) PROVE FilesOK'
  <2>1. LocOK(s) /\ pc[s] # "idle"
    BY <1>13 DEF Structure, Open, CloseOk, CloseFailed
  <2>2. PICK kind, outcome : Heartbeat(s, kind, outcome)
    BY <1>13, Zenon DEF Open, CloseOk, CloseFailed
  <2>3. now' = now /\ runs' = runs
    BY <1>13 DEF Open, CloseOk, CloseFailed
  <2>4. \A r \in sweeps' : \/ r \in sweeps
                           \/ r.run = loc[s].run /\ r.ts = loc[s].ts /\ r.at \in {now, loc[s].ts}
    BY <2>2 DEF Heartbeat
  <2>5. RunOK(loc[s].run) /\ Dated(loc[s].ts)
    BY <2>1 DEF LocOK
  <2>6. \A r \in sweeps' : RowOK(r)'
    BY <1>1, <1>4, <2>3, <2>4, <2>5 DEF RowOK, RunOK, Dated
  <2>7. QED
    BY <1>2, <1>3, <1>5, <1>6, <1>7, <1>13, <2>6 DEF Open, CloseOk, CloseFailed
<1>14. ASSUME NEW s \in Sessions, Render(s) \/ CommitBriefing(s) PROVE FilesOK'
  <2>1. draft' \subseteq Items'
    BY <1>7, <1>14, FilesGrow DEF Render, CommitBriefing, Unread
  <2>2. \A b \in briefed' : b.shows \subseteq Items' /\ Dated(b.at)'
    BY <1>6, <1>7, <1>8, <1>14 DEF Render, CommitBriefing, Dated
  <2>3. QED
    BY <1>2, <1>3, <1>4, <1>5, <1>14, <2>1, <2>2 DEF Render, CommitBriefing
<1>15. ASSUME NEW s \in Sessions, AckRow(s) PROVE FilesOK'
  <2>1. LocOK(s) /\ pc[s] = "rows"
    BY <1>15 DEF Structure, AckRow
  <2>2. \A a \in acks' : RunOK(a.run)' /\ a.item \in Items' /\ Dated(a.ts)'
    BY <1>5, <1>15, <2>1, FilesGrow DEF AckRow, LocOK, RunOK, Dated
  <2>3. QED
    BY <1>2, <1>3, <1>4, <1>6, <1>7, <1>15, <2>2 DEF AckRow
<1>16. CASE Tick \/ UNCHANGED vars
  BY <1>9, <1>16 DEF Tick, vars
<1>17. CASE \E s \in Sessions : \/ Start(s) \/ Reread(s) \/ Ack(s) \/ AckEnd(s) \/ Ok(s)
                               \/ Fail(s) \/ Crash(s)
  BY <1>9, <1>17 DEF Start, Reread, Ack, AckEnd, Ok, Fail, Crash
<1>18. QED
  BY <1>10, <1>11, <1>13, <1>14, <1>15, <1>16, <1>12, <1>17 DEF Next, Sweep

LEMMA OthersStay ==
  ASSUME Structure, NEW s \in Sessions, NEW t \in Sessions, t # s, Sweep(t) \/ Crash(t)
  PROVE  loc'[s] = loc[s] /\ pc'[s] = pc[s]
<1>1. DOMAIN loc = Sessions /\ DOMAIN pc = Sessions
  BY DEF Structure, Typed
<1>2. CASE Start(t) \/ Reread(t) \/ Raise(t) \/ Open(t) \/ Render(t) \/ CommitBriefing(t) \/ Ack(t)
  BY <1>1, <1>2 DEF Start, Reread, Raise, Open, Render, CommitBriefing, Ack, Goto
<1>3. CASE AckRow(t) \/ AckEnd(t) \/ Ok(t) \/ CloseOk(t) \/ Fail(t) \/ CloseFailed(t) \/ Crash(t)
  BY <1>1, <1>3 DEF AckRow, AckEnd, Ok, CloseOk, Fail, CloseFailed, Crash, Goto
<1>4. QED
  BY <1>2, <1>3 DEF Sweep

\* An attended open reads the alarms again and appends one after the other.
LEMMA RaisingIs ==
  ASSUME Structure, NEW s \in Sessions, Reread(s) \/ Raise(s)
  PROVE  /\ pc[s] = "open" /\ pc'[s] = "open"
         /\ \E new \in SUBSET loc[s].new : \E reread :
              loc'[s] = [loc[s] EXCEPT !.new = new, !.reread = reread]
         /\ loc'[s].run = loc[s].run /\ loc'[s].ts = loc[s].ts
         /\ \A a \in loc[s].new : a \in loc'[s].new \/ a \in alarms' \/ Raised(a)
         /\ UNCHANGED <<now, runs, landed, sweeps, acks, briefed, draft, tip>>
<1>1. s \in DOMAIN loc /\ s \in DOMAIN pc /\ DOMAIN loc[s] = Fields
  BY DEF Structure, Typed
<1>2. CASE Reread(s)
  <2>1. /\ pc[s] = "open" /\ pc'[s] = "open"
        /\ loc'[s] = [loc[s] EXCEPT !.new = Fresh(@), !.reread = TRUE]
        /\ UNCHANGED <<now, runs, landed, sweeps, acks, briefed, draft, tip>>
    BY <1>1, <1>2 DEF Reread, Goto
  <2>2. loc'[s].new = Fresh(loc[s].new) /\ loc'[s].run = loc[s].run /\ loc'[s].ts = loc[s].ts
    BY <1>1, <2>1 DEF Fields
  <2>3. Fresh(loc[s].new) \in SUBSET loc[s].new
        /\ \A a \in loc[s].new : a \in Fresh(loc[s].new) \/ Raised(a)
    BY DEF Fresh
  <2>4. QED
    BY <2>1, <2>2, <2>3
<1>3. CASE Raise(s)
  <2>1. PICK a \in loc[s].new : /\ alarms' = alarms \cup {a}
                               /\ Goto(s, "open", [loc[s] EXCEPT !.new = @ \ {a}])
    BY <1>3 DEF Raise
  <2>2. pc'[s] = "open" /\ loc'[s] = [loc[s] EXCEPT !.new = loc[s].new \ {a}]
    BY <1>1, <2>1 DEF Goto
  <2>3. loc'[s].new = loc[s].new \ {a} /\ loc'[s].run = loc[s].run /\ loc'[s].ts = loc[s].ts
    BY <1>1, <2>2 DEF Fields
  <2>4. loc'[s] = [loc[s] EXCEPT !.new = loc[s].new \ {a}, !.reread = loc[s].reread]
    BY <1>1, <2>2 DEF Fields
  <2>5. pc[s] = "open" /\ UNCHANGED <<now, runs, landed, sweeps, acks, briefed, draft, tip>>
    BY <1>3 DEF Raise
  <2>6. QED
    BY <2>1, <2>2, <2>3, <2>4, <2>5
<1>4. QED
  BY <1>2, <1>3

\* What a session has read stays right, and what it reads is right.
LEMMA LocOKStep ==
  ASSUME Structure, [Next]_vars, NEW s \in Sessions
  PROVE  LocOK(s)'
<1>1. LocOK(s) /\ Typed /\ FilesOK /\ FilesOK' /\ now \in Nat /\ runs \in Nat
  BY FilesOKStep, PendingAssumption DEF Structure, Typed
<1>2. CASE loc'[s] = loc[s] /\ (pc'[s] = pc[s] \/ pc'[s] = "idle" \/ pc[s] # "idle")
  <2>1. Dated(loc[s].ts)' /\ (RunOK(loc[s].run) => RunOK(loc[s].run)') /\ loc[s].todo \subseteq Items'
    BY <1>1, <1>2, FilesGrow DEF LocOK, RunOK
  <2>2. \A a \in loc[s].new : AlarmOK(a)'
    BY <1>1, FilesGrow DEF LocOK, AlarmOK
  <2>3. QED
    BY <1>1, <1>2, <2>1, <2>2 DEF LocOK
<1> DEFINE Keeps(l) == /\ l.ts \in {0, now, loc[s].ts}
                       /\ l.todo \subseteq Items /\ \A a \in l.new : a.ts = now \/ a \in loc[s].new
<1>3. ASSUME NEW l, loc'[s] = l, Keeps(l), now' = now,
             pc'[s] = "idle" \/ (l.run = loc[s].run /\ pc[s] # "idle") \/ (l.run = runs' /\ runs' > 0)
      PROVE  LocOK(s)'
  <2>1. Dated(l.ts) /\ Dated(now)
    BY <1>1, <1>3 DEF LocOK, Dated
  <2>2. Dated(l.ts)' /\ l.todo \subseteq Items'
    BY <1>3, <2>1, FilesGrow
  <2>3. \A a \in l.new : AlarmOK(a)'
    BY <1>1, <1>3, <2>1 DEF LocOK, AlarmOK, Dated
  <2>4. pc'[s] # "idle" => RunOK(l.run)'
    BY <1>1, <1>3, FilesGrow DEF LocOK, RunOK
  <2>5. QED
    BY <1>3, <2>2, <2>3, <2>4 DEF LocOK
<1>4. CASE Tick \/ Land \/ Observer \/ UNCHANGED vars
  BY <1>2, <1>4 DEF Tick, Land, Observer, ObserverLooks, ObserverReads, ObserverWrites, vars
<1>5. ASSUME NEW t \in Sessions, t # s, Sweep(t) \/ Crash(t)
      PROVE  loc'[s] = loc[s] /\ pc'[s] = pc[s]
  BY <1>5, OthersStay
<1>6. ASSUME Sweep(s) \/ Crash(s) PROVE LocOK(s)'
  <2>1. s \in DOMAIN loc /\ s \in DOMAIN pc /\ DOMAIN loc[s] = Fields
    BY <1>1 DEF Typed
  <2>2. loc[s].todo \subseteq Items
    BY <1>1 DEF LocOK
  <2>3. Keeps(Blank)
    BY DEF Blank
  <2>4. Keeps(At(s)) /\ At(s).run = loc[s].run
    BY DEF Blank, At
  <2>5. CASE Start(s)
    <3> DEFINE l == [Blank EXCEPT !.run = runs + 1, !.ts = now,
                                  !.new = IF s \in Attended THEN Due ELSE {},
                                  !.reread = s \notin Attended]
    <3>1. loc'[s] = l /\ now' = now /\ runs' = runs + 1 /\ runs' > 0
      BY <1>1, <2>1, <2>5 DEF Start, Goto
    <3>2. Keeps(l) /\ l.run = runs'
      BY <3>1, DueIsNow DEF Blank
    <3>3. QED
      BY <1>3, <3>1, <3>2
  <2>6. CASE Open(s) \/ Render(s) \/ CommitBriefing(s)
    <3>1. loc'[s] \in {loc[s], At(s)} /\ now' = now /\ pc[s] # "idle"
      BY <2>1, <2>6 DEF Open, Render, CommitBriefing, Goto
    <3>2. QED
      BY <1>2, <1>3, <2>4, <3>1
  <2>7. CASE Ack(s)
    <3> DEFINE shown == {it \in Unread : RenderedIn(draft, it)}
    <3> DEFINE l == [loc[s] EXCEPT !.ts = now, !.shows = draft, !.todo = shown, !.unread = shown,
                                   !.whole = (shown = Unread)]
    <3>1. loc'[s] \in {loc[s], l} /\ now' = now /\ pc[s] # "idle"
      BY <2>1, <2>7 DEF Ack, Goto
    <3>2. l.ts = now /\ l.run = loc[s].run /\ l.todo = shown /\ l.new = loc[s].new
      BY <2>1 DEF Fields
    <3>3. Keeps(l)
      BY <3>2 DEF Unread
    <3>4. QED
      BY <1>2, <1>3, <3>1, <3>2, <3>3
  <2>8. CASE AckRow(s)
    <3>1. PICK it \in loc[s].todo : loc' = [loc EXCEPT ![s].todo = @ \ {it}]
      BY <2>8 DEF AckRow
    <3> DEFINE l == [loc[s] EXCEPT !.todo = @ \ {it}]
    <3>2. loc'[s] = l /\ now' = now /\ pc[s] # "idle"
      BY <2>1, <2>8, <3>1 DEF AckRow
    <3>3. l.ts = loc[s].ts /\ l.run = loc[s].run /\ l.todo = loc[s].todo \ {it} /\ l.new = loc[s].new
      BY <2>1 DEF Fields
    <3>4. Keeps(l)
      BY <2>2, <3>3
    <3>5. QED
      BY <1>3, <3>2, <3>3, <3>4
  <2>9. CASE AckEnd(s)
    <3> DEFINE l == [At(s) EXCEPT !.unread = loc[s].unread]
    <3>1. loc'[s] \in {l, At(s)} /\ now' = now /\ pc[s] # "idle"
      BY <2>1, <2>9 DEF AckEnd, Goto
    <3>2. Keeps(l) /\ l.run = loc[s].run
      BY DEF At, Blank
    <3>3. QED
      BY <1>3, <2>4, <3>1, <3>2
  <2>10. CASE Ok(s) \/ Fail(s)
    <3> DEFINE l == [At(s) EXCEPT !.ts = now]
    <3>1. loc'[s] \in {l, At(s)} /\ now' = now /\ pc[s] # "idle"
      BY <2>1, <2>10 DEF Ok, Fail, Goto
    <3>2. Keeps(l) /\ l.run = loc[s].run
      BY DEF At, Blank
    <3>3. QED
      BY <1>3, <2>4, <3>1, <3>2
  <2>11. CASE CloseOk(s) \/ CloseFailed(s) \/ Crash(s)
    <3>1. /\ now' = now /\ pc[s] # "idle"
          /\ (loc'[s] = Blank /\ pc'[s] = "idle") \/ loc'[s] = At(s)
      BY <2>1, <2>11 DEF CloseOk, CloseFailed, Crash, Goto
    <3>2. QED
      BY <1>3, <2>3, <2>4, <3>1
  <2>12. CASE Reread(s) \/ Raise(s)
    <3>1. PICK new \in SUBSET loc[s].new :
            \E reread : loc'[s] = [loc[s] EXCEPT !.new = new, !.reread = reread]
      BY <2>12, RaisingIs
    <3>2. PICK reread : loc'[s] = [loc[s] EXCEPT !.new = new, !.reread = reread]
      BY <3>1
    <3>3. now' = now /\ pc[s] # "idle"
      BY <2>12 DEF Reread, Raise
    <3> DEFINE l == [loc[s] EXCEPT !.new = new, !.reread = reread]
    <3>4. l.ts = loc[s].ts /\ l.run = loc[s].run /\ l.todo = loc[s].todo /\ l.new = new
      BY <2>1 DEF Fields
    <3>5. Keeps(l)
      BY <2>2, <3>4
    <3>6. QED
      BY <1>3, <3>2, <3>3, <3>4, <3>5
  <2>13. QED
    BY <1>6, <2>5, <2>6, <2>7, <2>8, <2>9, <2>10, <2>11, <2>12 DEF Sweep
<1>7. QED
  BY <1>2, <1>4, <1>5, <1>6 DEF Next

LEMMA InitStructure == Init => Structure
<1> SUFFICES ASSUME Init PROVE Structure
  OBVIOUS
<1>1. Typed /\ FilesOK
  BY PendingAssumption DEF Init, Typed, FilesOK, Steps, Fields, Blank
<1>2. ASSUME NEW s \in Sessions PROVE LocOK(s)
  BY PendingAssumption DEF Init, LocOK, Blank, Dated
<1>3. QED
  BY <1>1, <1>2 DEF Structure

LEMMA StructureStep == Structure /\ [Next]_vars => Structure'
<1> SUFFICES ASSUME Structure, [Next]_vars PROVE Structure'
  OBVIOUS
<1>1. Typed' /\ FilesOK' /\ \A s \in Sessions : LocOK(s)'
  BY TypedStep, FilesOKStep, LocOKStep
<1>2. QED
  BY <1>1 DEF Structure, LocOK

LEMMA TypesFollow == Structure => TypeOK
<1> SUFFICES ASSUME Structure PROVE TypeOK
  OBVIOUS
<1>1. Typed /\ FilesOK
  BY DEF Structure
<1>2. QED
  BY <1>1 DEF TypeOK, Typed, FilesOK, LandedOK, RowOK, Dated, RunOK, Steps

\* The files and the sessions' places keep their types, for any number of sweeps at
\* once, and sessions that go on under a run they have closed: every row is of a run
\* that was given out and of a time that has been, and every acknowledged item is one.
THEOREM TypeCorrect == Spec => []TypeOK
<1>1. Init => Structure
  BY InitStructure
<1>2. Structure /\ [Next]_vars => Structure'
  BY StructureStep
<1>3. Structure => TypeOK
  BY TypesFollow
<1>4. QED
  BY <1>1, <1>2, <1>3, PTL DEF Spec

-----------------------------------------------------------------------------
\* The steps of a session that stops at its close, by what they do to its run.

Closing(s) == /\ pc[s] \in {"ok", "failing"} /\ pc'[s] = "idle"
              /\ Heartbeat(s, "close", IF pc[s] = "ok" THEN "ok" ELSE "failed")
              /\ UNCHANGED <<now, runs, landed, acks, alarms, briefed, tip>>

Raising(s) == Reread(s) \/ Raise(s)

Working(s) == /\ pc[s] \notin {"idle", "open"} /\ pc'[s] \notin {"idle", "open"}
              /\ loc'[s].run = loc[s].run
              /\ pc'[s] \in {"ack", "rows", "acked"} => s \in Attended \/ pc[s] \in {"ack", "rows", "acked"}
              /\ UNCHANGED <<now, runs, landed, sweeps, alarms>>

LEMMA SessionMoves ==
  ASSUME Structure, StopsAtClose, NEW s \in Sessions, Sweep(s) \/ Crash(s)
  PROVE  Start(s) \/ Raising(s) \/ Open(s) \/ Closing(s) \/ Crash(s) \/ Working(s)
<1>1. s \in DOMAIN loc /\ s \in DOMAIN pc /\ DOMAIN loc[s] = Fields /\ At(s).run = loc[s].run
  BY DEF Structure, Typed, At, Blank
<1>2. CASE Render(s) \/ CommitBriefing(s)
  BY <1>1, <1>2 DEF Render, CommitBriefing, Goto, Working
<1>3. CASE Ack(s)
  BY <1>1, <1>3 DEF Ack, Goto, Working, Fields
<1>4. CASE AckRow(s)
  BY <1>1, <1>4 DEF AckRow, Working, Fields
<1>5. CASE AckEnd(s) \/ Ok(s) \/ Fail(s)
  <2> DEFINE acked == [At(s) EXCEPT !.unread = loc[s].unread]
  <2> DEFINE closing == [At(s) EXCEPT !.ts = now]
  <2>1. acked.run = loc[s].run /\ closing.run = loc[s].run
    BY DEF At, Blank
  <2>2. /\ loc'[s] \in {At(s), acked, closing}
        /\ \/ pc[s] = "rows" /\ pc'[s] \in {"acked", "render"}
           \/ pc[s] \in {"acked", "close"} /\ pc'[s] \in {"render", "ok"}
           \/ pc[s] \in {"render", "commit", "ack", "acked", "close"} /\ pc'[s] = "failing"
        /\ UNCHANGED <<now, runs, landed, sweeps, alarms>>
    BY <1>1, <1>5 DEF AckEnd, Ok, Fail, Goto
  <2>3. Working(s)
    BY <1>1, <2>1, <2>2 DEF Working
  <2>4. QED
    BY <2>3
<1>6. CASE CloseOk(s)
  <2>1. Heartbeat(s, "close", "ok") /\ pc[s] = "ok" /\ pc'[s] = "idle"
        /\ UNCHANGED <<now, runs, landed, acks, alarms, briefed, tip>>
    BY <1>1, <1>6 DEF CloseOk, Goto
  <2>2. Closing(s)
    BY <2>1 DEF Closing
  <2>3. QED
    BY <2>2
<1>7. CASE CloseFailed(s)
  <2>1. Heartbeat(s, "close", "failed") /\ pc[s] = "failing"
        /\ pc'[s] = "idle" /\ UNCHANGED <<now, runs, landed, acks, alarms, briefed, tip>>
    BY <1>1, <1>7 DEF CloseFailed, Goto, StopsAtClose
  <2>2. Closing(s)
    BY <2>1 DEF Closing
  <2>3. QED
    BY <2>2
<1>8. QED
  BY <1>2, <1>3, <1>4, <1>5, <1>6, <1>7 DEF Sweep, Raising

LEMMA StartIs ==
  ASSUME Structure, NEW s \in Sessions, Start(s)
  PROVE  /\ pc[s] = "idle" /\ pc'[s] = "open" /\ loc'[s].run = runs + 1 /\ loc'[s].ts = now
         /\ s \in Attended => loc'[s].new = Due
         /\ UNCHANGED <<now, landed, sweeps, acks, alarms, briefed, draft, tip>>
<1> DEFINE l == [Blank EXCEPT !.run = runs + 1, !.ts = now,
                              !.new = IF s \in Attended THEN Due ELSE {},
                              !.reread = s \notin Attended]
<1>1. s \in DOMAIN loc /\ s \in DOMAIN pc
  BY DEF Structure, Typed
<1>2. pc[s] = "idle" /\ pc'[s] = "open" /\ loc'[s] = l
  BY <1>1 DEF Start, Goto
<1>3. l.run = runs + 1 /\ l.ts = now /\ l.new = IF s \in Attended THEN Due ELSE {}
  BY DEF Blank
<1>4. QED
  BY <1>2, <1>3 DEF Start

\* The row of an open or a close.
Row(s, kind, outcome) == [kind |-> kind, run |-> loc[s].run, ts |-> loc[s].ts,
                          at |-> IF outcome = "failed" THEN now ELSE loc[s].ts,
                          attended |-> s \in Attended, outcome |-> outcome]

LEMMA RowIs ==
  ASSUME NEW s, NEW kind, NEW outcome
  PROVE  \A r : r = Row(s, kind, outcome) =>
            /\ r.kind = kind /\ r.run = loc[s].run /\ r.ts = loc[s].ts
            /\ outcome = "failed" => r.at = now
            /\ r.attended = (s \in Attended) /\ r.outcome = outcome
BY DEF Row

LEMMA OpenIs ==
  ASSUME Structure, NEW s \in Sessions, Open(s)
  PROVE  /\ pc[s] = "open" /\ pc'[s] = "render" /\ loc'[s].run = loc[s].run
         /\ loc[s].new = {}
         /\ \E outcome : /\ sweeps' = sweeps \cup {Row(s, "open", outcome)}
                         /\ outcome \notin {"ok", "failed"}
         /\ UNCHANGED <<now, runs, landed, acks, alarms, briefed, draft, tip>>
<1>1. s \in DOMAIN loc /\ s \in DOMAIN pc
  BY DEF Structure, Typed
<1>2. At(s).run = loc[s].run
  BY DEF At, Blank
<1>3. pc[s] = "open" /\ pc'[s] = "render" /\ loc'[s] = At(s) /\ loc[s].new = {}
  BY <1>1, Zenon DEF Open, Goto
<1>4. sweeps' = sweeps \cup {Row(s, "open", "")}
  BY Zenon DEF Open, Heartbeat, Row
<1>5. UNCHANGED <<now, runs, landed, acks, alarms, briefed, draft, tip>>
  BY DEF Open
<1>6. \E outcome : /\ sweeps' = sweeps \cup {Row(s, "open", outcome)}
                   /\ outcome \notin {"ok", "failed"}
  <2>1. "" # "ok" /\ "" # "failed"
    BY Zenon
  <2>2. QED
    BY <1>4, <2>1, Zenon
<1>7. QED
  BY <1>2, <1>3, <1>4, <1>5, <1>6, Zenon

LEMMA ClosingIs ==
  ASSUME NEW s, Closing(s)
  PROVE  /\ pc[s] \in {"ok", "failing"} /\ pc'[s] = "idle"
         /\ \E outcome : /\ sweeps' = sweeps \cup {Row(s, "close", outcome)}
                         /\ outcome = IF pc[s] = "ok" THEN "ok" ELSE "failed"
         /\ UNCHANGED <<now, runs, landed, acks, alarms, briefed, tip>>
BY DEF Closing, Heartbeat, Row

LEMMA CrashIs ==
  ASSUME Structure, NEW s \in Sessions, Crash(s)
  PROVE  pc[s] # "idle" /\ pc'[s] = "idle"
         /\ UNCHANGED <<now, runs, landed, sweeps, acks, alarms, briefed, draft, tip>>
<1>1. s \in DOMAIN pc
  BY DEF Structure, Typed
<1>2. QED
  BY <1>1 DEF Crash, Goto

\* The world and the observer leave the runs and their rows alone.
WorldIs == UNCHANGED <<runs, sweeps, acks, briefed, draft, tip, pc, loc>>

LEMMA StepsAre ==
  ASSUME [Next]_vars
  PROVE  WorldIs \/ \E s \in Sessions : Sweep(s) \/ Crash(s)
BY DEF Next, Tick, Land, Observer, ObserverLooks, ObserverReads, ObserverWrites, vars, WorldIs

-----------------------------------------------------------------------------
\* Runs and their rows.

LEMMA RunsOwnedStep ==
  ASSUME Structure, StopsAtClose, RunsOwned, [Next]_vars
  PROVE  RunsOwned'
<1>1. FilesOK /\ runs \in Nat /\ \A t \in Sessions : LocOK(t)
  BY PendingAssumption DEF Structure, Typed
<1>2. CASE WorldIs
  BY <1>2 DEF WorldIs, RunsOwned
<1>3. ASSUME NEW s \in Sessions, Sweep(s) \/ Crash(s),
             \A r \in sweeps' : r \in sweeps \/ (r.run = loc[s].run /\ pc[s] # "idle"),
             pc'[s] # "idle" => /\ \/ pc[s] # "idle" /\ loc'[s].run = loc[s].run
                                   \/ pc[s] = "idle" /\ loc'[s].run = runs + 1 /\ sweeps' = sweeps
                                /\ \A r \in sweeps' : r.run = loc'[s].run =>
                                     r.kind = "open" /\ r.attended = (s \in Attended) /\ pc'[s] # "open"
                                /\ pc'[s] # "open" => \E r \in sweeps' : r.kind = "open" /\ r.run = loc'[s].run
                                /\ pc'[s] \in {"ack", "rows", "acked"} => s \in Attended
      PROVE  RunsOwned'
  <2>1. \A t \in Sessions \ {s} : loc'[t] = loc[t] /\ pc'[t] = pc[t]
    BY <1>3, OthersStay
  <2>2. \A t \in Sessions : pc[t] # "idle" => loc[t].run \in 1..runs
    BY <1>1 DEF LocOK, RunOK
  <2>3. sweeps \subseteq sweeps'
    BY FilesGrow
  <2>4. \A t, q \in Sessions : pc'[t] # "idle" /\ pc'[q] # "idle" /\ loc'[t].run = loc'[q].run => t = q
    BY <1>1, <1>3, <2>1, <2>2 DEF RunsOwned
  <2>5. ASSUME NEW t \in Sessions \ {s}, pc'[t] # "idle", NEW r \in sweeps', r.run = loc'[t].run
        PROVE  r.kind = "open" /\ r.attended = (t \in Attended) /\ pc'[t] # "open"
    <3>1. loc'[t] = loc[t] /\ pc'[t] = pc[t]
      BY <2>1, <2>5
    <3>2. r \in sweeps
      BY <1>3, <2>5, <3>1 DEF RunsOwned
    <3>3. QED
      BY <2>5, <3>1, <3>2 DEF RunsOwned
  <2>6. ASSUME NEW t \in Sessions \ {s}
        PROVE  /\ pc'[t] \notin {"idle", "open"} =>
                    \E r \in sweeps' : r.kind = "open" /\ r.run = loc'[t].run
               /\ pc'[t] \in {"ack", "rows", "acked"} => t \in Attended
    BY <2>1, <2>3, <2>6 DEF RunsOwned
  <2>7. QED
    BY <1>3, <2>4, <2>5, <2>6 DEF RunsOwned
<1>4. ASSUME NEW s \in Sessions, Sweep(s) \/ Crash(s) PROVE RunsOwned'
  <2>1. pc[s] # "idle" => loc[s].run \in 1..runs
    BY <1>1 DEF LocOK, RunOK
  <2>2. CASE Start(s)
    <3>1. \A r \in sweeps : r.run # runs + 1
      BY <1>1 DEF FilesOK, RowOK, RunOK
    <3>2. QED
      BY <1>3, <1>4, <2>2, <3>1, StartIs
  <2>3. CASE Open(s)
    <3>1. PICK outcome, r : r = Row(s, "open", outcome) /\ sweeps' = sweeps \cup {r}
      BY <2>3, OpenIs
    <3>2. sweeps' = sweeps \cup {r} /\ loc'[s].run = loc[s].run /\ pc[s] = "open" /\ pc'[s] = "render"
      BY <2>3, <3>1, OpenIs
    <3>3. r.run = loc[s].run /\ r.kind = "open" /\ r.attended = (s \in Attended)
      BY <3>1, RowIs
    <3>4. \A x \in sweeps : x.run # loc[s].run
      BY <3>2 DEF RunsOwned
    <3>5. QED
      BY <1>3, <1>4, <3>2, <3>3, <3>4
  <2>4. CASE Closing(s)
    <3>1. PICK outcome : sweeps' = sweeps \cup {Row(s, "close", outcome)}
      BY <2>4, ClosingIs
    <3>2. Row(s, "close", outcome).run = loc[s].run
      BY RowIs
    <3>3. QED
      BY <1>3, <1>4, <2>4, <3>1, <3>2, ClosingIs
  <2>5. CASE Crash(s)
    BY <1>3, <1>4, <2>5, CrashIs
  <2>6. CASE Working(s)
    BY <1>3, <1>4, <2>6 DEF Working, RunsOwned
  <2>7. CASE Raising(s)
    <3>1. /\ pc[s] = "open" /\ pc'[s] = "open" /\ loc'[s].run = loc[s].run /\ sweeps' = sweeps
      BY <2>7, RaisingIs DEF Raising
    <3>2. QED
      BY <1>3, <1>4, <3>1 DEF RunsOwned
  <2>8. QED
    BY <1>4, <2>2, <2>3, <2>4, <2>5, <2>6, <2>7, SessionMoves
<1>5. QED
  BY <1>2, <1>4, StepsAre

\* What a session writes and where it goes while it works.
LEMMA AckRowIs ==
  ASSUME Structure, NEW s \in Sessions, AckRow(s)
  PROVE  /\ pc[s] = "rows" /\ pc' = pc
         /\ \E it \in loc[s].todo :
              /\ acks' = acks \cup {[ts |-> loc[s].ts, run |-> loc[s].run, item |-> it,
                                     shows |-> loc[s].shows]}
              /\ loc'[s].todo = loc[s].todo \ {it}
         /\ loc'[s].ts = loc[s].ts /\ loc'[s].run = loc[s].run
         /\ loc'[s].shows = loc[s].shows /\ loc'[s].unread = loc[s].unread
         /\ UNCHANGED <<now, landed, sweeps, alarms, briefed, draft, tip, runs, watch>>
<1>1. s \in DOMAIN loc /\ DOMAIN loc[s] = Fields
  BY DEF Structure, Typed
<1>2. PICK it \in loc[s].todo :
        /\ acks' = acks \cup {[ts |-> loc[s].ts, run |-> loc[s].run, item |-> it, shows |-> loc[s].shows]}
        /\ loc' = [loc EXCEPT ![s].todo = @ \ {it}]
  BY DEF AckRow
<1>3. loc'[s] = [loc[s] EXCEPT !.todo = @ \ {it}]
  BY <1>1, <1>2
<1>4. /\ loc'[s].todo = loc[s].todo \ {it} /\ loc'[s].ts = loc[s].ts /\ loc'[s].run = loc[s].run
      /\ loc'[s].shows = loc[s].shows /\ loc'[s].unread = loc[s].unread
  BY <1>1, <1>3 DEF Fields
<1>5. pc[s] = "rows" /\ UNCHANGED <<now, landed, sweeps, alarms, briefed, draft, tip, runs, pc, watch>>
  BY DEF AckRow
<1>6. QED
  BY <1>2, <1>4, <1>5

LEMMA OkIs ==
  ASSUME Structure, NEW s \in Sessions, Ok(s), pc'[s] = "ok"
  PROVE  /\ loc'[s].ts = now /\ loc'[s].run = loc[s].run /\ pc[s] \notin {"idle", "open"}
         /\ s \in Attended => Unread = {}
         /\ UNCHANGED <<now, landed, sweeps, acks, alarms, briefed, draft, tip, runs>>
<1>1. s \in DOMAIN loc /\ s \in DOMAIN pc
  BY DEF Structure, Typed
<1>2. loc'[s] = [At(s) EXCEPT !.ts = now] /\ (s \in Attended => Unread = {})
  BY <1>1 DEF Ok, Goto
<1>3. loc'[s].ts = now /\ loc'[s].run = loc[s].run
  BY <1>2 DEF At, Blank
<1>4. QED
  BY <1>2, <1>3 DEF Ok

LEMMA FailIs ==
  ASSUME Structure, NEW s \in Sessions, Fail(s)
  PROVE  loc'[s].ts = now /\ loc'[s].run = loc[s].run /\ acks' = acks
<1>1. s \in DOMAIN loc
  BY DEF Structure, Typed
<1>2. loc'[s] = [At(s) EXCEPT !.ts = now]
  BY <1>1 DEF Fail, Goto
<1>3. QED
  BY <1>2 DEF At, Blank, Fail

\* Only AckRow writes an acknowledgement, only Ok lets a session close ok, only Fail
\* lets it close failed.
LEMMA AcksAre ==
  ASSUME Structure, [Next]_vars
  PROVE  /\ acks' = acks \/ \E s \in Sessions : AckRow(s)
         /\ \A s \in Sessions : pc'[s] = "ok" =>
              Ok(s) \/ (pc[s] = "ok" /\ loc'[s] = loc[s])
         /\ \A s \in Sessions : pc'[s] = "failing" =>
              Fail(s) \/ (pc[s] = "failing" /\ loc'[s] = loc[s])
<1>1. CASE WorldIs
  BY <1>1 DEF WorldIs
<1>2. ASSUME NEW t \in Sessions, Sweep(t) \/ Crash(t), NEW s \in Sessions, s # t
      PROVE  pc'[s] = pc[s] /\ loc'[s] = loc[s]
  BY <1>2, OthersStay
<1>3. ASSUME NEW s \in Sessions, Sweep(s) \/ Crash(s)
      PROVE  /\ acks' = acks \/ AckRow(s)
             /\ pc'[s] = "ok" => Ok(s)
             /\ pc'[s] = "failing" => Fail(s)
  <2>1. s \in DOMAIN pc
    BY DEF Structure, Typed
  <2>2. CASE Start(s) \/ Reread(s) \/ Raise(s) \/ Open(s) \/ Render(s) \/ CommitBriefing(s) \/ Ack(s)
    BY <2>1, <2>2 DEF Start, Reread, Raise, Open, Render, CommitBriefing, Ack, Goto
  <2>3. CASE AckRow(s)
    BY <2>3 DEF AckRow
  <2>4. CASE AckEnd(s) \/ Ok(s) \/ CloseOk(s) \/ Fail(s) \/ CloseFailed(s) \/ Crash(s)
    BY <2>1, <2>4 DEF AckEnd, Ok, CloseOk, Fail, CloseFailed, Crash, Goto
  <2>5. QED
    BY <1>3, <2>2, <2>3, <2>4 DEF Sweep
<1>4. QED
  BY <1>1, <1>2, <1>3, StepsAre

\* The rows of the sweeps after a step.
LEMMA RowsAre ==
  ASSUME Structure, StopsAtClose, [Next]_vars
  PROVE  \A r \in sweeps' \ sweeps : \E s \in Sessions :
           /\ r.run = loc[s].run /\ pc[s] # "idle" /\ r.attended = (s \in Attended)
           /\ \/ r.kind = "open" /\ pc[s] = "open" /\ r.ts = loc[s].ts /\ Open(s)
                 /\ r.outcome \notin {"ok", "failed"}
              \/ r.kind = "close" /\ pc[s] # "open" /\ Closing(s)
                 /\ r.ts = loc[s].ts
                 /\ IF pc[s] = "ok" THEN r.outcome = "ok" ELSE r.outcome = "failed" /\ r.at = now
<1>1. CASE WorldIs
  BY <1>1 DEF WorldIs
<1>2. ASSUME NEW s \in Sessions, Sweep(s) \/ Crash(s), NEW r \in sweeps' \ sweeps
      PROVE  /\ r.run = loc[s].run /\ pc[s] # "idle" /\ r.attended = (s \in Attended)
             /\ \/ r.kind = "open" /\ pc[s] = "open" /\ r.ts = loc[s].ts /\ Open(s)
                   /\ r.outcome \notin {"ok", "failed"}
                \/ r.kind = "close" /\ pc[s] # "open" /\ Closing(s)
                   /\ r.ts = loc[s].ts
                   /\ IF pc[s] = "ok" THEN r.outcome = "ok" ELSE r.outcome = "failed" /\ r.at = now
  <2>1. CASE Open(s)
    <3>1. PICK outcome : /\ sweeps' = sweeps \cup {Row(s, "open", outcome)}
                         /\ outcome \notin {"ok", "failed"}
      BY <2>1, OpenIs
    <3>2. r = Row(s, "open", outcome)
      BY <1>2, <3>1
    <3>3. /\ r.run = loc[s].run /\ r.attended = (s \in Attended) /\ r.kind = "open"
          /\ r.ts = loc[s].ts /\ r.outcome = outcome
      BY <3>2, RowIs
    <3>4. QED
      BY <2>1, <3>1, <3>3, OpenIs
  <2>2. CASE Closing(s)
    <3>1. PICK outcome : /\ sweeps' = sweeps \cup {Row(s, "close", outcome)}
                         /\ outcome = IF pc[s] = "ok" THEN "ok" ELSE "failed"
      BY <2>2, ClosingIs
    <3>2. r = Row(s, "close", outcome)
      BY <1>2, <3>1
    <3>3. /\ r.run = loc[s].run /\ r.attended = (s \in Attended) /\ r.kind = "close"
          /\ r.ts = loc[s].ts /\ r.outcome = outcome /\ (outcome = "failed" => r.at = now)
      BY <3>2, RowIs
    <3>4. QED
      BY <2>2, <3>1, <3>3, ClosingIs
  <2>3. CASE Start(s) \/ Raising(s) \/ Crash(s) \/ Working(s)
    <3>1. sweeps' = sweeps
      BY <2>3, StartIs, RaisingIs, CrashIs DEF Working, Raising
    <3>2. QED
      BY <1>2, <3>1
  <2>4. QED
    BY <1>2, <2>1, <2>2, <2>3, SessionMoves
<1>3. QED
  BY <1>1, <1>2, StepsAre

\* A run is closed once, after its last acknowledgement.
LEMMA ClosesLastStep ==
  ASSUME Structure, StopsAtClose, RunsOwned, ClosesLast, [Next]_vars
  PROVE  ClosesLast'
<1>1. /\ \A a \in acks : a.ts \in Nat /\ a.ts <= now
      /\ \A r \in sweeps : r.ts \in Nat
      /\ now \in Nat /\ \A s \in Sessions : loc[s].ts \in Nat /\ loc[s].ts <= now
  BY PendingAssumption DEF Structure, Typed, FilesOK, RowOK, LocOK, Dated
<1> DEFINE Mine(r, s) ==
      /\ s \in Sessions /\ r.run = loc[s].run /\ pc[s] # "idle"
      /\ r.ts = loc[s].ts /\ Closing(s)
<1>2. \A r \in sweeps' : r.kind = "close" => r \in sweeps \/ \E s \in Sessions : Mine(r, s)
  BY RowsAre
<1>3. \A s \in Sessions : Closing(s) => acks' = acks
  BY ClosingIs
<1>4. \A s \in Sessions : pc[s] # "idle" => \A r \in sweeps : r.run = loc[s].run => r.kind # "close"
  BY DEF RunsOwned
<1>5. ASSUME NEW r \in sweeps', NEW q \in sweeps', r.kind = "close", q.kind = "close", r.run = q.run
      PROVE  r.ts = q.ts
  <2>1. CASE r \in sweeps /\ q \in sweeps
    BY <1>5, <2>1 DEF ClosesLast
  <2>2. CASE r \in sweeps /\ q \notin sweeps
    BY <1>2, <1>4, <1>5, <2>2
  <2>3. CASE r \notin sweeps /\ q \in sweeps
    BY <1>2, <1>4, <1>5, <2>3
  <2>4. CASE r \notin sweeps /\ q \notin sweeps
    <3>1. PICK s \in Sessions : Mine(r, s)
      BY <1>2, <1>5, <2>4
    <3>2. PICK t \in Sessions : Mine(q, t)
      BY <1>2, <1>5, <2>4
    <3>3. s = t
      BY <1>5, <3>1, <3>2 DEF RunsOwned
    <3>4. QED
      BY <3>1, <3>2, <3>3
  <2>5. QED
    BY <2>1, <2>2, <2>3, <2>4
<1>6. \A a \in acks' \ acks : \E s \in Sessions : /\ AckRow(s) /\ pc[s] = "rows" /\ a.run = loc[s].run
                                                 /\ a.ts = loc[s].ts /\ a.item \in loc[s].todo
                                                 /\ a.shows = loc[s].shows
  BY AcksAre, AckRowIs
<1>7. ASSUME NEW r \in sweeps', NEW a \in acks', r.kind = "close", a.run = r.run
      PROVE  a.ts <= r.ts
  <2>1. CASE r \in sweeps /\ a \in acks
    BY <1>7, <2>1 DEF ClosesLast
  <2>2. CASE r \in sweeps /\ a \notin acks
    <3>1. PICK s \in Sessions : pc[s] = "rows" /\ a.run = loc[s].run
      BY <1>6, <1>7, <2>2
    <3>2. QED
      BY <1>4, <1>7, <2>2, <3>1
  <2>3. CASE r \notin sweeps
    <3>1. PICK s \in Sessions : Mine(r, s)
      BY <1>2, <1>7, <2>3
    <3>2. a \in acks
      BY <1>3, <1>7, <3>1
    <3>3. a.ts <= loc[s].ts
      BY <1>7, <3>1, <3>2, ClosingIs DEF ClosesLast
    <3>4. QED
      BY <1>1, <3>1, <3>2, <3>3
  <2>4. QED
    BY <2>1, <2>2, <2>3
<1>8. ASSUME NEW s \in Sessions, pc'[s] \in {"ok", "failing"}, NEW a \in acks', a.run = loc'[s].run
      PROVE  a.ts <= loc'[s].ts
  <2>1. CASE (Ok(s) /\ pc'[s] = "ok") \/ Fail(s)
    <3>1. loc'[s].ts = now /\ acks' = acks
      BY <2>1, OkIs, FailIs
    <3>2. QED
      BY <1>1, <1>8, <3>1
  <2>2. CASE pc[s] \in {"ok", "failing"} /\ loc'[s] = loc[s]
    <3>1. CASE a \in acks
      BY <1>8, <2>2, <3>1 DEF ClosesLast
    <3>2. CASE a \notin acks
      <4>1. PICK t \in Sessions : pc[t] = "rows" /\ a.run = loc[t].run
        BY <1>6, <1>8, <3>2
      <4>2. t = s
        BY <1>8, <2>2, <4>1 DEF RunsOwned
      <4>3. QED
        BY <2>2, <4>1, <4>2
    <3>3. QED
      BY <3>1, <3>2
  <2>3. QED
    BY <1>8, <2>1, <2>2, AcksAre
<1>9. QED
  BY <1>5, <1>7, <1>8 DEF ClosesLast

-----------------------------------------------------------------------------
\* Briefings and acknowledgements.

LEMMA CommitBriefingIs ==
  ASSUME Structure, NEW s \in Sessions, CommitBriefing(s)
  PROVE  /\ pc[s] = "commit" /\ pc'[s] = IF s \in Attended THEN "ack" ELSE "close"
         /\ tip' = draft /\ briefed' = briefed \cup {[shows |-> draft, at |-> now]}
<1>1. s \in DOMAIN pc
  BY DEF Structure, Typed
<1>2. QED
  BY <1>1 DEF CommitBriefing, Goto

LEMMA BriefingsAre ==
  ASSUME Structure, [Next]_vars
  PROVE  /\ (tip' = tip /\ briefed' = briefed) \/ \E s \in Sessions : CommitBriefing(s)
         /\ \A s \in Sessions : pc'[s] = "ack" => pc[s] = "ack" \/ CommitBriefing(s)
         /\ \A s \in Sessions : pc'[s] = "rows" =>
              Ack(s) \/ AckRow(s) \/ (pc[s] = "rows" /\ loc'[s] = loc[s])
         /\ \A s \in Sessions : pc'[s] = "acked" => AckEnd(s) \/ (pc[s] = "acked" /\ loc'[s] = loc[s])
<1>1. CASE WorldIs
  BY <1>1 DEF WorldIs
<1>2. ASSUME NEW t \in Sessions, Sweep(t) \/ Crash(t), NEW s \in Sessions, s # t
      PROVE  pc'[s] = pc[s] /\ loc'[s] = loc[s]
  BY <1>2, OthersStay
<1>3. ASSUME NEW s \in Sessions, Sweep(s) \/ Crash(s)
      PROVE  /\ (tip' = tip /\ briefed' = briefed) \/ CommitBriefing(s)
             /\ pc'[s] = "ack" => CommitBriefing(s)
             /\ pc'[s] = "rows" => Ack(s) \/ AckRow(s)
             /\ pc'[s] = "acked" => AckEnd(s)
  <2>1. s \in DOMAIN pc
    BY DEF Structure, Typed
  <2>2. CASE Start(s) \/ Reread(s) \/ Raise(s) \/ Open(s) \/ Render(s)
    BY <2>1, <2>2 DEF Start, Reread, Raise, Open, Render, Goto
  <2>3. CASE CommitBriefing(s)
    BY <2>1, <2>3 DEF CommitBriefing, Goto
  <2>4. CASE Ack(s)
    BY <2>1, <2>4 DEF Ack, Goto
  <2>5. CASE AckRow(s)
    BY <2>5 DEF AckRow
  <2>6. CASE AckEnd(s)
    BY <2>1, <2>6 DEF AckEnd, Goto
  <2>7. CASE Ok(s) \/ CloseOk(s) \/ Fail(s) \/ CloseFailed(s) \/ Crash(s)
    BY <2>1, <2>7 DEF Ok, CloseOk, Fail, CloseFailed, Crash, Goto
  <2>8. QED
    BY <1>3, <2>2, <2>3, <2>4, <2>5, <2>6, <2>7 DEF Sweep
<1>4. QED
  BY <1>1, <1>2, <1>3, StepsAre

LEMMA TipCommittedStep ==
  ASSUME Structure, TipCommitted, [Next]_vars
  PROVE  TipCommitted'
<1>1. ASSUME NEW s \in Sessions, CommitBriefing(s)
      PROVE  briefed' # {} /\ \E b \in briefed' : b.shows = tip'
  <2>1. tip' = draft /\ [shows |-> draft, at |-> now] \in briefed'
    BY <1>1, CommitBriefingIs
  <2>2. [shows |-> draft, at |-> now].shows = tip'
    BY <2>1
  <2>3. QED
    BY <2>1, <2>2
<1>2. briefed' # {} => \E b \in briefed' : b.shows = tip'
  BY <1>1, BriefingsAre DEF TipCommitted
<1>3. \A s \in Sessions : pc'[s] = "ack" => briefed' # {}
  BY <1>1, BriefingsAre, FilesGrow DEF TipCommitted
<1>4. QED
  BY <1>2, <1>3 DEF TipCommitted

LEMMA AckFitsStep ==
  ASSUME Structure, TipCommitted, [Next]_vars, NEW s \in Sessions, AckFits(s)
  PROVE  AckFits(s)'
<1>1. s \in DOMAIN loc /\ s \in DOMAIN pc /\ DOMAIN loc[s] = Fields /\ now \in Nat /\ FilesOK
  BY PendingAssumption DEF Structure, Typed
<1>2. briefed \subseteq briefed' /\ AckedItems \subseteq AckedItems'
  BY FilesGrow DEF AckedItems
<1>3. CASE pc'[s] = "rows" /\ Ack(s)
  <2> DEFINE shown == {it \in Unread : RenderedIn(draft, it)}
  <2> DEFINE l == [loc[s] EXCEPT !.ts = now, !.shows = draft, !.todo = shown, !.unread = shown,
                                 !.whole = (shown = Unread)]
  <2>1. pc[s] = "ack" /\ draft = tip /\ loc'[s] = l /\ briefed' = briefed
    BY <1>1, <1>3 DEF Ack, Goto
  <2>2. l.ts = now /\ l.shows = draft /\ l.todo = shown /\ l.unread = shown
    BY <1>1 DEF Fields
  <2>3. PICK b \in briefed : b.shows = tip
    BY <2>1 DEF TipCommitted
  <2>4. b.at <= now
    BY <1>1 DEF FilesOK, Dated
  <2>5. \A it \in shown : it.date \in Nat /\ it.date <= now /\ RenderedIn(draft, it)
    <3>1. \A it \in landed : it.date \in Nat /\ it.date <= now
      BY <1>1 DEF FilesOK, LandedOK, Dated
    <3>2. \A a \in alarms : AlarmItem(a).date \in Nat /\ AlarmItem(a).date <= now
      BY <1>1 DEF FilesOK, AlarmOK, Dated, AlarmItem, Item
    <3>3. QED
      BY <3>1, <3>2 DEF Unread, Items
  <2>6. QED
    BY <1>2, <1>3, <2>1, <2>2, <2>3, <2>4, <2>5 DEF AckFits
<1>4. CASE pc'[s] = "rows" /\ AckRow(s)
  <2>1. PICK it \in loc[s].todo :
          /\ acks' = acks \cup {[ts |-> loc[s].ts, run |-> loc[s].run, item |-> it, shows |-> loc[s].shows]}
          /\ loc'[s].todo = loc[s].todo \ {it}
    BY <1>4, AckRowIs
  <2>2. it \in AckedItems'
    BY <2>1 DEF AckedItems
  <2>3. /\ pc[s] = "rows" /\ loc'[s].ts = loc[s].ts
        /\ loc'[s].shows = loc[s].shows /\ loc'[s].unread = loc[s].unread /\ briefed' = briefed
    BY <1>4, AckRowIs
  <2>4. QED
    BY <1>2, <1>4, <2>1, <2>2, <2>3 DEF AckFits
<1>5. CASE pc'[s] = "acked" /\ AckEnd(s)
  <2>1. pc[s] = "rows" /\ loc[s].todo = {} /\ loc'[s] = [At(s) EXCEPT !.unread = loc[s].unread]
    BY <1>1, <1>5 DEF AckEnd, Goto
  <2>2. loc'[s].unread = loc[s].unread
    BY <2>1 DEF At, Blank
  <2>3. QED
    BY <1>2, <1>5, <2>1, <2>2 DEF AckFits
<1>6. CASE pc'[s] = pc[s] /\ loc'[s] = loc[s]
  BY <1>2, <1>6 DEF AckFits
<1>7. CASE pc'[s] \notin {"rows", "acked"}
  BY <1>7 DEF AckFits
<1>8. QED
  BY <1>3, <1>4, <1>5, <1>6, <1>7, BriefingsAre

\* What counts, but for the close.
Grounded(a) == /\ a.ts >= a.item.date /\ AttendedRun(a.run)
               /\ \E b \in briefed : b.shows = a.shows /\ b.at <= a.ts
               /\ RenderedIn(a.shows, a.item)

AllGrounded == \A a \in acks : Grounded(a)

LEMMA CountsAre == FilesOK /\ ClosesLast /\ AllGrounded => AllCount
<1> SUFFICES ASSUME FilesOK, ClosesLast, AllGrounded, NEW a \in acks PROVE Counts(a)
  BY DEF AllCount
<1>1. ASSUME NEW r \in Rows("close", a.run) PROVE a.ts <= FirstClose(a.run)
  <2>1. r \in sweeps /\ r.kind = "close" /\ r.run = a.run
    BY <1>1 DEF Rows
  <2>2. {q.ts : q \in Rows("close", a.run)} = {r.ts}
    BY <1>1, <2>1 DEF ClosesLast, Rows
  <2>3. FirstClose(a.run) = CHOOSE x \in {r.ts} : \A y \in {r.ts} : x <= y
    BY <2>2 DEF FirstClose, Min
  <2>4. a.ts <= r.ts
    BY <2>1 DEF ClosesLast
  <2>5. r.ts \in Nat
    BY <2>1 DEF FilesOK, RowOK, Dated
  <2>6. QED
    BY <2>3, <2>4, <2>5
<1>2. Grounded(a)
  BY DEF AllGrounded
<1>3. QED
  BY <1>1, <1>2 DEF Grounded, Counts

LEMMA AllCountStep ==
  ASSUME Structure, StopsAtClose, RunsOwned, ClosesLast', AllCount, [Next]_vars,
         \A s \in Sessions : AckFits(s)
  PROVE  AllCount'
<1>1. briefed \subseteq briefed' /\ sweeps \subseteq sweeps'
  BY FilesGrow
<1>2. ASSUME NEW a \in acks PROVE Grounded(a)'
  <2>1. Counts(a)
    BY <1>2 DEF AllCount
  <2>2. \A r \in sweeps' \ sweeps : r.kind = "open" => r.run # a.run
    <3> SUFFICES ASSUME NEW r \in sweeps' \ sweeps, r.kind = "open", r.run = a.run PROVE FALSE
      OBVIOUS
    <3>1. PICK s \in Sessions : r.run = loc[s].run /\ pc[s] = "open"
      BY RowsAre
    <3>2. PICK o \in sweeps : o.run = a.run
      BY <2>1 DEF Counts, AttendedRun, Rows
    <3>3. QED
      BY <3>1, <3>2 DEF RunsOwned
  <2>3. Rows("open", a.run)' = Rows("open", a.run)
    BY <1>1, <2>2 DEF Rows
  <2>4. AttendedRun(a.run)'
    BY <2>1, <2>3 DEF Counts, AttendedRun
  <2>5. QED
    BY <1>1, <2>1, <2>4 DEF Counts, Grounded, RenderedIn
<1>3. ASSUME NEW a \in acks' \ acks PROVE Grounded(a)'
  <2>1. PICK s \in Sessions : AckRow(s)
    BY <1>3, AcksAre
  <2>2. PICK it \in loc[s].todo :
          acks' = acks \cup {[ts |-> loc[s].ts, run |-> loc[s].run, item |-> it, shows |-> loc[s].shows]}
    BY <2>1, AckRowIs
  <2>3. a = [ts |-> loc[s].ts, run |-> loc[s].run, item |-> it, shows |-> loc[s].shows]
    BY <1>3, <2>2
  <2>4. a.ts = loc[s].ts /\ a.run = loc[s].run /\ a.item = it /\ a.shows = loc[s].shows
    BY <2>3
  <2>5. pc[s] = "rows" /\ briefed' = briefed /\ sweeps' = sweeps
    BY <2>1, AckRowIs
  <2>6. AckFits(s)
    OBVIOUS
  <2>7. loc[s].ts >= it.date /\ RenderedIn(loc[s].shows, it)
        /\ \E b \in briefed : b.shows = loc[s].shows /\ b.at <= loc[s].ts
    BY <2>5, <2>6 DEF AckFits, Structure, LocOK, Dated
  <2>8. AttendedRun(a.run)
    <3>1. s \in Attended /\ \E r \in sweeps : r.kind = "open" /\ r.run = loc[s].run
      BY <2>5 DEF RunsOwned
    <3>2. \A r \in sweeps : r.run = loc[s].run => r.attended = (s \in Attended)
      BY <2>5 DEF RunsOwned
    <3>3. \A r \in sweeps : r.run = loc[s].run => r.attended
      BY <3>1, <3>2, Zenon
    <3>4. QED
      BY <2>4, <3>1, <3>3 DEF AttendedRun, Rows
  <2>9. AttendedRun(a.run)'
    BY <2>5, <2>8 DEF AttendedRun, Rows
  <2>10. QED
    BY <2>4, <2>5, <2>7, <2>9 DEF Grounded, RenderedIn
<1>4. \A a \in acks' : Grounded(a)'
  BY <1>2, <1>3
<1>5. AllGrounded'
  BY <1>4 DEF AllGrounded
<1>6. FilesOK'
  BY FilesOKStep
<1>7. QED
  BY <1>5, <1>6, CountsAre, PTL

-----------------------------------------------------------------------------
\* Failed closes and their alarms.

\* A failed close comes to the file now.
LEMMA FailedStay ==
  ASSUME Structure, StopsAtClose, [Next]_vars
  PROVE  \A f \in FailedRows' : f \in FailedRows \/ (f.kind = "close" /\ f.at = now)
BY RowsAre DEF FailedRows

LEMMA OpeningIs ==
  ASSUME Structure, StopsAtClose, [Next]_vars, NEW s \in Sessions, pc'[s] = "open"
  PROVE  Start(s) \/ Raising(s) \/ (pc[s] = "open" /\ loc'[s] = loc[s])
<1>1. CASE WorldIs
  BY <1>1 DEF WorldIs
<1>2. ASSUME NEW t \in Sessions, Sweep(t) \/ Crash(t)
      PROVE  Start(s) \/ Raising(s) \/ (pc[s] = "open" /\ loc'[s] = loc[s])
  <2>1. CASE t # s
    BY <1>2, <2>1, OthersStay
  <2>2. CASE t = s
    BY <1>2, <2>2, SessionMoves, OpenIs, CrashIs, ClosingIs DEF Working
  <2>3. QED
    BY <2>1, <2>2
<1>3. QED
  BY <1>1, <1>2, StepsAre

\* A look finds every failed close that has no alarm yet.
LEMMA LookFinds ==
  ASSUME NEW f \in FailedRows, f.kind = "close"
  PROVE  \E al \in alarms \cup Due : AlarmOn(al, f)
<1> DEFINE a == Alarm("failed", Cycle(f))
<1>1. f \in FailedCycles
  BY DEF FailedCycles, FailedRows
<1>2. a.kind = "failed" /\ a.key = Cycle(f)
  BY DEF Alarm
<1>3. CASE Raised(a)
  BY <1>2, <1>3 DEF Raised, AlarmOn
<1>4. CASE ~Raised(a)
  <2>1. a \in Due
    BY <1>1, <1>4 DEF Due, Fresh, FailedAlarms
  <2>2. QED
    BY <1>2, <2>1 DEF AlarmOn
<1>5. QED
  BY <1>3, <1>4

LEMMA ToldStep ==
  ASSUME Structure, StopsAtClose, Told, [Next]_vars
  PROVE  Told'
<1>1. /\ \A r \in sweeps : r.ts \in Nat /\ r.ts <= now
      /\ now \in Nat /\ \A s \in Sessions : loc[s].ts \in Nat /\ loc[s].ts <= now
  BY PendingAssumption DEF Structure, Typed, FilesOK, RowOK, LocOK, Dated
<1>2. \A f \in FailedRows' : f.kind = "close"
  BY FailedStay DEF Told
<1>3. ASSUME NEW time \in Nat, time <= now, NEW f \in FailedRows', f.at < time PROVE f \in FailedRows
  BY <1>1, <1>3, FailedStay
<1>4. ASSUME NEW o \in sweeps', o.kind = "open", o.attended, NEW f \in FailedRows', f.at < o.ts
      PROVE  \E al \in alarms' : AlarmOn(al, f)
  <2>1. CASE o \in sweeps
    <3>1. f \in FailedRows
      BY <1>1, <1>3, <1>4, <2>1
    <3>2. \E al \in alarms : AlarmOn(al, f)
      BY <1>4, <2>1, <3>1 DEF Told
    <3>3. QED
      BY <3>2, FilesGrow
  <2>2. CASE o \notin sweeps
    <3>1. PICK s \in Sessions : /\ o.attended = (s \in Attended) /\ o.ts = loc[s].ts
                                /\ pc[s] = "open" /\ Open(s)
      BY <1>4, <2>2, RowsAre
    <3>2. s \in Attended
      BY <1>4, <3>1, Zenon
    <3>3. f \in FailedRows
      BY <1>1, <1>3, <1>4, <3>1
    <3>4. \E al \in alarms \cup loc[s].new : AlarmOn(al, f)
      BY <1>4, <3>1, <3>2, <3>3 DEF Told
    <3>5. loc[s].new = {} /\ alarms' = alarms
      BY <3>1, OpenIs
    <3>6. QED
      BY <3>4, <3>5
  <2>3. QED
    BY <2>1, <2>2
<1>5. ASSUME NEW s \in Attended, pc'[s] = "open", NEW f \in FailedRows', f.at < loc'[s].ts
      PROVE  \E al \in alarms' \cup loc'[s].new : AlarmOn(al, f)
  <2>1. s \in Sessions
    BY DEF Sessions
  <2>2. CASE Start(s)
    <3>1. loc'[s].ts = now /\ loc'[s].new = Due /\ alarms' = alarms
      BY <2>1, <2>2, StartIs
    <3>2. f \in FailedRows /\ f.kind = "close"
      BY <1>1, <1>2, <1>3, <1>5, <3>1
    <3>3. QED
      BY <3>1, <3>2, LookFinds
  <2>3. CASE pc[s] = "open" /\ loc'[s] = loc[s]
    <3>1. f \in FailedRows
      BY <1>1, <1>3, <1>5, <2>1, <2>3
    <3>2. \E al \in alarms \cup loc[s].new : AlarmOn(al, f)
      BY <1>5, <2>3, <3>1 DEF Told
    <3>3. QED
      BY <2>3, <3>2, FilesGrow
  <2>4. CASE Raising(s)
    <3>1. /\ pc[s] = "open" /\ loc'[s].ts = loc[s].ts
          /\ \A a \in loc[s].new : a \in loc'[s].new \/ a \in alarms' \/ Raised(a)
      BY <2>1, <2>4, RaisingIs DEF Raising
    <3>2. f \in FailedRows
      BY <1>1, <1>3, <1>5, <2>1, <3>1
    <3>3. PICK al \in alarms \cup loc[s].new : AlarmOn(al, f)
      BY <1>5, <3>1, <3>2 DEF Told
    <3>4. Raised(al) => \E b \in alarms : AlarmOn(b, f)
      BY <3>3 DEF Raised, AlarmOn
    <3>5. QED
      BY <3>1, <3>3, <3>4, FilesGrow
  <2>5. QED
    BY <1>5, <2>1, <2>2, <2>3, <2>4, OpeningIs
<1>6. QED
  BY <1>2, <1>4, <1>5 DEF Told

-----------------------------------------------------------------------------
\* What a close has read.

\* What lands or fails from now on is not before any time that has been.
LEMMA BeforeStays ==
  ASSUME Structure, StopsAtClose, [Next]_vars
  PROVE  \A time \in Nat : time <= now =>
           /\ ReadBefore(time) => \A it \in landed' : it.at < time => it \in AckedItems'
           /\ ToldBefore(time) => \A f \in FailedRows' : f.at < time =>
                \E al \in alarms' : AlarmOn(al, f) /\ AlarmItem(al) \in AckedItems'
<1>1. now \in Nat /\ AckedItems \subseteq AckedItems' /\ alarms \subseteq alarms'
  BY FilesGrow DEF AckedItems
<1>2. \A it \in landed' : it \in landed \/ it.at = now
  <2>1. CASE Land
    BY <2>1 DEF Land, Item
  <2>2. CASE Tick \/ Observer \/ UNCHANGED vars
    BY <2>2 DEF Tick, Observer, ObserverLooks, ObserverReads, ObserverWrites, vars
  <2>3. ASSUME NEW s \in Sessions, Sweep(s) \/ Crash(s) PROVE landed' = landed
    BY <2>3, SessionMoves, StartIs, RaisingIs, OpenIs, CrashIs DEF Closing, Working, Raising
  <2>4. QED
    BY <2>1, <2>2, <2>3 DEF Next
<1>3. ASSUME NEW time \in Nat, time <= now, ReadBefore(time), NEW it \in landed', it.at < time
      PROVE  it \in AckedItems'
  BY <1>1, <1>2, <1>3 DEF ReadBefore
<1>4. ASSUME NEW time \in Nat, time <= now, ToldBefore(time), NEW f \in FailedRows', f.at < time
      PROVE  \E al \in alarms' : AlarmOn(al, f) /\ AlarmItem(al) \in AckedItems'
  <2>1. f \in FailedRows
    BY <1>1, <1>4, FailedStay
  <2>2. QED
    BY <1>1, <1>4, <2>1 DEF ToldBefore
<1>5. QED
  BY <1>3, <1>4

\* Nothing is pending when an attended run is let to close ok.
LEMMA OkReads ==
  ASSUME Structure, RunsOwned, Told, NEW s \in Attended, Unread = {}, pc[s] \notin {"idle", "open"}
  PROVE  /\ \A it \in landed : it \in AckedItems
         /\ \A o \in Rows("open", loc[s].run) : ToldBefore(o.ts)
<1>1. Items \subseteq AckedItems
  BY DEF Unread, Acked, AckedItems
<1>2. s \in Sessions
  BY DEF Sessions
<1>3. ASSUME NEW o \in Rows("open", loc[s].run) PROVE o \in sweeps /\ o.kind = "open" /\ o.attended
  <2>1. o \in sweeps /\ o.kind = "open" /\ o.run = loc[s].run
    BY <1>3 DEF Rows
  <2>2. o.attended = (s \in Attended)
    BY <1>2, <2>1 DEF RunsOwned
  <2>3. QED
    BY <2>1, <2>2, Zenon
<1>4. ASSUME NEW o \in Rows("open", loc[s].run) PROVE ToldBefore(o.ts)
  BY <1>1, <1>3, <1>4 DEF Told, ToldBefore, Items
<1>5. QED
  BY <1>1, <1>4 DEF Items

LEMMA ReadAtCloseStep ==
  ASSUME Structure, StopsAtClose, RunsOwned, Told, ReadAtClose, [Next]_vars
  PROVE  ReadAtClose'
<1>1. /\ \A r \in sweeps : r.ts \in Nat /\ r.ts <= now
      /\ now \in Nat /\ \A s \in Sessions : loc[s].ts \in Nat /\ loc[s].ts <= now
  BY PendingAssumption DEF Structure, Typed, FilesOK, RowOK, LocOK, Dated
<1> DEFINE ReadAfter(time) == \A it \in landed' : it.at < time => it \in AckedItems'
           ToldAfter(time) == \A f \in FailedRows' : f.at < time =>
                                \E al \in alarms' : AlarmOn(al, f) /\ AlarmItem(al) \in AckedItems'
<1>2. \A time \in Nat : time <= now =>
        (ReadBefore(time) => ReadAfter(time)) /\ (ToldBefore(time) => ToldAfter(time))
  BY BeforeStays
<1>3. Attended \subseteq Sessions
  BY DEF Sessions
<1> HIDE DEF ReadAfter, ToldAfter
\* A run that is at work or closed gets no other open row.
<1>4. ASSUME NEW o \in sweeps', o.kind = "open", NEW s \in Sessions, pc[s] \notin {"idle", "open"},
             o.run = loc[s].run
      PROVE  o \in sweeps
  <2>1. CASE o \notin sweeps
    <3>1. PICK t \in Sessions : o.run = loc[t].run /\ pc[t] = "open"
      BY <1>4, <2>1, RowsAre
    <3>2. QED
      BY <1>4, <3>1 DEF RunsOwned
  <2>2. QED
    BY <2>1
<1>5. ASSUME NEW o \in sweeps', o.kind = "open", NEW r \in sweeps, o.run = r.run
      PROVE  o \in sweeps
  <2>1. CASE o \notin sweeps
    <3>1. PICK t \in Sessions : o.run = loc[t].run /\ pc[t] = "open"
      BY <1>5, <2>1, RowsAre
    <3>2. QED
      BY <1>5, <3>1 DEF RunsOwned
  <2>2. QED
    BY <2>1
<1>6. ASSUME NEW s \in Attended, pc'[s] = "ok"
      PROVE  /\ ReadAfter(loc'[s].ts)
             /\ \A o \in sweeps' : o.kind = "open" /\ o.run = loc'[s].run => ToldAfter(o.ts)
  <2>1. CASE Ok(s)
    <3>1. /\ loc'[s].ts = now /\ loc'[s].run = loc[s].run /\ pc[s] \notin {"idle", "open"}
          /\ Unread = {} /\ sweeps' = sweeps
      BY <1>3, <1>6, <2>1, OkIs
    <3>2. /\ \A it \in landed : it \in AckedItems
          /\ \A o \in Rows("open", loc[s].run) : ToldBefore(o.ts)
      BY <3>1, OkReads
    <3>3. ReadBefore(now)
      BY <3>2 DEF ReadBefore
    <3>4. ASSUME NEW o \in sweeps', o.kind = "open", o.run = loc'[s].run PROVE ToldAfter(o.ts)
      <4>1. o \in Rows("open", loc[s].run) /\ o \in sweeps
        BY <3>1, <3>4 DEF Rows
      <4>2. QED
        BY <1>1, <1>2, <3>2, <4>1
    <3>5. ReadAfter(now)
      BY <1>1, <1>2, <3>3
    <3>6. QED
      BY <3>1, <3>4, <3>5
  <2>2. CASE pc[s] = "ok" /\ loc'[s] = loc[s]
    <3>1. ReadBefore(loc[s].ts) /\ \A o \in Rows("open", loc[s].run) : ToldBefore(o.ts)
      BY <2>2 DEF ReadAtClose
    <3>2. ReadAfter(loc[s].ts)
      BY <1>1, <1>2, <1>3, <3>1
    <3>3. ASSUME NEW o \in sweeps', o.kind = "open", o.run = loc'[s].run PROVE ToldAfter(o.ts)
      <4>1. o \in sweeps
        BY <1>3, <1>4, <2>2, <3>3
      <4>2. o \in Rows("open", loc[s].run)
        BY <2>2, <3>3, <4>1 DEF Rows
      <4>3. QED
        BY <1>1, <1>2, <3>1, <4>1, <4>2
    <3>4. QED
      BY <2>2, <3>2, <3>3
  <2>3. QED
    BY <1>3, <1>6, <2>1, <2>2, AcksAre
<1>7. ASSUME NEW r \in sweeps', r.kind = "close", r.outcome = "ok", r.attended
      PROVE  /\ ReadAfter(r.ts)
             /\ \A o \in sweeps' : o.kind = "open" /\ o.run = r.run => ToldAfter(o.ts)
  <2>1. CASE r \in sweeps
    <3>1. ReadBefore(r.ts) /\ \A o \in Rows("open", r.run) : ToldBefore(o.ts)
      BY <1>7, <2>1 DEF ReadAtClose
    <3>2. ReadAfter(r.ts)
      BY <1>1, <1>2, <2>1, <3>1
    <3>3. ASSUME NEW o \in sweeps', o.kind = "open", o.run = r.run PROVE ToldAfter(o.ts)
      <4>1. o \in sweeps
        BY <1>5, <2>1, <3>3
      <4>2. o \in Rows("open", r.run)
        BY <3>3, <4>1 DEF Rows
      <4>3. QED
        BY <1>1, <1>2, <3>1, <4>1, <4>2
    <3>4. QED
      BY <3>2, <3>3
  <2>2. CASE r \notin sweeps
    <3>1. PICK s \in Sessions : /\ r.run = loc[s].run /\ r.attended = (s \in Attended) /\ Closing(s)
                                /\ pc[s] = "ok" /\ r.ts = loc[s].ts
      BY <1>7, <2>2, RowsAre
    <3>2. s \in Attended
      BY <1>7, <3>1, Zenon
    <3>3. ReadBefore(r.ts) /\ \A o \in Rows("open", r.run) : ToldBefore(o.ts)
      BY <3>1, <3>2 DEF ReadAtClose
    <3>4. ReadAfter(r.ts)
      BY <1>1, <1>2, <3>1, <3>3
    <3>5. ASSUME NEW o \in sweeps', o.kind = "open", o.run = r.run PROVE ToldAfter(o.ts)
      <4>1. o \in sweeps
        BY <1>4, <3>1, <3>5
      <4>2. o \in Rows("open", r.run)
        BY <3>5, <4>1 DEF Rows
      <4>3. QED
        BY <1>1, <1>2, <3>3, <4>1, <4>2
    <3>6. QED
      BY <3>4, <3>5
  <2>3. QED
    BY <2>1, <2>2
<1>8. QED
  BY <1>6, <1>7 DEF ReadAtClose, ReadAfter, ToldAfter, ReadBefore, ToldBefore, Rows

-----------------------------------------------------------------------------
LEMMA InitSound == Init => Sound
<1> SUFFICES ASSUME Init PROVE Sound
  OBVIOUS
<1>1. sweeps = {} /\ acks = {} /\ briefed = {} /\ landed = {} /\ \A s \in Sessions : pc[s] = "idle"
  BY DEF Init
<1>2. RunsOwned /\ ClosesLast /\ TipCommitted /\ AllCount
  BY <1>1 DEF RunsOwned, ClosesLast, TipCommitted, AllCount
<1>3. \A s \in Sessions : AckFits(s)
  BY <1>1 DEF AckFits
<1>4. Told /\ ReadAtClose
  BY <1>1 DEF Told, ReadAtClose, FailedRows, Sessions
<1>5. QED
  BY <1>2, <1>3, <1>4 DEF Sound

LEMMA SoundStep ==
  ASSUME StopsAtClose, Structure, Sound, [Next]_vars
  PROVE  Sound'
<1>1. RunsOwned /\ ClosesLast /\ TipCommitted /\ AllCount /\ Told /\ ReadAtClose
      /\ \A s \in Sessions : AckFits(s)
  BY DEF Sound
<1>2. RunsOwned' /\ ClosesLast' /\ TipCommitted'
  BY <1>1, RunsOwnedStep, ClosesLastStep, TipCommittedStep
<1>3. \A s \in Sessions : AckFits(s)'
  BY <1>1, AckFitsStep
<1>4. AllCount'
  BY <1>1, <1>2, AllCountStep
<1>5. Told' /\ ReadAtClose'
  BY <1>1, ToldStep, ReadAtCloseStep
<1>6. QED
  BY <1>2, <1>3, <1>4, <1>5 DEF Sound

\* Every row counts, and what has a row is read.
LEMMA RowsRead ==
  ASSUME Structure, Sound
  PROVE  AckedItems = Acked
BY DEF Structure, FilesOK, Sound, AllCount, AckedItems, Acked

LEMMA WhatItMeans ==
  ASSUME Structure, Sound
  PROVE  AckCounts /\ OkMeansRead /\ FailureIsRead
<1>1. AckedItems = Acked
  BY RowsRead
<1>2. AckCounts
  BY <1>1 DEF Sound, AckFits, AckCounts
<1>3. \A r \in OkCloses : /\ ReadBefore(r.ts)
                          /\ \A o \in Rows("open", r.run) : ToldBefore(o.ts)
  BY DEF OkCloses, Sound, ReadAtClose
<1>4. OkMeansRead
  BY <1>1, <1>3 DEF OkMeansRead, ReadBefore
<1>5. FailureIsRead
  BY <1>1, <1>3 DEF FailureIsRead, ToldBefore, FailedRows, AlarmOn
<1>6. QED
  BY <1>2, <1>4, <1>5

THEOREM RowsAlwaysCount == StopsAtClose => (Spec => []IInv)
<1> SUFFICES ASSUME StopsAtClose PROVE Spec => []IInv
  OBVIOUS
<1>1. Init => IInv
  BY InitStructure, InitSound DEF IInv
<1>2. IInv /\ [Next]_vars => IInv'
  BY StructureStep, SoundStep DEF IInv
<1>3. QED
  BY <1>1, <1>2, PTL DEF Spec

\* A successful acknowledgement leaves nothing of what it acknowledged pending
\* (pending.py:603), whatever other sweeps, looks and alarms happen meanwhile: no row is
\* written that does not count.
THEOREM InvHolds == StopsAtClose => (Spec => []Inv)
<1> SUFFICES ASSUME StopsAtClose PROVE Spec => []Inv
  OBVIOUS
<1>1. IInv => Inv
  BY TypesFollow, WhatItMeans DEF IInv, Inv
<1>2. QED
  BY <1>1, RowsAlwaysCount, PTL

\* An attended run that closed ok leaves no change behind it unread (pending.py:601-606):
\* what lands between its last look and its close is not before the close.
THEOREM OkMeansReadHolds == StopsAtClose => (Spec => []OkMeansRead)
<1> SUFFICES ASSUME StopsAtClose PROVE Spec => []OkMeansRead
  OBVIOUS
<1>1. IInv => OkMeansRead
  BY WhatItMeans DEF IInv
<1>2. QED
  BY <1>1, RowsAlwaysCount, PTL

\* Every cycle whose failed close was on file before an attended run opened has an alarm,
\* and the run's ok close says that it was read (pending.py:821-828).
THEOREM FailureIsReadHolds == StopsAtClose => (Spec => []FailureIsRead)
<1> SUFFICES ASSUME StopsAtClose PROVE Spec => []FailureIsRead
  OBVIOUS
<1>1. IInv => FailureIsRead
  BY WhatItMeans DEF IInv
<1>2. QED
  BY <1>1, RowsAlwaysCount, PTL
=============================================================================
