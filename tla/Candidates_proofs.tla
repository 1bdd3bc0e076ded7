-------------------------- MODULE Candidates_proofs --------------------------
(***************************************************************************)
(* Proofs about Candidates, for any number of candidates, artifacts,       *)
(* harvesters, reconcilers and promoters.  Types, records with their files *)
(* and that a reconciler leaves no file without a record hold in every     *)
(* instance.  What the gate promises - an artifact is used once, and every *)
(* promotion on record has its raw event - holds of every behaviour in     *)
(* which no two live promoters are inside the promotion lock at once:      *)
(* promoters may be killed anywhere, and locks be broken, as long as that  *)
(* stands.                                                                 *)
(***************************************************************************)
EXTENDS Candidates, SequenceTheorems, FiniteSetTheorems, WellFoundedInduction, TLAPS

Consumed(n) == n \in DOMAIN ledger /\ ledger[n].art # NoArtifact

\* The ledger is a sequence; the gate's variables have their types.
GateTypeOK ==
  /\ \E S : ledger \in Seq(S)
  /\ raw \in [Events -> Artifacts \cup {NoArtifact}]
  /\ ppc \in [Promoters -> PSteps]
  /\ pev \in [Promoters -> Events \cup {NoEvent}]
  /\ part \in [Promoters -> Artifacts \cup {NoArtifact}]
  /\ \A p \in Promoters : ppc[p] \notin {"check", "done", "dead"}
                            => pev[p] \in Events /\ part[p] \in Artifacts

\* Between the re-check under the lock and the record that relies on it.
Inside == {"raw", "write", "append"}

\* No two live promoters are inside at once.
Exclusive == \A p, q \in Promoters : ppc[p] \in Inside /\ ppc[q] \in Inside => p = q

\* A promoter about to write found no raw event, one about to append has its
\* raw event in place, and the promotions on record have theirs.
RawInv == /\ \A p \in Promoters : ppc[p] = "write" => raw[pev[p]] = NoArtifact
          /\ \A p \in Promoters : ppc[p] = "append" => raw[pev[p]] = part[p]
          /\ \A n \in DOMAIN ledger : ledger[n].art # NoArtifact =>
                /\ ledger[n].event \in Events
                /\ ledger[n].art \in Artifacts
          /\ PromotedHasRaw

-----------------------------------------------------------------------------
LEMMA AppendToLedger ==
  ASSUME NEW S, NEW led \in Seq(S), NEW x
  PROVE  /\ \E T : Append(led, x) \in Seq(T)
         /\ DOMAIN Append(led, x) = DOMAIN led \cup {Len(led) + 1}
         /\ \A n \in DOMAIN led : Append(led, x)[n] = led[n]
         /\ Append(led, x)[Len(led) + 1] = x
         /\ Len(led) + 1 \notin DOMAIN led
<1>1. led \in Seq(S \cup {x}) /\ x \in S \cup {x}
  BY SeqDef
<1>2. Append(led, x) \in Seq(S \cup {x})
  BY <1>1
<1>3. QED
  BY <1>1, <1>2

\* What every step leaves to the gate: a plain record or nothing on the ledger.
PlainStep == /\ UNCHANGED <<raw, ppc, pev, part>>
             /\ \/ UNCHANGED ledger
                \/ \E e, state : ledger' = Append(ledger, Record(e, state))

LEMMA OthersArePlain ==
  ASSUME \/ \E h \in Harvesters : Harvest(h) \/ HarvesterDies(h)
         \/ \E r \in Reconcilers : Reconcile(r) \/ ReconcilerDies(r)
         \/ Tick \/ LockAges \/ \E e \in Events : RemoveFile(e)
         \/ UNCHANGED vars
  PROVE  PlainStep
<1> USE DEF PlainStep, vars, outside, staging, promote, reconcile, harvest
<1>1. ASSUME NEW h \in Harvesters, Harvest(h) \/ HarvesterDies(h) PROVE PlainStep
  <2>1. CASE HarvestAppend(h)
    BY <2>1 DEF HarvestAppend
  <2>2. CASE ~HarvestAppend(h)
    BY <1>1, <2>2 DEF Harvest, HarvesterDies, HarvestLookup, Rematerialise, HarvestWrite
  <2>3. QED
    BY <2>1, <2>2
<1>2. ASSUME NEW r \in Reconcilers, Reconcile(r) \/ ReconcilerDies(r) PROVE PlainStep
  <2>1. CASE AppendPlanned(r)
    BY <2>1 DEF AppendPlanned
  <2>2. CASE ~AppendPlanned(r)
    BY <1>2, <2>2 DEF Reconcile, ReconcilerDies, ListStaged, ReadHistory, PlanActions, ReportRun, Rest
  <2>3. QED
    BY <2>1, <2>2
<1>3. CASE Tick \/ LockAges \/ \E e \in Events : RemoveFile(e)
  BY <1>3 DEF Tick, LockAges, RemoveFile
<1>4. CASE UNCHANGED vars
  BY <1>4
<1>5. QED
  BY <1>1, <1>2, <1>3, <1>4

LEMMA PlainKeepsTypes ==
  ASSUME GateTypeOK, PlainStep
  PROVE  GateTypeOK'
<1> USE DEF PlainStep, GateTypeOK
<1>1. CASE UNCHANGED ledger
  BY <1>1
<1>2. ASSUME NEW e, NEW state, ledger' = Append(ledger, Record(e, state))
      PROVE  GateTypeOK'
  <2>1. PICK S : ledger \in Seq(S)
    OBVIOUS
  <2>2. \E T : ledger' \in Seq(T)
    BY <1>2, <2>1, AppendToLedger
  <2>3. QED
    BY <2>2
<1>3. QED
  BY <1>1, <1>2

LEMMA PlainKeepsRaw ==
  ASSUME GateTypeOK, RawInv, PlainStep
  PROVE  RawInv'
<1> USE DEF PlainStep, GateTypeOK, RawInv, PromotedHasRaw
<1>1. CASE UNCHANGED ledger
  BY <1>1
<1>2. ASSUME NEW e, NEW state, ledger' = Append(ledger, Record(e, state))
      PROVE  RawInv'
  <2>1. PICK S : ledger \in Seq(S)
    OBVIOUS
  <2>2. Record(e, state).art = NoArtifact
    BY DEF Record
  <2>3. \A n \in DOMAIN ledger' : \/ n \in DOMAIN ledger /\ ledger'[n] = ledger[n]
                                  \/ ledger'[n].art = NoArtifact
    BY <1>2, <2>1, <2>2, AppendToLedger
  <2>4. QED
    BY <2>3
<1>3. QED
  BY <1>1, <1>2

LEMMA PromoterKeepsTypes ==
  ASSUME GateTypeOK, NEW p \in Promoters, Promote(p) \/ PromoterDies(p)
  PROVE  GateTypeOK'
<1> USE DEF GateTypeOK, PSteps, Locked, PGoto, outside
<1>1. ASSUME NEW c \in Cands, NEW g \in Artifacts, PreChecks(p, c, g)
      PROVE  GateTypeOK'
  <2>1. pev'[p] \in Events
    BY <1>1 DEF PreChecks, Eligible, ArmedBy
  <2>2. QED
    BY <1>1, <2>1 DEF PreChecks
<1>2. CASE TakeLock(p) \/ FindStale(p) \/ BreakLock(p) \/ GiveUp(p)
  BY <1>2 DEF TakeLock, FindStale, BreakLock, GiveUp
<1>3. CASE Recheck(p) \/ FindRaw(p)
  BY <1>3 DEF Recheck, FindRaw
<1>4. CASE WriteRaw(p)
  BY <1>4 DEF WriteRaw
<1>5. CASE AppendPromoted(p)
  <2>1. PICK S : ledger \in Seq(S)
    OBVIOUS
  <2>2. \E T : ledger' \in Seq(T)
    BY <1>5, <2>1, AppendToLedger DEF AppendPromoted
  <2>3. QED
    BY <1>5, <2>2 DEF AppendPromoted
<1>6. CASE LeaveLock(p) \/ PromoterDies(p)
  BY <1>6 DEF LeaveLock, PromoterDies
<1>7. QED
  BY <1>1, <1>2, <1>3, <1>4, <1>5, <1>6 DEF Promote

LEMMA PromoterKeepsRaw ==
  ASSUME GateTypeOK, RawInv, Exclusive, NEW p \in Promoters, Promote(p) \/ PromoterDies(p)
  PROVE  RawInv'
<1> USE DEF GateTypeOK, RawInv, PromotedHasRaw, PGoto, outside
<1>1. ASSUME NEW c \in Cands, NEW g \in Artifacts, PreChecks(p, c, g)
      PROVE  RawInv'
  BY <1>1 DEF PreChecks
<1>2. CASE TakeLock(p) \/ FindStale(p) \/ BreakLock(p) \/ GiveUp(p)
  BY <1>2 DEF TakeLock, FindStale, BreakLock, GiveUp
<1>3. CASE Recheck(p)
  BY <1>3 DEF Recheck
<1>4. CASE FindRaw(p)
  BY <1>4 DEF FindRaw
<1>5. CASE WriteRaw(p)
  \* Nobody else is inside, so the raw event found absent is still absent, and
  \* what stands keeps its artifact.
  <2>1. /\ pev[p] \in Events /\ part[p] \in Artifacts
        /\ ppc[p] = "write" /\ ppc' = [ppc EXCEPT ![p] = "append"]
        /\ raw' = [raw EXCEPT ![pev[p]] = part[p]]
        /\ UNCHANGED <<ledger, pev, part>>
    BY <1>5 DEF WriteRaw
  <2>2. \A e \in Events : raw[e] # NoArtifact => raw'[e] = raw[e]
    BY <2>1
  <2>3. ppc'[p] = "append" /\ raw'[pev[p]] = part[p]
    BY <2>1
  <2>4. \A q \in Promoters \ {p} : ppc'[q] \notin {"write", "append"}
    BY <2>1 DEF Exclusive, Inside
  <2>5. QED
    BY <2>1, <2>2, <2>3, <2>4, CandidatesAssumption
<1>6. CASE AppendPromoted(p)
  <2>1. PICK S : ledger \in Seq(S)
    OBVIOUS
  <2> DEFINE x == [event |-> pev[p], state |-> "promoted", art |-> part[p]]
  <2>2. ledger' = Append(ledger, x) /\ UNCHANGED <<raw, pev, part>> /\ PGoto(p, "append", "leave")
    BY <1>6 DEF AppendPromoted
  <2>3. /\ x.event \in Events /\ x.art \in Artifacts /\ x.state = "promoted"
        /\ raw[x.event] = x.art
    BY <2>2
  <2> HIDE DEF x
  <2>4. \A n \in DOMAIN ledger' : \/ n \in DOMAIN ledger /\ ledger'[n] = ledger[n]
                                  \/ ledger'[n] = x
    BY <2>1, <2>2, AppendToLedger
  <2>5. QED
    BY <2>2, <2>3, <2>4
<1>7. CASE LeaveLock(p) \/ PromoterDies(p)
  BY <1>7 DEF LeaveLock, PromoterDies
<1>8. QED
  BY <1>1, <1>2, <1>3, <1>4, <1>5, <1>6, <1>7 DEF Promote

LEMMA InitGate == ASSUME Init PROVE GateTypeOK /\ RawInv
BY SeqDef DEF Init, GateTypeOK, RawInv, PromotedHasRaw, PSteps

LEMMA TypesStep == ASSUME GateTypeOK, [Next]_vars PROVE GateTypeOK'
BY OthersArePlain, PlainKeepsTypes, PromoterKeepsTypes DEF Next

\* No promotion is on record that did not happen: every record that consumes an
\* artifact has its raw event under that artifact, whoever is killed and
\* whatever harvesters and reconcilers append, while promoters exclude one
\* another.  (Two inside may both find the raw event absent, and the second
\* replaces what the first has put on record.)
THEOREM PromotedHasRawHolds == Spec /\ []Exclusive => []PromotedHasRaw
<1>1. Init => GateTypeOK /\ RawInv
  BY InitGate
<1>2. GateTypeOK /\ RawInv /\ Exclusive /\ [Next]_vars => (GateTypeOK /\ RawInv)'
  BY TypesStep, OthersArePlain, PlainKeepsRaw, PromoterKeepsRaw DEF Next
<1>3. RawInv => PromotedHasRaw
  BY DEF RawInv
<1>4. QED
  BY <1>1, <1>2, <1>3, PTL DEF Spec

-----------------------------------------------------------------------------
\* Nobody is killed inside the promotion lock or outlasts its timeout.
NoBreaks == MayCrash = {} /\ SlowHolders = FALSE

\* The lock is held exactly while somebody is under it, by that promoter, and is
\* never stale.
LockInv == /\ \A p \in Promoters :
                 ppc[p] \in Locked => plock = [owner |-> p, held |-> TRUE, old |-> FALSE]
           /\ plock = FreeLock \/ \E p \in Promoters : ppc[p] \in Locked
           /\ \A p \in Promoters : ppc[p] # "break"

LEMMA LockStep ==
  ASSUME NoBreaks, GateTypeOK, LockInv, [Next]_vars
  PROVE  LockInv'
<1> USE CandidatesAssumption DEF LockInv, Locked, PGoto, FreeLock
<1>1. ASSUME NEW p \in Promoters, Promote(p) PROVE LockInv'
  <2> USE DEF GateTypeOK
  <2>1. CASE \E c \in Cands, g \in Artifacts : PreChecks(p, c, g)
    BY <2>1 DEF PreChecks
  <2>2. CASE TakeLock(p)
    <3>1. \A q \in Promoters : ppc[q] \notin Locked
      BY <2>2 DEF TakeLock
    <3>2. /\ ppc' = [ppc EXCEPT ![p] = "recheck"]
          /\ plock' = [owner |-> p, held |-> TRUE, old |-> FALSE]
      BY <2>2 DEF TakeLock
    <3>3. \A q \in Promoters : ppc'[q] \in Locked => q = p
      BY <3>1, <3>2
    <3>4. ppc'[p] = "recheck"
      BY <3>2
    <3>5. QED
      BY <3>2, <3>3, <3>4
  <2>3. CASE FindStale(p) \/ BreakLock(p) \/ GiveUp(p)
    BY <2>3 DEF FindStale, BreakLock, GiveUp
  <2>4. CASE Recheck(p)
    BY <2>4 DEF Recheck
  <2>5. CASE FindRaw(p) \/ WriteRaw(p)
    BY <2>5 DEF FindRaw, WriteRaw
  <2>6. CASE AppendPromoted(p)
    BY <2>6 DEF AppendPromoted
  <2>7. CASE LeaveLock(p)
    BY <2>7 DEF LeaveLock
  <2>8. QED
    BY <1>1, <2>1, <2>2, <2>3, <2>4, <2>5, <2>6, <2>7 DEF Promote
<1>2. ASSUME NEW p \in Promoters, PromoterDies(p) PROVE FALSE
  BY <1>2 DEF PromoterDies, NoBreaks
<1>3. ASSUME LockAges PROVE FALSE
  BY <1>3 DEF LockAges, NoBreaks
<1>4. CASE UNCHANGED <<plock, ppc>>
  BY <1>4
<1>5. \/ \E h \in Harvesters : Harvest(h) \/ HarvesterDies(h)
      \/ \E r \in Reconcilers : Reconcile(r) \/ ReconcilerDies(r)
      \/ Tick \/ \E e \in Events : RemoveFile(e)
      \/ UNCHANGED vars
      => UNCHANGED <<plock, ppc>>
  BY DEF Harvest, HarvesterDies, HarvestLookup, Rematerialise, HarvestWrite, HarvestAppend,
         Reconcile, ReconcilerDies, ListStaged, ReadHistory, PlanActions, AppendPlanned,
         ReportRun, Rest, Tick, RemoveFile, vars, promote
<1>6. QED
  BY <1>1, <1>2, <1>3, <1>4, <1>5 DEF Next

\* Promoters exclude one another as long as nobody dies under the lock or
\* outlasts its timeout, however many wait for it.
THEOREM ExclusiveHolds == NoBreaks => (Spec => []Exclusive)
<1> SUFFICES ASSUME NoBreaks PROVE Spec => []Exclusive
  OBVIOUS
<1>1. Init => GateTypeOK /\ LockInv
  BY InitGate DEF Init, LockInv, Locked
<1>2. GateTypeOK /\ LockInv /\ [Next]_vars => (GateTypeOK /\ LockInv)'
  BY TypesStep, LockStep
<1>3. LockInv => Exclusive
  BY DEF LockInv, Locked, Exclusive, Inside
<1>4. QED
  BY <1>1, <1>2, <1>3, PTL DEF Spec

\* Whoever has re-checked under the lock finds the scan still clean.
UseInv == /\ \A p \in Promoters : ppc[p] \in Inside => SingleUseScan(part[p])
          /\ SingleUse

\* A step that puts no consuming record on the ledger keeps every clean scan.
LEMMA PlainKeepsUse ==
  ASSUME GateTypeOK, UseInv, PlainStep
  PROVE  UseInv'
<1> USE DEF PlainStep, UseInv, SingleUse, SingleUseScan, GateTypeOK
<1>1. CASE UNCHANGED ledger
  BY <1>1
<1>2. ASSUME NEW e, NEW state, ledger' = Append(ledger, Record(e, state))
      PROVE  UseInv'
  <2>1. PICK S : ledger \in Seq(S)
    OBVIOUS
  <2>2. Record(e, state).art = NoArtifact
    BY DEF Record
  <2>3. \A n \in DOMAIN ledger' : \/ n \in DOMAIN ledger /\ ledger'[n] = ledger[n]
                                  \/ ledger'[n].art = NoArtifact
    BY <1>2, <2>1, <2>2, AppendToLedger
  <2>4. QED
    BY <2>3
<1>3. QED
  BY <1>1, <1>2

LEMMA PromoterKeepsUse ==
  ASSUME GateTypeOK, Exclusive, UseInv, NEW p \in Promoters, Promote(p) \/ PromoterDies(p)
  PROVE  UseInv'
<1> USE CandidatesAssumption
    DEF GateTypeOK, UseInv, SingleUse, SingleUseScan, PGoto, outside, Inside
<1>1. ASSUME NEW c \in Cands, NEW g \in Artifacts, PreChecks(p, c, g) PROVE UseInv'
  BY <1>1 DEF PreChecks
<1>2. CASE TakeLock(p) \/ FindStale(p) \/ BreakLock(p) \/ GiveUp(p) \/ LeaveLock(p) \/ PromoterDies(p)
  BY <1>2 DEF TakeLock, FindStale, BreakLock, GiveUp, LeaveLock, PromoterDies
<1>3. CASE Recheck(p)
  BY <1>3 DEF Recheck
<1>4. CASE FindRaw(p) \/ WriteRaw(p)
  BY <1>4 DEF FindRaw, WriteRaw
<1>5. CASE AppendPromoted(p)
  \* Only p is inside, so nobody else relies on a scan; p's own was clean.
  <2>1. PICK S : ledger \in Seq(S)
    OBVIOUS
  <2> DEFINE x == [event |-> pev[p], state |-> "promoted", art |-> part[p]]
  <2>2. ledger' = Append(ledger, x) /\ UNCHANGED <<part>> /\ PGoto(p, "append", "leave")
    BY <1>5 DEF AppendPromoted
  <2>3. \A n \in DOMAIN ledger : ledger[n].art # NoArtifact => CommitOf[ledger[n].art] # CommitOf[x.art]
    BY <2>2
  <2>4. \A q \in Promoters : ppc'[q] \notin Inside
    BY <2>2 DEF Exclusive
  <2> HIDE DEF x
  <2>5. /\ \A n \in DOMAIN ledger' : n \in DOMAIN ledger \/ n = Len(ledger) + 1
        /\ \A n \in DOMAIN ledger : ledger'[n] = ledger[n]
        /\ ledger'[Len(ledger) + 1] = x
    BY <2>1, <2>2, AppendToLedger
  <2>6. QED
    BY <2>3, <2>4, <2>5
<1>6. QED
  BY <1>1, <1>2, <1>3, <1>4, <1>5 DEF Promote

GateInv == GateTypeOK /\ RawInv /\ UseInv

LEMMA GateInvStep ==
  ASSUME GateInv, Exclusive, [Next]_vars
  PROVE  GateInv'
<1> USE DEF GateInv
<1>1. GateTypeOK'
  BY TypesStep
<1>2. ASSUME PlainStep PROVE RawInv' /\ UseInv'
  BY <1>2, PlainKeepsRaw, PlainKeepsUse
<1>3. ASSUME NEW p \in Promoters, Promote(p) \/ PromoterDies(p) PROVE RawInv' /\ UseInv'
  BY <1>3, PromoterKeepsRaw, PromoterKeepsUse
<1>4. QED
  BY <1>1, <1>2, <1>3, OthersArePlain DEF Next

LEMMA InitGateInv == ASSUME Init PROVE GateInv
<1>1. GateTypeOK /\ RawInv
  BY InitGate
<1>2. UseInv
  BY DEF Init, UseInv, SingleUse, SingleUseScan, Inside
<1>3. QED
  BY <1>1, <1>2 DEF GateInv

\* One signed artifact, or one signed commit, arms at most one promotion while
\* promoters exclude one another, wherever they are killed and however often
\* reconcilers and harvesters bring a promoted candidate back to `registered`.
THEOREM SingleUseHolds == Spec /\ []Exclusive => []SingleUse
<1>1. Init => GateInv
  BY InitGateInv
<1>2. GateInv /\ Exclusive /\ [Next]_vars => GateInv'
  BY GateInvStep
<1>3. GateInv => SingleUse
  BY DEF GateInv, UseInv
<1>4. QED
  BY <1>1, <1>2, <1>3, PTL DEF Spec

\* The promotions on record, as PromotionLedger counts them.
Promoted == {<<ledger[n].event, ledger[n].art>> :
                n \in {m \in DOMAIN ledger : ledger[m].art # NoArtifact}}

LEMMA GateSteps ==
  ASSUME GateInv, GateInv', [Next]_vars
  PROVE  [Gate!Next]_(<<raw, Promoted>>)
<1> USE DEF GateInv
<1>1. CASE PlainStep
  <2>1. Promoted' = Promoted
    <3>1. CASE UNCHANGED ledger
      BY <3>1 DEF Promoted
    <3>2. ASSUME NEW e, NEW state, ledger' = Append(ledger, Record(e, state))
          PROVE  Promoted' = Promoted
      <4>1. PICK S : ledger \in Seq(S)
        BY DEF GateTypeOK
      <4>2. Record(e, state).art = NoArtifact
        BY DEF Record
      <4>3. /\ DOMAIN ledger' = DOMAIN ledger \cup {Len(ledger) + 1}
            /\ \A n \in DOMAIN ledger : ledger'[n] = ledger[n]
            /\ ledger'[Len(ledger) + 1].art = NoArtifact
        BY <3>2, <4>1, <4>2, AppendToLedger
      <4>4. {m \in DOMAIN ledger' : ledger'[m].art # NoArtifact}
               = {m \in DOMAIN ledger : ledger[m].art # NoArtifact}
        BY <4>3
      <4>5. QED
        BY <4>3, <4>4 DEF Promoted
    <3>3. QED
      BY <1>1, <3>1, <3>2 DEF PlainStep
  <2>2. QED
    BY <1>1, <2>1 DEF PlainStep
<1>2. ASSUME NEW p \in Promoters, WriteRaw(p) PROVE [Gate!Next]_(<<raw, Promoted>>)
  <2>1. pev[p] \in Events /\ part[p] \in Artifacts
    BY <1>2 DEF WriteRaw, PGoto, GateTypeOK
  <2>2. UNCHANGED ledger
    BY <1>2 DEF WriteRaw, outside
  <2>3. Promoted' = Promoted
    BY <2>2 DEF Promoted
  <2>4. raw[pev[p]] = NoArtifact /\ raw' = [raw EXCEPT ![pev[p]] = part[p]]
    BY <1>2 DEF WriteRaw, PGoto, RawInv
  <2>5. Gate!WriteEvent(pev[p], part[p])
    BY <2>3, <2>4 DEF Gate!WriteEvent, Promoted
  <2>6. QED
    BY <2>1, <2>5 DEF Gate!Next
<1>3. ASSUME NEW p \in Promoters, AppendPromoted(p) PROVE [Gate!Next]_(<<raw, Promoted>>)
  <2>1. PICK S : ledger \in Seq(S)
    BY DEF GateTypeOK
  <2> DEFINE x == [event |-> pev[p], state |-> "promoted", art |-> part[p]]
  <2>2. ppc[p] = "append" /\ ledger' = Append(ledger, x) /\ UNCHANGED raw
    BY <1>3 DEF AppendPromoted, PGoto
  <2>3. /\ pev[p] \in Events /\ part[p] \in Artifacts /\ raw[pev[p]] = part[p]
        /\ SingleUseScan(part[p])
    BY <2>2 DEF GateTypeOK, RawInv, UseInv, Inside
  <2>4. x.event = pev[p] /\ x.art = part[p] /\ x.art # NoArtifact
    BY <2>3, CandidatesAssumption
  <2> HIDE DEF x
  <2>5. /\ DOMAIN ledger' = DOMAIN ledger \cup {Len(ledger) + 1}
        /\ \A n \in DOMAIN ledger : ledger'[n] = ledger[n]
        /\ ledger'[Len(ledger) + 1] = x
    BY <2>1, <2>2, AppendToLedger
  <2>6. Promoted' = Promoted \cup {<<pev[p], part[p]>>}
    <3>1. {m \in DOMAIN ledger' : ledger'[m].art # NoArtifact}
             = {m \in DOMAIN ledger : ledger[m].art # NoArtifact} \cup {Len(ledger) + 1}
      BY <2>4, <2>5
    <3>2. QED
      BY <2>4, <2>5, <3>1 DEF Promoted
  <2>7. \A q \in Promoted : CommitOf[q[2]] # CommitOf[part[p]]
    BY <2>3 DEF Promoted, SingleUseScan
  <2>8. PICK e \in Events, g \in Artifacts : e = pev[p] /\ g = part[p]
    BY <2>3
  <2>9. Gate!Record(e, g)
    BY <2>2, <2>3, <2>6, <2>7, <2>8 DEF Gate!Record, Promoted
  <2>10. Gate!Next
    BY <2>9, Zenon DEF Gate!Next
  <2>11. QED
    BY <2>10
<1>4. ASSUME NEW p \in Promoters, Promote(p) \/ PromoterDies(p),
             ~WriteRaw(p), ~AppendPromoted(p)
      PROVE  UNCHANGED <<raw, ledger>>
  BY <1>4 DEF Promote, PromoterDies, PreChecks, TakeLock, FindStale, BreakLock, GiveUp,
              Recheck, FindRaw, LeaveLock, outside
<1>5. CASE UNCHANGED <<raw, ledger>>
  BY <1>5 DEF Promoted
<1>6. QED
  BY <1>1, <1>2, <1>3, <1>4, <1>5, OthersArePlain DEF Next

\* While promoters exclude one another, ledger and raw directory implement the
\* abstract gate, through kills: a raw event is written once, under one
\* artifact, and a signed commit is put on record once, for the event written
\* under it.
THEOREM GateImplemented == Spec /\ []Exclusive => ImplementsGate
<1>1. Init => GateInv
  BY InitGateInv
<1>2. GateInv /\ Exclusive /\ [Next]_vars => GateInv'
  BY GateInvStep
<1>3. Init => Gate!Init
  BY DEF Init, Gate!Init
<1>4. GateInv /\ GateInv' /\ [Next]_vars => [Gate!Next]_(<<raw, Promoted>>)
  BY GateSteps
<1>5. QED
  BY <1>1, <1>2, <1>3, <1>4, PTL DEF Spec, ImplementsGate, Gate!Spec, Promoted

-----------------------------------------------------------------------------
(* Files and records: what is on record or about to be has had its file.   *)

\* The file is there, or somebody has removed it by hand.
Present(e) == files[e] # "none" \/ e \in removed

\* The events of the records a reconciler has yet to append.
PlanEvents(r) == {plan[r][n][1] : n \in DOMAIN plan[r]}

\* Whoever is about to append a record holds an event whose file was there.
FileInv ==
  /\ RecordHasFile
  /\ \A h \in Harvesters : hpc[h] # "idle" => hev[h] \in Events
  /\ \A h \in Harvesters : hpc[h] = "append" => Present(hev[h])
  /\ \A r \in Reconcilers : \A n \in DOMAIN plan[r] : Present(plan[r][n][1])
  /\ \A p \in Promoters : ppc[p] \notin {"check", "done", "dead"} => Present(pev[p])

\* A set of numbers has a least one, a bounded one a greatest.
LEMMA LeastOf ==
  ASSUME NEW T \in SUBSET Nat, T # {}
  PROVE  \E x \in T : \A y \in T : x <= y
<1>1. PICK x \in T : \A y \in T : ~(<<y, x>> \in OpToRel(<, Nat))
  BY NatLessThanWellFounded, WFMin
<1>2. \A y \in T : ~(y < x)
  BY <1>1 DEF OpToRel
<1>3. QED
  BY <1>2

LEMMA GreatestOf ==
  ASSUME NEW k \in Nat, NEW T \in SUBSET (1..k), T # {}
  PROVE  \E x \in T : \A y \in T : y <= x
<1> DEFINE D == {d \in Nat : k - d \in T}
<1>1. PICK t : t \in T
  OBVIOUS
<1>2. k - t \in D
  BY <1>1
<1>3. PICK d \in D : \A y \in D : d <= y
  BY <1>2, LeastOf
<1>4. \A y \in T : k - y \in D
  OBVIOUS
<1>5. QED
  BY <1>3, <1>4

\* A sequence of a finite set, each element once, leaves no element out.
LEMMA SeqsOfSet ==
  ASSUME NEW S, IsFiniteSet(S), NEW s \in SetToSeqs(S)
  PROVE  /\ s \in Seq(S)
         /\ \A e \in S : \E n \in DOMAIN s : s[n] = e
<1> DEFINE k == Cardinality(S)
<1>1. k \in Nat
  BY FS_CardinalityType
<1>2. s \in [1..k -> S] /\ \A i, j \in 1..k : i # j => s[i] # s[j]
  BY DEF SetToSeqs
<1>3. Cardinality(1..k) = k
  BY <1>1, FS_Interval
<1>4. s \in Injection(1..k, S)
  BY <1>2 DEF Injection, IsInjective
<1>5. s \in Surjection(1..k, S)
  BY <1>3, <1>4, FS_Injection
<1>6. \A e \in S : \E n \in 1..k : s[n] = e
  BY <1>5 DEF Surjection
<1>7. QED
  BY <1>1, <1>2, <1>6, SeqDef

\* The calendar is finite, and so is every set of its events.
LEMMA FiniteEvents == IsFiniteSet(Events) /\ \A T \in SUBSET Events : IsFiniteSet(T)
<1>1. IsFiniteSet(Days)
  BY CandidatesAssumption, FS_Interval DEF Days
<1>2. IsFiniteSet(Events)
  BY <1>1, CandidatesAssumption, FS_Product DEF Events
<1>3. QED
  BY <1>2, FS_Subset

\* A candidate's effective record is one of its own on the ledger, or there is none.
LEMMA EffectiveRecord ==
  ASSUME NEW led \in Seq(Records), NEW c \in Cands
  PROVE  LET rec == load_candidate_ledger(led)[c]
         IN \/ rec = None
            \/ \E n \in DOMAIN led : rec = led[n] /\ led[n].event[1] = c
<1> DEFINE S == {n \in DOMAIN led : led[n].event[1] = c}
<1>1. CASE S = {}
  BY <1>1 DEF load_candidate_ledger
<1>2. CASE S # {}
  <2>1. S \in SUBSET (1..Len(led)) /\ Len(led) \in Nat
    OBVIOUS
  <2>2. \E n \in S : \A m \in S : m <= n
    BY <1>2, <2>1, GreatestOf
  <2> DEFINE top == CHOOSE n \in S : \A m \in S : m <= n
  <2>3. top \in S
    BY <2>2
  <2>4. load_candidate_ledger(led)[c] = led[top]
    BY <1>2 DEF load_candidate_ledger
  <2>5. QED
    BY <2>3, <2>4
<1>3. QED
  BY <1>1, <1>2

LEMMA RecordFields ==
  ASSUME NEW e \in Events, NEW state \in STATES
  PROVE  /\ Record(e, state) \in Records
         /\ Record(e, state).event = e /\ Record(e, state).state = state
         /\ Record(e, state).art = NoArtifact
BY DEF Record, Records

LEMMA EventIsThere ==
  ASSUME NEW led \in Seq(Records), NEW c \in Cands
  PROVE  LET rec == load_candidate_ledger(led)[c]
         IN rec.state \in STATES => rec.event \in Events
<1>1. None.state \notin STATES
  BY DEF None, STATES
<1>2. \A n \in DOMAIN led : led[n] \in Records
  OBVIOUS
<1>3. \A x \in Records : x.event \in Events
  BY DEF Records
<1>4. QED
  BY <1>1, <1>2, <1>3, EffectiveRecord

LEMMA MovesOf ==
  ASSUME NEW T \in SUBSET Events, NEW s \in Seq(T), NEW f, \A e \in T : f[e] \in STATES
  PROVE  /\ Moves(s, f) \in Seq(Events \X STATES)
         /\ DOMAIN Moves(s, f) = DOMAIN s
         /\ \A n \in DOMAIN s : Moves(s, f)[n][1] = s[n]
<1>1. Moves(s, f) = [n \in 1..Len(s) |-> <<s[n], f[s[n]]>>] /\ DOMAIN s = 1..Len(s)
  BY DEF Moves
<1>2. \A n \in 1..Len(s) : s[n] \in T
  OBVIOUS
<1>3. Len(s) \in Nat
  OBVIOUS
<1>4. \A n \in 1..Len(s) : <<s[n], f[s[n]]>> \in Events \X STATES
  BY <1>2
<1>5. [n \in 1..Len(s) |-> <<s[n], f[s[n]]>>] \in Seq(Events \X STATES)
  BY <1>3, <1>4, SeqDef
<1>6. QED
  BY <1>1, <1>5

LEMMA TwoParts ==
  ASSUME NEW S, NEW s \in Seq(S), NEW t \in Seq(S)
  PROVE  /\ s \o t \in Seq(S) /\ Len(s \o t) = Len(s) + Len(t)
         /\ \A n \in 1..Len(s) : (s \o t)[n] = s[n]
         /\ \A n \in 1..Len(s \o t) : n <= Len(s) \/ (s \o t)[n] = t[n - Len(s)]
OBVIOUS

\* A batch made of three parts: what holds of every entry of the parts holds of
\* every entry of the batch, and the first part is all in it.
Cat3(s, t, u) == s \o t \o u

LEMMA ThreeParts ==
  ASSUME NEW S, NEW s \in Seq(S), NEW t \in Seq(S), NEW u \in Seq(S), NEW w, w = Cat3(s, t, u)
  PROVE  /\ w \in Seq(S)
         /\ \A n \in DOMAIN w : \/ \E m \in DOMAIN s : w[n] = s[m]
                                \/ \E m \in DOMAIN t : w[n] = t[m]
                                \/ \E m \in DOMAIN u : w[n] = u[m]
         /\ \A m \in DOMAIN s : \E n \in DOMAIN w : w[n] = s[m]
<1> DEFINE st == s \o t
<1>1. /\ st \in Seq(S) /\ Len(st) = Len(s) + Len(t)
      /\ \A n \in 1..Len(s) : st[n] = s[n]
      /\ \A n \in 1..Len(st) : n <= Len(s) \/ st[n] = t[n - Len(s)]
  BY TwoParts
<1> HIDE DEF st
<1> DEFINE all == st \o u
<1>2. /\ all \in Seq(S) /\ Len(all) = Len(st) + Len(u)
      /\ \A n \in 1..Len(st) : all[n] = st[n]
      /\ \A n \in 1..Len(all) : n <= Len(st) \/ all[n] = u[n - Len(st)]
  <2>1. st \in Seq(S)
    BY <1>1
  <2>2. QED
    BY <2>1, TwoParts
<1> HIDE DEF all
<1>3. /\ Len(s) \in Nat /\ Len(t) \in Nat /\ Len(u) \in Nat
      /\ DOMAIN s = 1..Len(s) /\ DOMAIN t = 1..Len(t) /\ DOMAIN u = 1..Len(u)
      /\ DOMAIN all = 1..Len(all)
  BY <1>2
<1>4. \A m \in DOMAIN s : m \in DOMAIN all /\ all[m] = s[m]
  BY <1>1, <1>2, <1>3
<1>5. ASSUME NEW n \in DOMAIN all
      PROVE  \/ \E m \in DOMAIN s : all[n] = s[m]
             \/ \E m \in DOMAIN t : all[n] = t[m]
             \/ \E m \in DOMAIN u : all[n] = u[m]
  <2>1. CASE n <= Len(s)
    <3>1. n \in DOMAIN s /\ all[n] = s[n]
      BY <1>1, <1>2, <1>3, <1>5, <2>1
    <3>2. QED
      BY <3>1
  <2>2. CASE n > Len(s) /\ n <= Len(st)
    <3>1. n - Len(s) \in DOMAIN t /\ all[n] = t[n - Len(s)]
      BY <1>1, <1>2, <1>3, <1>5, <2>2
    <3>2. QED
      BY <3>1
  <2>3. CASE n > Len(st)
    <3>1. n - Len(st) \in DOMAIN u /\ all[n] = u[n - Len(st)]
      BY <1>1, <1>2, <1>3, <1>5, <2>3
    <3>2. QED
      BY <3>1
  <2>4. QED
    BY <1>1, <1>2, <1>3, <1>5, <2>1, <2>2, <2>3
<1>6. QED
  <2>1. all = w
    BY DEF all, st, Cat3
  <2>2. QED
    BY <1>2, <1>4, <1>5, <2>1

\* The planned states after the orphans: whoever is staged or registered in
\* them has an event of the calendar.
LEMMA StagedEvent ==
  ASSUME TypeOK, NEW O \in SUBSET Events, NEW c \in Cands,
         AfterOrphans(O)[c].state \in {"staged", "registered"}
  PROVE  AfterOrphans(O)[c].event \in Events
<1> DEFINE rec == load_candidate_ledger(ledger)[c]
           own == {e \in O : e[1] = c}
           bad == {e \in own : files[e] = "bad"}
<1>1. AfterOrphans(O)[c] = IF bad # {} THEN Record(Latest(bad), "quarantined")
                           ELSE IF rec = None /\ own # {} THEN Record(Earliest(own), "staged")
                           ELSE IF rec.event \in own THEN Record(rec.event, "staged")
                           ELSE rec
  BY DEF AfterOrphans
<1>2. rec.state \in STATES => rec.event \in Events
  BY EventIsThere DEF TypeOK
<1>3. own # {} => Earliest(own) \in own
  <2>1. SUFFICES ASSUME own # {} PROVE Earliest(own) \in own
    OBVIOUS
  <2>2. \A e \in own : e[2] \in Nat
    BY CandidatesAssumption DEF Events, Days
  <2> DEFINE T == {e[2] : e \in own}
  <2>3. T \in SUBSET Nat /\ T # {}
    BY <2>1, <2>2
  <2>4. \E x \in T : \A y \in T : x <= y
    <3> HIDE DEF T
    <3>1. QED
      BY <2>3, LeastOf
  <2>5. \E e \in own : \A f \in own : e[2] <= f[2]
    BY <2>4
  <2>6. QED
    BY <2>5 DEF Earliest
<1> HIDE DEF rec
<1>4. \A e, state : Record(e, state).event = e /\ Record(e, state).state = state
  BY DEF Record
<1>5. own \subseteq Events
  OBVIOUS
<1> HIDE DEF own, bad
<1>6. QED
  BY <1>1, <1>2, <1>3, <1>4, <1>5 DEF STATES

\* Whatever batch a reconciler plans, every entry names a file that is there,
\* and every unclaimed file it saw, and that is still there, is in it.
GoodBatch(paths, events, batch) ==
  /\ batch \in Seq(Events \X STATES)
  /\ \A n \in DOMAIN batch : files[batch[n][1]] # "none"
  /\ \A e \in paths \ events : files[e] # "none" => \E n \in DOMAIN batch : batch[n][1] = e

LEMMA BatchOf ==
  ASSUME TypeOK, NEW paths \in SUBSET Events, NEW events, NEW batch \in compute_actions(paths, events)
  PROVE  GoodBatch(paths, events, batch)
<1> DEFINE O == Orphans(paths, events)
           eff1 == AfterOrphans(O)
           S == Movers(eff1, "staged")
           eff2 == Moved(eff1, S, "registered")
           X == {c \in Movers(eff2, "registered") : Expired(eff2[c].event)}
           RegSet == {eff1[c].event : c \in S}
           ExpSet == {eff2[c].event : c \in X}
           States == [e \in O |-> OrphanState(O, e)]
<1>1. PICK s \in NameOrders(O), t \in SetToSeqs(RegSet), u \in SetToSeqs(ExpSet) :
         batch = Moves(s, States) \o Moves(t, AllTo("registered")) \o Moves(u, AllTo("expired"))
  <2>1. batch \in Batches(O, States, RegSet, ExpSet)
    BY DEF compute_actions
  <2> HIDE DEF O, RegSet, ExpSet, States
  <2>2. QED
    BY <2>1 DEF Batches
<1>2. O \in SUBSET Events /\ \A e \in O : files[e] # "none"
  BY DEF Orphans
<1>3. RegSet \in SUBSET Events /\ \A e \in RegSet : files[e] = "valid"
  <2> HIDE DEF O
  <2>1. \A c \in S : eff1[c].event \in Events /\ files[eff1[c].event] = "valid"
    BY <1>2, StagedEvent DEF Movers
  <2>2. QED
    BY <2>1
<1>4. ExpSet \in SUBSET Events /\ \A e \in ExpSet : files[e] = "valid"
  <2>1. ASSUME NEW c \in X PROVE eff2[c].event \in Events /\ files[eff2[c].event] = "valid"
    <3>1. c \in Cands /\ eff2[c].state = "registered" /\ files[eff2[c].event] = "valid"
      BY DEF Movers
    <3>2. eff2[c] = IF c \in S THEN Record(eff1[c].event, "registered") ELSE eff1[c]
      BY <3>1 DEF Moved
    <3>3. CASE c \in S
      <4>1. eff2[c].event = eff1[c].event
        BY <3>2, <3>3 DEF Record
      <4>2. eff1[c].event \in RegSet
        BY <3>3
      <4>3. QED
        BY <3>1, <4>1, <4>2, <1>3
    <3>4. CASE c \notin S
      <4>1. eff1[c].state \in {"staged", "registered"} /\ eff2[c] = eff1[c]
        BY <3>1, <3>2, <3>4
      <4> HIDE DEF O
      <4>2. eff1[c].event \in Events
        BY <1>2, <3>1, <4>1, StagedEvent
      <4>3. QED
        BY <3>1, <4>1, <4>2
    <3>5. QED
      BY <3>3, <3>4
  <2>2. QED
    BY <2>1
<1>5. s \in SetToSeqs(O)
  BY DEF NameOrders
<1> HIDE DEF RegSet, ExpSet
<1>6. /\ s \in Seq(O) /\ \A e \in O : \E n \in DOMAIN s : s[n] = e
      /\ t \in Seq(RegSet) /\ u \in Seq(ExpSet)
  <2> HIDE DEF O
  <2>1. QED
    BY <1>2, <1>3, <1>4, <1>5, FiniteEvents, SeqsOfSet
<1>7. /\ \A e \in O : States[e] \in STATES
      /\ \A e \in Events : AllTo("registered")[e] \in STATES /\ AllTo("expired")[e] \in STATES
  BY DEF OrphanState, STATES, AllTo
<1> DEFINE ms == Moves(s, States)
           mt == Moves(t, AllTo("registered"))
           mu == Moves(u, AllTo("expired"))
<1> HIDE DEF O, States
<1>8. /\ ms \in Seq(Events \X STATES) /\ DOMAIN ms = DOMAIN s /\ \A n \in DOMAIN s : ms[n][1] = s[n]
      /\ mt \in Seq(Events \X STATES) /\ DOMAIN mt = DOMAIN t /\ \A n \in DOMAIN t : mt[n][1] = t[n]
      /\ mu \in Seq(Events \X STATES) /\ DOMAIN mu = DOMAIN u /\ \A n \in DOMAIN u : mu[n][1] = u[n]
  <2>1. /\ ms \in Seq(Events \X STATES) /\ DOMAIN ms = DOMAIN s /\ \A n \in DOMAIN s : ms[n][1] = s[n]
    <3>1. O \in SUBSET Events /\ s \in Seq(O) /\ \A e \in O : States[e] \in STATES
      BY <1>2, <1>6, <1>7
    <3>2. QED
      BY <3>1, MovesOf
  <2>2. /\ mt \in Seq(Events \X STATES) /\ DOMAIN mt = DOMAIN t /\ \A n \in DOMAIN t : mt[n][1] = t[n]
    BY <1>3, <1>6, <1>7, MovesOf
  <2>3. /\ mu \in Seq(Events \X STATES) /\ DOMAIN mu = DOMAIN u /\ \A n \in DOMAIN u : mu[n][1] = u[n]
    BY <1>4, <1>6, <1>7, MovesOf
  <2>4. QED
    BY <2>1, <2>2, <2>3
<1>9. batch = ms \o mt \o mu
  BY <1>1
<1> HIDE DEF ms, mt, mu
<1>10. /\ batch \in Seq(Events \X STATES)
       /\ \A n \in DOMAIN batch : \/ \E m \in DOMAIN ms : batch[n] = ms[m]
                                  \/ \E m \in DOMAIN mt : batch[n] = mt[m]
                                  \/ \E m \in DOMAIN mu : batch[n] = mu[m]
       /\ \A m \in DOMAIN ms : \E n \in DOMAIN batch : batch[n] = ms[m]
  <2>1. /\ ms \in Seq(Events \X STATES) /\ mt \in Seq(Events \X STATES)
        /\ mu \in Seq(Events \X STATES)
    BY <1>8
  <2> HIDE <1>8
  <2>2. batch = Cat3(ms, mt, mu)
    BY <1>9 DEF Cat3
  <2>3. batch \in Seq(Events \X STATES)
    BY <2>1, <2>2, ThreeParts
  <2>4. \A n \in DOMAIN batch : \/ \E m \in DOMAIN ms : batch[n] = ms[m]
                                \/ \E m \in DOMAIN mt : batch[n] = mt[m]
                                \/ \E m \in DOMAIN mu : batch[n] = mu[m]
    BY <2>1, <2>2, ThreeParts
  <2>5. \A m \in DOMAIN ms : \E n \in DOMAIN batch : batch[n] = ms[m]
    BY <2>1, <2>2, ThreeParts
  <2>6. QED
    BY <2>3, <2>4, <2>5
<1>11. /\ \A m \in DOMAIN ms : ms[m][1] \in O
       /\ \A m \in DOMAIN mt : mt[m][1] \in RegSet
       /\ \A m \in DOMAIN mu : mu[m][1] \in ExpSet
  BY <1>6, <1>8
<1>12. \A n \in DOMAIN batch : files[batch[n][1]] # "none"
  BY <1>2, <1>3, <1>4, <1>10, <1>11
<1>13. \A e \in O : \E n \in DOMAIN batch : batch[n][1] = e
  BY <1>6, <1>8, <1>10
<1>14. \A e \in paths \ events : files[e] # "none" => e \in O
  BY DEF O, Orphans
<1>15. QED
  BY <1>10, <1>12, <1>13, <1>14 DEF GoodBatch

LEMMA LedgerGrows ==
  ASSUME ledger \in Seq(Records), NEW x \in Records, ledger' = Append(ledger, x)
  PROVE  /\ ledger' \in Seq(Records)
         /\ \A n \in DOMAIN ledger' : (n \in DOMAIN ledger /\ ledger'[n] = ledger[n]) \/ ledger'[n] = x
         /\ known_events \subseteq known_events' /\ x.event \in known_events'
<1>1. ledger' \in Seq(Records)
  OBVIOUS
<1>2. /\ DOMAIN ledger' = DOMAIN ledger \cup {Len(ledger) + 1}
      /\ \A n \in DOMAIN ledger : ledger'[n] = ledger[n]
      /\ ledger'[Len(ledger) + 1] = x
  BY AppendToLedger
<1>3. QED
  BY <1>1, <1>2 DEF known_events

\* A file is put into the staging directory by a harvester, or taken out of it
\* by hand; no other step touches it.
LEMMA StagingStep ==
  ASSUME FileInv, [Next]_vars
  PROVE  \/ UNCHANGED <<files, removed>>
         \/ \E e \in Events : PutFile(e) /\ UNCHANGED removed
         \/ \E e \in Events : RemoveFile(e)
<1> USE DEF vars, outside, staging, promote, reconcile, harvest
<1>1. ASSUME NEW h \in Harvesters, Rematerialise(h) \/ HarvestWrite(h)
      PROVE  \E e \in Events : PutFile(e) /\ UNCHANGED removed
  <2>1. hpc[h] # "idle"
    BY <1>1 DEF Rematerialise, HarvestWrite, HEnd, HGoto
  <2>2. hev[h] \in Events
    BY <2>1 DEF FileInv
  <2>3. PutFile(hev[h]) /\ UNCHANGED removed
    BY <1>1 DEF Rematerialise, HarvestWrite
  <2>4. QED
    BY <2>2, <2>3
<1>2. ASSUME NEW h \in Harvesters, Harvest(h) \/ HarvesterDies(h),
             ~(Rematerialise(h) \/ HarvestWrite(h))
      PROVE  UNCHANGED <<files, removed>>
  BY <1>2 DEF Harvest, HarvesterDies, HarvestLookup, HarvestAppend
<1>3. ASSUME NEW r \in Reconcilers, Reconcile(r) \/ ReconcilerDies(r)
      PROVE  UNCHANGED <<files, removed>>
  BY <1>3 DEF Reconcile, ReconcilerDies, ListStaged, ReadHistory, PlanActions, AppendPlanned,
              ReportRun, Rest
<1>4. ASSUME NEW p \in Promoters, Promote(p) \/ PromoterDies(p)
      PROVE  UNCHANGED <<files, removed>>
  BY <1>4 DEF Promote, PromoterDies, PreChecks, TakeLock, FindStale, BreakLock, GiveUp,
              Recheck, FindRaw, WriteRaw, AppendPromoted, LeaveLock
<1>5. CASE LockAges \/ Tick \/ UNCHANGED vars
  BY <1>5 DEF LockAges, Tick
<1>6. QED
  BY <1>1, <1>2, <1>3, <1>4, <1>5 DEF Next

\* A file that is there or was removed by hand stays one of the two.
LEMMA PresentStays ==
  ASSUME TypeOK, FileInv, [Next]_vars
  PROVE  /\ \A e : e \in Events /\ Present(e) => Present(e)'
         /\ removed \subseteq removed'
         /\ files' \in [Events -> {"none", "valid", "bad"}] /\ removed' \subseteq Events
<1>1. files \in [Events -> {"none", "valid", "bad"}] /\ removed \subseteq Events
  BY DEF TypeOK
<1>2. CASE UNCHANGED <<files, removed>>
  BY <1>1, <1>2 DEF Present
<1>3. ASSUME NEW e \in Events, PutFile(e), UNCHANGED removed
      PROVE  /\ \A f : f \in Events /\ Present(f) => Present(f)'
             /\ files' \in [Events -> {"none", "valid", "bad"}]
  BY <1>1, <1>3 DEF Present, PutFile
<1>4. ASSUME NEW e \in Events, RemoveFile(e)
      PROVE  /\ \A f : f \in Events /\ Present(f) => Present(f)'
             /\ files' \in [Events -> {"none", "valid", "bad"}]
             /\ removed \subseteq removed' /\ removed' \subseteq Events
  BY <1>1, <1>4 DEF Present, RemoveFile
<1>5. QED
  BY <1>1, <1>2, <1>3, <1>4, StagingStep

\* What the ledger may gain in a step: a record of an event that is known to be
\* there, from a harvester, a reconciler or a promoter.
LEMMA LedgerStep ==
  ASSUME TypeOK, GateTypeOK, FileInv, [Next]_vars
  PROVE  \/ UNCHANGED ledger
         \/ \E x \in Records : ledger' = Append(ledger, x) /\ Present(x.event)
<1> USE DEF vars, outside, staging, promote, reconcile, harvest
<1>1. ASSUME NEW h \in Harvesters, HarvestAppend(h)
      PROVE  \E x \in Records : ledger' = Append(ledger, x) /\ Present(x.event)
  <2>1. hpc[h] = "append" /\ ledger' = Append(ledger, Record(hev[h], "staged"))
    BY <1>1 DEF HarvestAppend, HEnd, HGoto
  <2>2. hev[h] \in Events /\ Present(hev[h])
    BY <2>1 DEF FileInv
  <2>3. QED
    BY <2>1, <2>2, RecordFields DEF STATES
<1>2. ASSUME NEW r \in Reconcilers, AppendPlanned(r)
      PROVE  \E x \in Records : ledger' = Append(ledger, x) /\ Present(x.event)
  <2>1. /\ plan[r] # <<>> /\ ledger' = Append(ledger, Record(Head(plan[r])[1], Head(plan[r])[2]))
    BY <1>2 DEF AppendPlanned
  <2>2. plan[r] \in Seq(Events \X STATES)
    BY DEF TypeOK
  <2>3. Head(plan[r]) = plan[r][1] /\ 1 \in DOMAIN plan[r] /\ plan[r][1] \in Events \X STATES
    BY <2>1, <2>2
  <2>4. Present(plan[r][1][1])
    BY <2>3 DEF FileInv
  <2>5. plan[r][1][1] \in Events /\ plan[r][1][2] \in STATES
    BY <2>3
  <2>6. QED
    BY <2>1, <2>3, <2>4, <2>5, RecordFields
<1>3. ASSUME NEW p \in Promoters, AppendPromoted(p)
      PROVE  \E x \in Records : ledger' = Append(ledger, x) /\ Present(x.event)
  <2> DEFINE x == [event |-> pev[p], state |-> "promoted", art |-> part[p]]
  <2>1. ppc[p] = "append" /\ ledger' = Append(ledger, x)
    BY <1>3 DEF AppendPromoted, PGoto
  <2>2. Present(pev[p])
    BY <2>1 DEF FileInv
  <2>3. pev[p] \in Events /\ part[p] \in Artifacts
    BY <2>1 DEF GateTypeOK
  <2>4. x \in Records /\ x.event = pev[p]
    BY <2>3 DEF Records, STATES
  <2>5. QED
    BY <2>1, <2>2, <2>4
<1>4. ASSUME NEW h \in Harvesters, Harvest(h) \/ HarvesterDies(h), ~HarvestAppend(h)
      PROVE  UNCHANGED ledger
  BY <1>4 DEF Harvest, HarvesterDies, HarvestLookup, Rematerialise, HarvestWrite
<1>5. ASSUME NEW r \in Reconcilers, Reconcile(r) \/ ReconcilerDies(r), ~AppendPlanned(r)
      PROVE  UNCHANGED ledger
  BY <1>5 DEF Reconcile, ReconcilerDies, ListStaged, ReadHistory, PlanActions, ReportRun, Rest
<1>6. ASSUME NEW p \in Promoters, Promote(p) \/ PromoterDies(p), ~AppendPromoted(p)
      PROVE  UNCHANGED ledger
  BY <1>6 DEF Promote, PromoterDies, PreChecks, TakeLock, FindStale, BreakLock, GiveUp,
              Recheck, FindRaw, WriteRaw, LeaveLock
<1>7. CASE LockAges \/ Tick \/ UNCHANGED vars \/ \E e \in Events : RemoveFile(e)
  BY <1>7 DEF LockAges, Tick, RemoveFile
<1>8. QED
  BY <1>1, <1>2, <1>3, <1>4, <1>5, <1>6, <1>7 DEF Next

LEMMA LedgerKeeps ==
  ASSUME TypeOK, GateTypeOK, FileInv, [Next]_vars
  PROVE  ledger' \in Seq(Records) /\ known_events \subseteq known_events' /\ RecordHasFile'
<1>1. ledger \in Seq(Records)
  BY DEF TypeOK
<1>2. \A n \in DOMAIN ledger : ledger[n].event \in Events /\ Present(ledger[n].event)
  <2>1. \A x \in Records : x.event \in Events
    BY DEF Records
  <2>2. \A n \in DOMAIN ledger : ledger[n] \in Records
    BY <1>1
  <2>3. QED
    BY <2>1, <2>2 DEF FileInv, RecordHasFile, Present
<1>3. CASE UNCHANGED ledger
  <2>1. \A n \in DOMAIN ledger' : files'[ledger'[n].event] # "none" \/ ledger'[n].event \in removed'
    BY <1>2, <1>3, PresentStays DEF Present
  <2>2. RecordHasFile'
    BY <2>1 DEF RecordHasFile
  <2>3. ledger' \in Seq(Records) /\ known_events \subseteq known_events'
    BY <1>1, <1>3 DEF known_events
  <2>4. QED
    BY <2>2, <2>3
<1>4. ASSUME NEW x \in Records, ledger' = Append(ledger, x), Present(x.event)
      PROVE  ledger' \in Seq(Records) /\ known_events \subseteq known_events' /\ RecordHasFile'
  <2>1. x.event \in Events
    BY DEF Records
  <2>2. \A n \in DOMAIN ledger' : ledger'[n].event \in Events /\ Present(ledger'[n].event)
    BY <1>1, <1>2, <1>4, <2>1, LedgerGrows
  <2>3. \A n \in DOMAIN ledger' : files'[ledger'[n].event] # "none" \/ ledger'[n].event \in removed'
    BY <2>2, PresentStays DEF Present
  <2>4. RecordHasFile'
    BY <2>3 DEF RecordHasFile
  <2>5. ledger' \in Seq(Records) /\ known_events \subseteq known_events'
    BY <1>1, <1>4, LedgerGrows
  <2>6. QED
    BY <2>4, <2>5
<1>5. QED
  BY <1>3, <1>4, LedgerStep

\* What holds of a harvester is kept by its own steps, and nobody else writes it.
HarvestOK ==
  /\ hpc \in [Harvesters -> {"idle", "write", "append", "rewrite"}]
  /\ hev \in [Harvesters -> Events \cup {NoEvent}]
  /\ \A h \in Harvesters : hpc[h] # "idle" => hev[h] \in Events
  /\ \A h \in Harvesters : hpc[h] = "append" => Present(hev[h])

LEMMA HarvesterKeeps ==
  ASSUME TypeOK, FileInv, HarvestOK, [Next]_vars, NEW h \in Harvesters,
         Harvest(h) \/ HarvesterDies(h)
  PROVE  HarvestOK' /\ deaths' \in Nat /\ UNCHANGED day
<1>0. deaths \in Nat
  BY DEF TypeOK
<1>1. /\ \A e : e \in Events /\ Present(e) => files'[e] # "none" \/ e \in removed'
      /\ files \in [Events -> {"none", "valid", "bad"}]
  BY PresentStays DEF Present, TypeOK
<1> USE DEF HarvestOK, HGoto, HEnd, staging
<1>2. ASSUME NEW c \in Cands, HarvestLookup(h, c) PROVE HarvestOK' /\ UNCHANGED <<deaths, day>>
  <2>1. <<c, day>> \in Events
    BY DEF TypeOK, Events
  <2> DEFINE rec == load_candidate_ledger(ledger)[c]
  <2>2. rec.state # "none" => rec.event \in Events
    <3>1. rec = None \/ \E n \in DOMAIN ledger : rec = ledger[n]
      BY EffectiveRecord DEF TypeOK
    <3>2. None.state = "none"
      BY DEF None
    <3>3. \A n \in DOMAIN ledger : ledger[n] \in Records
      BY DEF TypeOK
    <3>4. \A x \in Records : x.event \in Events
      BY DEF Records
    <3> HIDE DEF rec
    <3>5. QED
      BY <3>1, <3>2, <3>3, <3>4
  <2>3. PICK to \in {"write", "rewrite"}, e \in Events :
           /\ hpc' = [hpc EXCEPT ![h] = to]
           /\ hev' = [hev EXCEPT ![h] = e]
    BY <1>2, <2>1, <2>2 DEF HarvestLookup
  <2>4. UNCHANGED <<files, removed, deaths, day>>
    BY <1>2 DEF HarvestLookup
  <2>5. QED
    BY <2>3, <2>4 DEF Present
<1>3. CASE Rematerialise(h) \/ HarvestAppend(h)
  <2>1. /\ hpc' = [hpc EXCEPT ![h] = "idle"] /\ hev' = [hev EXCEPT ![h] = NoEvent]
        /\ UNCHANGED <<deaths, day>>
    BY <1>3 DEF Rematerialise, HarvestAppend
  <2>2. QED
    BY <1>0, <1>1, <2>1 DEF Present
<1>4. CASE HarvestWrite(h)
  <2>1. /\ hpc' = [hpc EXCEPT ![h] = "append"] /\ UNCHANGED <<hev, deaths, day>>
        /\ hpc[h] = "write"
    BY <1>4 DEF HarvestWrite
  <2>2. hev[h] \in Events /\ files'[hev[h]] # "none"
    BY <1>1, <1>4, <2>1 DEF HarvestWrite, PutFile
  <2>3. QED
    BY <1>0, <1>1, <2>1, <2>2 DEF Present
<1>5. CASE HarvesterDies(h)
  <2>1. /\ hpc' = [hpc EXCEPT ![h] = "idle"] /\ hev' = [hev EXCEPT ![h] = NoEvent]
        /\ deaths' = deaths + 1 /\ UNCHANGED day
    BY <1>5 DEF HarvesterDies
  <2>2. QED
    BY <1>0, <1>1, <2>1 DEF Present
<1>6. QED
  BY <1>0, <1>2, <1>3, <1>4, <1>5 DEF Harvest

\* Who does not touch the harvesters' memory keeps it right.
LEMMA HarvestersRest ==
  ASSUME TypeOK, FileInv, HarvestOK, [Next]_vars, UNCHANGED harvest
  PROVE  HarvestOK'
<1>1. \A e : e \in Events /\ Present(e) => files'[e] # "none" \/ e \in removed'
  BY PresentStays DEF Present
<1>2. QED
  BY <1>1 DEF HarvestOK, Present, harvest

ReconcileTypes ==
  /\ rpc \in [Reconcilers -> {"idle", "history", "plan", "append", "reported"}]
  /\ listed \in [Reconcilers -> SUBSET Events]
  /\ known \in [Reconcilers -> SUBSET Events]
  /\ plan \in [Reconcilers -> Seq(Events \X STATES)]

\* What holds of one reconciler's memory.
Sees(r) ==
  /\ \A e \in listed[r] : Present(e)
  /\ \A n \in DOMAIN plan[r] : Present(plan[r][n][1])
  /\ rpc[r] = "plan" => known[r] \subseteq known_events
  /\ rpc[r] = "append" => listed[r] \subseteq known_events \cup removed \cup PlanEvents(r)
  /\ rpc[r] = "reported" => listed[r] \subseteq known_events \cup removed

\* What a reconciler saw is on record, was removed, or is in its batch.
ReconcileOK == ReconcileTypes /\ \A r \in Reconcilers : Sees(r)

\* A memory that a step leaves alone stays right: files and records only come.
LEMMA SeesOn ==
  ASSUME TypeOK, GateTypeOK, FileInv, ReconcileTypes, [Next]_vars,
         NEW r \in Reconcilers, Sees(r),
         rpc'[r] = rpc[r], listed'[r] = listed[r], known'[r] = known[r], plan'[r] = plan[r]
  PROVE  Sees(r)'
<1>1. /\ \A e : e \in Events /\ Present(e) => files'[e] # "none" \/ e \in removed'
      /\ removed \subseteq removed'
  BY PresentStays DEF Present
<1>2. known_events \subseteq known_events'
  BY LedgerKeeps
<1>3. \A n \in DOMAIN plan[r] : plan[r][n][1] \in Events
  <2>1. plan[r] \in Seq(Events \X STATES)
    BY DEF ReconcileTypes
  <2>2. \A n \in DOMAIN plan[r] : plan[r][n] \in Events \X STATES
    BY <2>1
  <2>3. QED
    BY <2>2
<1>4. listed[r] \subseteq Events
  BY DEF ReconcileTypes
<1>5. PlanEvents(r)' = PlanEvents(r)
  BY DEF PlanEvents
<1>6. \A e \in listed'[r] : files'[e] # "none" \/ e \in removed'
  BY <1>1, <1>4 DEF Sees
<1>7. \A n \in DOMAIN plan'[r] : files'[plan'[r][n][1]] # "none" \/ plan'[r][n][1] \in removed'
  BY <1>1, <1>3 DEF Sees
<1>8. QED
  BY <1>1, <1>2, <1>5, <1>6, <1>7 DEF Sees, Present

LEMMA ReconcilerKeeps ==
  ASSUME TypeOK, GateTypeOK, FileInv, ReconcileOK, [Next]_vars, NEW r \in Reconcilers,
         Reconcile(r) \/ ReconcilerDies(r)
  PROVE  ReconcileOK' /\ deaths' \in Nat /\ UNCHANGED day
<1>0. deaths \in Nat /\ ledger \in Seq(Records) /\ removed \subseteq Events
  BY DEF TypeOK
<1>1. ReconcileTypes /\ Sees(r)
  BY DEF ReconcileOK
<1>2. ASSUME NEW q \in Reconcilers \ {r},
             rpc'[q] = rpc[q], listed'[q] = listed[q], known'[q] = known[q], plan'[q] = plan[q]
      PROVE  Sees(q)'
  BY <1>1, <1>2, SeesOn DEF ReconcileOK
<1> DEFINE OthersSame == \A q \in Reconcilers \ {r} :
             rpc'[q] = rpc[q] /\ listed'[q] = listed[q] /\ known'[q] = known[q] /\ plan'[q] = plan[q]
<1>3. ASSUME ReconcileTypes', Sees(r)', OthersSame
      PROVE  ReconcileOK'
  <2>1. \A q \in Reconcilers : Sees(q)'
    BY <1>2, <1>3
  <2>2. QED
    BY <1>3, <2>1 DEF ReconcileOK
<1> USE DEF RGoto, staging
<1>4. CASE ListStaged(r)
  <2>1. /\ rpc' = [rpc EXCEPT ![r] = "history"]
        /\ listed' = [listed EXCEPT ![r] = {e \in Events : files[e] # "none"}]
        /\ UNCHANGED <<known, plan, files, removed, deaths, day>>
    BY <1>4 DEF ListStaged
  <2>2. ReconcileTypes' /\ OthersSame
    BY <1>1, <2>1 DEF ReconcileTypes
  <2>3. Sees(r)'
    BY <1>1, <2>1 DEF ReconcileTypes, Sees, Present
  <2>4. QED
    BY <1>0, <1>3, <2>1, <2>2, <2>3
<1>5. CASE ReadHistory(r)
  <2>1. /\ rpc' = [rpc EXCEPT ![r] = "plan"]
        /\ known' = [known EXCEPT ![r] = known_events]
        /\ UNCHANGED <<listed, plan, files, removed, deaths, day, ledger>>
    BY <1>5 DEF ReadHistory
  <2>2. known_events \subseteq Events
    <3>1. \A n \in DOMAIN ledger : ledger[n] \in Records
      BY <1>0
    <3>2. \A x \in Records : x.event \in Events
      BY DEF Records
    <3>3. QED
      BY <3>1, <3>2 DEF known_events
  <2>3. ReconcileTypes' /\ OthersSame
    BY <1>1, <2>1, <2>2 DEF ReconcileTypes
  <2>4. known'[r] = known_events' /\ rpc'[r] = "plan"
    BY <1>1, <2>1 DEF ReconcileTypes, known_events
  <2>5. Sees(r)'
    BY <1>1, <2>1, <2>4 DEF Sees, Present
  <2>6. QED
    BY <1>0, <1>3, <2>1, <2>3, <2>5
<1>6. CASE PlanActions(r)
  <2>1. PICK batch \in compute_actions(listed[r], known[r]) : plan' = [plan EXCEPT ![r] = batch]
    BY <1>6 DEF PlanActions
  <2>2. /\ rpc[r] = "plan" /\ rpc' = [rpc EXCEPT ![r] = "append"]
        /\ known' = [known EXCEPT ![r] = {}]
        /\ UNCHANGED <<listed, files, removed, deaths, day, ledger>>
    BY <1>6 DEF PlanActions
  <2>3. listed[r] \in SUBSET Events
    BY <1>1 DEF ReconcileTypes
  <2>4. /\ batch \in Seq(Events \X STATES)
        /\ \A n \in DOMAIN batch : files[batch[n][1]] # "none"
        /\ \A e \in listed[r] \ known[r] : files[e] # "none" => \E n \in DOMAIN batch : batch[n][1] = e
    <3>1. GoodBatch(listed[r], known[r], batch)
      BY <2>1, <2>3, BatchOf
    <3>2. QED
      BY <3>1 DEF GoodBatch
  <2>5. ReconcileTypes' /\ OthersSame
    BY <1>1, <2>1, <2>2, <2>4 DEF ReconcileTypes
  <2>6. /\ rpc'[r] = "append" /\ listed'[r] = listed[r] /\ plan'[r] = batch /\ known'[r] = {}
    BY <1>1, <2>1, <2>2 DEF ReconcileTypes
  <2>7. known[r] \subseteq known_events /\ \A e \in listed[r] : Present(e)
    BY <1>1, <2>2 DEF Sees
  <2>8. known_events' = known_events /\ removed' = removed /\ files' = files
    BY <2>2 DEF known_events
  <2>9. listed[r] \subseteq known_events \cup removed \cup {batch[n][1] : n \in DOMAIN batch}
    BY <2>4, <2>7 DEF Present
  <2>10. PlanEvents(r)' = {batch[n][1] : n \in DOMAIN batch}
    BY <2>6 DEF PlanEvents
  <2>11. Sees(r)'
    BY <2>4, <2>6, <2>7, <2>8, <2>9, <2>10 DEF Sees, Present
  <2>12. QED
    BY <1>0, <1>3, <2>2, <2>5, <2>11
<1>7. CASE AppendPlanned(r)
  <2>1. /\ rpc[r] = "append" /\ plan[r] # <<>>
        /\ ledger' = Append(ledger, Record(Head(plan[r])[1], Head(plan[r])[2]))
        /\ plan' = [plan EXCEPT ![r] = Tail(plan[r])]
        /\ UNCHANGED <<rpc, listed, known, files, removed, deaths, day>>
    BY <1>7 DEF AppendPlanned
  <2>2. plan[r] \in Seq(Events \X STATES)
    BY <1>1 DEF ReconcileTypes
  <2> DEFINE b == plan[r]
  <2>3. /\ Head(b) = b[1] /\ Head(b) \in Events \X STATES
        /\ Tail(b) \in Seq(Events \X STATES)
        /\ \A n \in DOMAIN Tail(b) : n + 1 \in DOMAIN b /\ Tail(b)[n] = b[n + 1]
        /\ \A n \in DOMAIN b : n = 1 \/ (n - 1 \in DOMAIN Tail(b) /\ Tail(b)[n - 1] = b[n])
    BY <2>1, <2>2
  <2>4. ReconcileTypes' /\ OthersSame
    BY <1>1, <2>1, <2>3 DEF ReconcileTypes
  <2>5. plan'[r] = Tail(b) /\ rpc'[r] = "append" /\ listed'[r] = listed[r] /\ known'[r] = known[r]
    BY <1>1, <2>1 DEF ReconcileTypes
  <2>6. /\ Record(Head(b)[1], Head(b)[2]) \in Records
        /\ Record(Head(b)[1], Head(b)[2]).event = b[1][1]
    BY <2>3, RecordFields
  <2>7. known_events \subseteq known_events' /\ b[1][1] \in known_events'
    BY <1>0, <2>1, <2>6, LedgerGrows
  <2>8. PlanEvents(r) \subseteq {b[1][1]} \cup PlanEvents(r)'
    <3>1. ASSUME NEW n \in DOMAIN b PROVE b[n][1] \in {b[1][1]} \cup PlanEvents(r)'
      <4>1. CASE n = 1
        BY <4>1
      <4>2. CASE n # 1
        <5>1. n - 1 \in DOMAIN plan'[r] /\ plan'[r][n - 1][1] = b[n][1]
          BY <2>3, <2>5, <4>2
        <5>2. QED
          BY <5>1 DEF PlanEvents
      <4>3. QED
        BY <4>1, <4>2
    <3>2. QED
      BY <3>1 DEF PlanEvents
  <2>9. listed[r] \subseteq known_events \cup removed \cup PlanEvents(r)
    BY <1>1, <2>1 DEF Sees
  <2>10. listed'[r] \subseteq known_events' \cup removed' \cup PlanEvents(r)'
    BY <2>1, <2>5, <2>7, <2>8, <2>9
  <2>11. \A n \in DOMAIN plan'[r] : files'[plan'[r][n][1]] # "none" \/ plan'[r][n][1] \in removed'
    BY <1>1, <2>1, <2>3, <2>5 DEF Sees, Present
  <2>12. \A e \in listed'[r] : files'[e] # "none" \/ e \in removed'
    BY <1>1, <2>1, <2>5 DEF Sees, Present
  <2>13. Sees(r)'
    BY <2>5, <2>10, <2>11, <2>12 DEF Sees, Present
  <2>14. QED
    BY <1>0, <1>3, <2>1, <2>4, <2>13
<1>8. CASE ReportRun(r)
  <2>1. /\ plan[r] = <<>> /\ rpc[r] = "append" /\ rpc' = [rpc EXCEPT ![r] = "reported"]
        /\ UNCHANGED <<listed, known, plan, files, removed, deaths, day, ledger>>
    BY <1>8 DEF ReportRun
  <2>2. ReconcileTypes' /\ OthersSame /\ rpc'[r] = "reported"
    BY <1>1, <2>1 DEF ReconcileTypes
  <2>3. PlanEvents(r) = {}
    BY <2>1 DEF PlanEvents
  <2>4. known_events' = known_events
    BY <2>1 DEF known_events
  <2>5. Sees(r)'
    BY <1>1, <2>1, <2>2, <2>3, <2>4 DEF Sees, Present
  <2>6. QED
    BY <1>0, <1>3, <2>1, <2>2, <2>5
<1>9. CASE Rest(r)
  <2>1. /\ rpc' = [rpc EXCEPT ![r] = "idle"] /\ listed' = [listed EXCEPT ![r] = {}]
        /\ UNCHANGED <<known, plan, files, removed, deaths, day>>
    BY <1>9 DEF Rest
  <2>2. ReconcileTypes' /\ OthersSame /\ rpc'[r] = "idle" /\ listed'[r] = {}
    BY <1>1, <2>1 DEF ReconcileTypes
  <2>3. Sees(r)'
    BY <1>1, <2>1, <2>2 DEF Sees, Present
  <2>4. QED
    BY <1>0, <1>3, <2>1, <2>2, <2>3
<1>10. CASE ReconcilerDies(r)
  <2>1. /\ rpc' = [rpc EXCEPT ![r] = "idle"] /\ listed' = [listed EXCEPT ![r] = {}]
        /\ known' = [known EXCEPT ![r] = {}] /\ plan' = [plan EXCEPT ![r] = <<>>]
        /\ deaths' = deaths + 1 /\ UNCHANGED day
    BY <1>10 DEF ReconcilerDies
  <2>2. <<>> \in Seq(Events \X STATES)
    OBVIOUS
  <2>3. /\ ReconcileTypes' /\ OthersSame /\ rpc'[r] = "idle" /\ listed'[r] = {}
        /\ known'[r] = {} /\ plan'[r] = <<>>
    BY <1>1, <2>1, <2>2 DEF ReconcileTypes
  <2>4. Sees(r)'
    BY <2>3 DEF Sees, Present
  <2>5. QED
    BY <1>0, <1>3, <2>1, <2>3, <2>4
<1>11. QED
  BY <1>4, <1>5, <1>6, <1>7, <1>8, <1>9, <1>10 DEF Reconcile

LEMMA ReconcilersRest ==
  ASSUME TypeOK, GateTypeOK, FileInv, ReconcileOK, [Next]_vars, UNCHANGED reconcile
  PROVE  ReconcileOK'
<1>1. ReconcileTypes'
  BY DEF ReconcileOK, ReconcileTypes, reconcile
<1>2. \A r \in Reconcilers : Sees(r)'
  BY SeesOn DEF ReconcileOK, reconcile
<1>3. QED
  BY <1>1, <1>2 DEF ReconcileOK

\* The lock has its type, and what a promoter is at had its file.
PromoteOK ==
  /\ plock \in [owner : Promoters \cup {Nobody}, held : BOOLEAN, old : BOOLEAN]
  /\ \A p \in Promoters : ppc[p] \notin {"check", "done", "dead"} => Present(pev[p])

LEMMA PromoterKeeps ==
  ASSUME TypeOK, GateTypeOK, FileInv, PromoteOK, [Next]_vars, NEW p \in Promoters,
         Promote(p) \/ PromoterDies(p)
  PROVE  PromoteOK' /\ UNCHANGED <<deaths, day>>
<1>1. /\ ppc \in [Promoters -> PSteps] /\ pev \in [Promoters -> Events \cup {NoEvent}]
      /\ \A q \in Promoters : ppc[q] \notin {"check", "done", "dead"} => pev[q] \in Events
  BY DEF GateTypeOK
<1>2. UNCHANGED <<files, removed, deaths, day>>
  BY DEF Promote, PromoterDies, PreChecks, TakeLock, FindStale, BreakLock, GiveUp, Recheck,
         FindRaw, WriteRaw, AppendPromoted, LeaveLock, outside, staging
<1> USE DEF PGoto, outside, FreeLock, Present, PromoteOK
<1>3. ASSUME NEW c \in Cands, NEW g \in Artifacts, PreChecks(p, c, g) PROVE PromoteOK'
  <2>1. PICK e \in Events : files[e] = "valid" /\ pev' = [pev EXCEPT ![p] = e]
    BY <1>3 DEF PreChecks, Eligible
  <2>2. ppc' = [ppc EXCEPT ![p] = "lock"] /\ UNCHANGED plock
    BY <1>3 DEF PreChecks
  <2>3. QED
    BY <1>1, <1>2, <2>1, <2>2
<1>4. ASSUME pev' = pev,
             plock' \in [owner : Promoters \cup {Nobody}, held : BOOLEAN, old : BOOLEAN],
             \A q \in Promoters : ppc'[q] \notin {"check", "done", "dead"}
                                     => ppc[q] \notin {"check", "done", "dead"}
      PROVE  PromoteOK'
  BY <1>2, <1>4
<1>5. CASE TakeLock(p)
  <2>1. /\ pev' = pev /\ plock' = [owner |-> p, held |-> TRUE, old |-> FALSE]
        /\ ppc[p] = "lock" /\ ppc' = [ppc EXCEPT ![p] = "recheck"]
    BY <1>5 DEF TakeLock
  <2>2. QED
    BY <1>1, <1>2, <1>4, <2>1
<1>6. CASE FindStale(p) \/ GiveUp(p) \/ PromoterDies(p)
  <2>1. /\ pev' = pev /\ plock' = plock
        /\ \/ ppc[p] = "lock" /\ ppc' = [ppc EXCEPT ![p] = "break"]
           \/ ppc' = [ppc EXCEPT ![p] = "done"]
           \/ ppc' = [ppc EXCEPT ![p] = "dead"]
    BY <1>6 DEF FindStale, GiveUp, PromoterDies
  <2>2. QED
    BY <1>1, <1>2, <1>4, <2>1
<1>7. CASE BreakLock(p) \/ LeaveLock(p)
  <2>1. /\ pev' = pev /\ plock' = [owner |-> Nobody, held |-> FALSE, old |-> FALSE]
        /\ \/ ppc[p] = "break" /\ ppc' = [ppc EXCEPT ![p] = "lock"]
           \/ ppc' = [ppc EXCEPT ![p] = "done"]
    BY <1>7 DEF BreakLock, LeaveLock
  <2>2. QED
    BY <1>1, <1>2, <1>4, <2>1
<1>8. CASE Recheck(p) \/ FindRaw(p) \/ WriteRaw(p) \/ AppendPromoted(p)
  <2>1. /\ ppc[p] \in {"recheck", "raw", "write", "append"} /\ UNCHANGED <<plock, pev>>
        /\ \E to : ppc' = [ppc EXCEPT ![p] = to]
    BY <1>8 DEF Recheck, FindRaw, WriteRaw, AppendPromoted
  <2>2. QED
    BY <1>1, <1>2, <1>4, <2>1
<1>9. QED
  BY <1>2, <1>3, <1>5, <1>6, <1>7, <1>8 DEF Promote

LEMMA PromotersRest ==
  ASSUME TypeOK, GateTypeOK, FileInv, PromoteOK, [Next]_vars, UNCHANGED <<ppc, pev>>,
         plock' = plock \/ LockAges
  PROVE  PromoteOK'
<1>1. \A e : e \in Events /\ Present(e) => files'[e] # "none" \/ e \in removed'
  BY PresentStays DEF Present
<1>2. plock' \in [owner : Promoters \cup {Nobody}, held : BOOLEAN, old : BOOLEAN]
  BY DEF PromoteOK, LockAges
<1>3. \A p \in Promoters : ppc[p] \notin {"check", "done", "dead"} => pev[p] \in Events
  BY DEF GateTypeOK
<1>4. QED
  BY <1>1, <1>2, <1>3 DEF PromoteOK, Present

FilesOK == /\ TypeOK /\ GateTypeOK /\ FileInv
           /\ HarvestOK /\ ReconcileOK /\ PromoteOK

LEMMA FilesOKStep ==
  ASSUME FilesOK, [Next]_vars
  PROVE  FilesOK'
<1> USE DEF FilesOK
<1>1. GateTypeOK'
  BY TypesStep
<1>2. ledger' \in Seq(Records) /\ RecordHasFile'
  BY LedgerKeeps
<1>3. files' \in [Events -> {"none", "valid", "bad"}] /\ removed' \subseteq Events
  BY PresentStays
<1>4. /\ HarvestOK' /\ ReconcileOK' /\ PromoteOK'
      /\ deaths' \in Nat /\ day' \in Days
  <2>0. deaths \in Nat /\ day \in Days
    BY DEF TypeOK
  <2>1. ASSUME NEW h \in Harvesters, Harvest(h) \/ HarvesterDies(h)
        PROVE  UNCHANGED <<rpc, listed, known, plan, ppc, pev, plock>>
    BY <2>1 DEF Harvest, HarvesterDies, HarvestLookup, Rematerialise, HarvestWrite,
                HarvestAppend, reconcile, promote
  <2>2. ASSUME NEW r \in Reconcilers, Reconcile(r) \/ ReconcilerDies(r)
        PROVE  UNCHANGED <<hpc, hev, ppc, pev, plock>>
    BY <2>2 DEF Reconcile, ReconcilerDies, ListStaged, ReadHistory, PlanActions, AppendPlanned,
                ReportRun, Rest, harvest, promote
  <2>3. ASSUME NEW p \in Promoters, Promote(p) \/ PromoterDies(p)
        PROVE  UNCHANGED <<hpc, hev, rpc, listed, known, plan>>
    BY <2>3 DEF Promote, PromoterDies, PreChecks, TakeLock, FindStale, BreakLock, GiveUp,
                Recheck, FindRaw, WriteRaw, AppendPromoted, LeaveLock, outside, harvest, reconcile
  <2>4. LockAges \/ Tick \/ UNCHANGED vars \/ (\E e \in Events : RemoveFile(e))
        => /\ UNCHANGED <<hpc, hev, rpc, listed, known, plan, ppc, pev, deaths>>
           /\ plock' = plock \/ LockAges
           /\ day' \in Days
    BY <2>0, CandidatesAssumption
       DEF LockAges, Tick, RemoveFile, vars, outside, staging, harvest, reconcile, promote, Days
  <2>5. ASSUME NEW h \in Harvesters, Harvest(h) \/ HarvesterDies(h)
        PROVE  HarvestOK' /\ ReconcileOK' /\ PromoteOK' /\ deaths' \in Nat /\ day' \in Days
    BY <2>0, <2>1, <2>5, HarvesterKeeps, ReconcilersRest, PromotersRest DEF reconcile
  <2>6. ASSUME NEW r \in Reconcilers, Reconcile(r) \/ ReconcilerDies(r)
        PROVE  HarvestOK' /\ ReconcileOK' /\ PromoteOK' /\ deaths' \in Nat /\ day' \in Days
    BY <2>0, <2>2, <2>6, HarvestersRest, ReconcilerKeeps, PromotersRest DEF harvest
  <2>7. ASSUME NEW p \in Promoters, Promote(p) \/ PromoterDies(p)
        PROVE  HarvestOK' /\ ReconcileOK' /\ PromoteOK' /\ deaths' \in Nat /\ day' \in Days
    BY <2>0, <2>3, <2>7, HarvestersRest, ReconcilersRest, PromoterKeeps DEF harvest, reconcile
  <2>8. CASE LockAges \/ Tick \/ UNCHANGED vars \/ \E e \in Events : RemoveFile(e)
    BY <2>0, <2>4, <2>8, HarvestersRest, ReconcilersRest, PromotersRest DEF harvest, reconcile
  <2>9. QED
    BY <2>5, <2>6, <2>7, <2>8 DEF Next
<1>5. TypeOK'
  BY <1>1, <1>2, <1>3, <1>4 DEF TypeOK, GateTypeOK, HarvestOK, ReconcileOK, ReconcileTypes, PromoteOK
<1>6. FileInv'
  BY <1>2, <1>4 DEF FileInv, HarvestOK, ReconcileOK, Sees, PromoteOK
<1>7. QED
  BY <1>1, <1>4, <1>5, <1>6

LEMMA InitFilesOK == ASSUME Init PROVE FilesOK
<1> USE CandidatesAssumption DEF Init
<1>1. GateTypeOK
  BY InitGate
<1>2. HarvestOK
  BY DEF HarvestOK
<1>3. ReconcileOK
  <2>1. <<>> \in Seq(Events \X STATES)
    OBVIOUS
  <2>2. ReconcileTypes
    BY <2>1 DEF ReconcileTypes
  <2>3. ASSUME NEW r \in Reconcilers PROVE Sees(r)
    BY <2>3 DEF Sees
  <2>4. QED
    BY <2>2, <2>3 DEF ReconcileOK
<1>4. PromoteOK
  BY DEF PromoteOK, FreeLock
<1>5. ledger \in Seq(Records) /\ files \in [Events -> {"none", "valid", "bad"}]
      /\ removed \subseteq Events /\ deaths \in Nat /\ day \in Days
  BY DEF Days
<1>6. TypeOK
  BY <1>1, <1>2, <1>3, <1>4, <1>5
     DEF TypeOK, GateTypeOK, HarvestOK, ReconcileOK, ReconcileTypes, PromoteOK
<1>7. FileInv
  BY <1>2, <1>3, <1>4 DEF FileInv, HarvestOK, ReconcileOK, Sees, PromoteOK, RecordHasFile
<1>8. QED
  BY <1>1, <1>2, <1>3, <1>4, <1>6, <1>7 DEF FilesOK

\* The types of the whole gate, in every instance.
THEOREM TypeCorrect == Spec => []TypeOK
<1>1. Init => FilesOK
  BY InitFilesOK
<1>2. FilesOK /\ [Next]_vars => FilesOK'
  BY FilesOKStep
<1>3. FilesOK => TypeOK
  BY DEF FilesOK
<1>4. QED
  BY <1>1, <1>2, <1>3, PTL DEF Spec

\* The ledger never claims a file that was not written, unless somebody removed
\* it: in every instance, wherever harvesters, reconcilers and promoters are
\* killed, however their steps interleave and whoever breaks whose lock.
THEOREM RecordHasFileHolds == Spec => []RecordHasFile
<1>1. Init => FilesOK
  BY InitFilesOK
<1>2. FilesOK /\ [Next]_vars => FilesOK'
  BY FilesOKStep
<1>3. FilesOK => RecordHasFile
  BY DEF FilesOK, FileInv
<1>4. QED
  BY <1>1, <1>2, <1>3, PTL DEF Spec

\* Types, promotions with their raw events, and records with their files, while
\* promoters exclude one another.
THEOREM InvHolds == Spec /\ []Exclusive => []Inv
BY TypeCorrect, RecordHasFileHolds, PromotedHasRawHolds, PTL DEF Inv

\* A reconciler that ran to its end leaves no file it saw without a record,
\* whatever was appended, killed or removed since it listed the directory.
THEOREM NoOrphanLeftHolds == Spec => []NoOrphanLeft
<1>1. Init => FilesOK
  BY InitFilesOK
<1>2. FilesOK /\ [Next]_vars => FilesOK'
  BY FilesOKStep
<1>3. FilesOK => NoOrphanLeft
  BY DEF FilesOK, ReconcileOK, Sees, NoOrphanLeft
<1>4. QED
  BY <1>1, <1>2, <1>3, PTL DEF Spec
=============================================================================
