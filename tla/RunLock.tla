------------------------------ MODULE RunLock ------------------------------
(***************************************************************************)
(* The run lockfile .claude/compile-run.lock.json: acquire_lock and        *)
(* release_lock of compile-core.py, one action per system call, for any    *)
(* number of processes that crash, are restarted under the same pid, and   *)
(* may pass --break-stale-lock (Breakers) or --force (Forcers).            *)
(*                                                                         *)
(* The file is created empty and its JSON content is written afterwards,   *)
(* so a reader can find it without a holder.                               *)
(***************************************************************************)
EXTENDS Naturals, FiniteSets

CONSTANTS Pids,        \* pids that runs may be started under
          NoPid,       \* what an absent or unparseable lock says of its holder
          Orphan,      \* abstract owner of a lock whose holder died
          Breakers,    \* the processes that pass break_stale=True
          Forcers,     \* the processes that pass force=True
          CliHolders,  \* the processes that run compile-core.py --acquire-lock-cli
          PidReuse,    \* may the system start a process under the pid of a lock's dead holder?
          MaxCrashes   \* bound on the number of crashes

ASSUME RunLockAssumption == /\ NoPid \notin Pids
                            /\ Orphan \notin Pids \cup {NoPid}
                            /\ Breakers \subseteq Pids
                            /\ Forcers \subseteq Pids
                            /\ CliHolders \subseteq Pids
                            /\ PidReuse \in BOOLEAN
                            /\ MaxCrashes \in Nat

VARIABLES lock,     \* NoLock, or the file: who created it, is its content written
          at,       \* where each process is; "off": no process has that pid
          seen,     \* the holder's pid each process read from the file
          crashes   \* how many crashes happened

lockvars == <<lock, at, seen, crashes>>

NoRunLock == [creator |-> NoPid, written |-> FALSE]
Locks == {NoRunLock} \cup [creator : Pids, written : BOOLEAN]
LockFile(p) == [creator |-> p, written |-> FALSE]
Exists == lock # NoRunLock

RunSteps == {"off", "precheck", "read", "probe", "remove", "create", "write",
             "held", "release", "unlink"}

\* The steps of a process between its O_EXCL create and its own unlink.
Inside == {"write", "held", "release", "unlink"}

RunGoto(p, from, to) == at[p] = from /\ at' = [at EXCEPT ![p] = to]

\* Mutated form: any parseable pid counts as alive.
pid_parseable(q) == q # NoPid

pid_alive(q) == q # NoPid /\ at[q] # "off"

-----------------------------------------------------------------------------
LockInit == /\ lock = NoRunLock
            /\ at = [p \in Pids |-> "off"]
            /\ seen = [p \in Pids |-> NoPid]
            /\ crashes = 0

\* A run is launched. Without PidReuse the system keeps the pid named by a
\* lock file of a dead process out of circulation.
Start(p) ==
  /\ RunGoto(p, "off", "precheck")
  /\ PidReuse \/ lock.creator # p
  /\ UNCHANGED <<lock, seen, crashes>>

PreCheck(p) ==
  /\ RunGoto(p, "precheck", IF Exists THEN "read" ELSE "create")
  /\ UNCHANGED <<lock, seen, crashes>>

\* json.load; a missing or unparseable file reads as pid None.
ReadHolder(p) ==
  /\ RunGoto(p, "read", "probe")
  /\ seen' = [seen EXCEPT ![p] = IF lock.written THEN lock.creator ELSE NoPid]
  /\ UNCHANGED <<lock, crashes>>

\* The liveness probe and the decision. A refusal raises LockHeld and the
\* process ends.
Refuse(p) ==
  /\ RunGoto(p, "probe", "off")
  /\ p \notin Forcers
  /\ pid_alive(seen[p]) \/ p \notin Breakers
  /\ seen' = [seen EXCEPT ![p] = NoPid]
  /\ UNCHANGED <<lock, crashes>>

DecideToBreak(p) ==
  /\ RunGoto(p, "probe", "remove")
  /\ p \in Forcers \/ (p \in Breakers /\ ~pid_alive(seen[p]))
  /\ seen' = [seen EXCEPT ![p] = NoPid]
  /\ UNCHANGED <<lock, crashes>>

\* os.remove on the path, whatever file is there by now; when none is left the
\* FileNotFoundError ends the process.
RemoveStale(p) ==
  /\ RunGoto(p, "remove", IF Exists THEN "create" ELSE "off")
  /\ lock' = NoRunLock
  /\ UNCHANGED <<seen, crashes>>

\* Mutated form: O_CREAT without O_EXCL.
CreateShared(p) ==
  /\ RunGoto(p, "create", "write")
  /\ lock' = LockFile(p)
  /\ UNCHANGED <<seen, crashes>>

\* O_CREAT | O_EXCL; a collision raises LockHeld whatever flags were passed.
CreateExcl(p) ==
  /\ IF Exists
       THEN RunGoto(p, "create", "off") /\ lock' = lock
       ELSE RunGoto(p, "create", "write") /\ lock' = LockFile(p)
  /\ UNCHANGED <<seen, crashes>>

\* json.dump through the descriptor: it reaches the process's own file, which
\* a breaker may have unlinked.
WriteHolder(p) ==
  /\ RunGoto(p, "write", "held")
  /\ lock' = IF lock.creator = p THEN [lock EXCEPT !.written = TRUE] ELSE lock
  /\ UNCHANGED <<seen, crashes>>

\* The run's finally clause: release_lock's isfile test, then its remove. A
\* lock that is gone by the remove raises; the process ends either way.
FinishRun(p) ==
  /\ p \notin CliHolders
  /\ RunGoto(p, "held", "release")
  /\ UNCHANGED <<lock, seen, crashes>>

\* The command line acquires, reports success and exits with the lock in place.
CliExit(p) ==
  /\ p \in CliHolders
  /\ RunGoto(p, "held", "off")
  /\ UNCHANGED <<lock, seen, crashes>>

ReleaseCheck(p) ==
  /\ RunGoto(p, "release", IF Exists THEN "unlink" ELSE "off")
  /\ UNCHANGED <<lock, seen, crashes>>

ReleaseUnlink(p) ==
  /\ RunGoto(p, "unlink", "off")
  /\ lock' = NoRunLock
  /\ UNCHANGED <<seen, crashes>>

\* The process is killed; the file stays.
RunDies(p) ==
  /\ at[p] # "off"
  /\ crashes < MaxCrashes
  /\ crashes' = crashes + 1
  /\ at' = [at EXCEPT ![p] = "off"]
  /\ seen' = [seen EXCEPT ![p] = NoPid]
  /\ UNCHANGED lock

Acquire(p) == \/ PreCheck(p) \/ ReadHolder(p) \/ Refuse(p) \/ DecideToBreak(p)
              \/ RemoveStale(p) \/ CreateExcl(p) \/ WriteHolder(p)

Release(p) == ReleaseCheck(p) \/ ReleaseUnlink(p)

LockNext == \E p \in Pids : Start(p) \/ Acquire(p) \/ FinishRun(p) \/ CliExit(p)
                            \/ Release(p) \/ RunDies(p)

LockSpec == LockInit /\ [][LockNext]_lockvars

\* The operating system runs every live process, and a person retries a
\* refused run with the same flags.
FairLockSpec == /\ LockSpec
                /\ \A p \in Pids : /\ WF_lockvars(Start(p))
                                   /\ WF_lockvars(Acquire(p) \/ FinishRun(p) \/ CliExit(p) \/ Release(p))

-----------------------------------------------------------------------------
\* Types, and the bound on crashes.
RunTypeOK == /\ lock \in Locks
             /\ at \in [Pids -> RunSteps]
             /\ seen \in [Pids -> Pids \cup {NoPid}]
             /\ crashes \in 0..MaxCrashes

\* Two runs never work on the repository at once (compile-core.py, module
\* docstring: "second run refuses cleanly"), whatever crashes and restarts
\* under a reused pid happen between the system calls of acquire_lock.
MutualExclusion == \A p, q \in Pids :
                     (at[p] = "held" /\ at[q] = "held") => p = q

\* From the create to the unlink a process finds its own file at the lock's
\* path: release_lock, which checks no owner, never removes another's lock.
InsideOwnsFile == \A p \in Pids : at[p] \in Inside => lock.creator = p

\* "a live-PID lock is NEVER auto-broken" (compile-core.py:10): without
\* --force, the step that removes a lock to break it never removes the lock of
\* a process that is still between its create and its unlink.
LiveLockNeverBroken ==
  [][ \A p \in Pids \ Forcers :
        (at[p] = "remove" /\ at'[p] = "create")
          => at[lock.creator] \notin Inside ]_lockvars

\* A lock whose holder died does not stop the engine for good: while a process
\* that passes --break-stale-lock retries, the lock is free or held by a living
\* run again and again.
OrphanRecovered == []<>(~Exists \/ at[lock.creator] \in Inside)

-----------------------------------------------------------------------------
\* The abstract owner: the creator while it is inside, an orphan after that.
AbstractOwner == IF ~Exists THEN NoPid
                 ELSE IF at[lock.creator] \in Inside THEN lock.creator
                 ELSE Orphan

Mutex == INSTANCE RunMutex WITH Procs <- Pids, owner <- AbstractOwner, Nobody <- NoPid

\* The lockfile implements the abstract mutex: ownership passes from one run to
\* the next only through the owner's release or the break of an orphan.
ImplementsMutex == Mutex!Spec
=============================================================================
