------------------------------ MODULE Lockfile ------------------------------
(***************************************************************************)
(* The advisory lock of src/pkg/lock/lockfile.go, guarding one store or    *)
(* bundle directory.  Several processes, each running several threads,     *)
(* call Lock, TryLock and Unlock on the same lock file.                    *)
(*                                                                         *)
(*  - In-process, the helpers lock(file)/unlock(file) take a mutex kept    *)
(*    per file path; it is modelled by mutex[p].                           *)
(*  - Across processes, the nightlyone lockfile records the pid of its     *)
(*    owner in the file.  It is modelled by owner; a pid is the pair of a  *)
(*    process and its incarnation, so a process that crashed and was       *)
(*    restarted has a new pid, and the file of a dead pid is stale.        *)
(*  - Lock loops on the file's TryLock; while it is busy it waits in       *)
(*    awaitFileChange for an fsnotify event on the file or a 5 s timeout.  *)
(*                                                                         *)
(* A process may crash at any point: its threads and its mutexes vanish,   *)
(* the lock file stays on disk.                                            *)
(***************************************************************************)
EXTENDS Naturals

CONSTANTS
  Procs,        \* the processes sharing the lock file
  Threads,      \* the threads of each process that use the lock
  NoThread,     \* the holder of a free in-process mutex
  NoOwner,      \* the content of the lock file when it does not exist
  MaxRestarts,  \* how often a process may crash and be restarted
  UnlockIOErrors \* whether the file system may fail nightlyone's Unlock

ASSUME ProcsAssumption == Procs # {}
ASSUME ThreadsAssumption == Threads # {} /\ NoThread \notin Threads
ASSUME MaxRestartsAssumption == MaxRestarts \in Nat
ASSUME UnlockIOErrorsAssumption == UnlockIOErrors \in BOOLEAN
ASSUME NoOwnerAssumption == NoOwner \notin [proc : Procs, pid : 0..MaxRestarts]

VARIABLES
  up,       \* up[p]: process p is running
  pid,      \* pid[p]: the incarnation of p; a restart gives it a new pid
  owner,    \* the pid recorded in the lock file, or NoOwner if there is none
  mutex,    \* mutex[p]: the thread of p holding the in-process mutex
  pc,       \* pc[<<p, t>>]: where thread t of p is in Lock, TryLock or Unlock
  op,       \* op[<<p, t>>]: the call thread t of p is executing
  changed,  \* changed[<<p, t>>]: fsnotify has delivered an event to its watcher
  result    \* result[<<p, t>>]: what the last call of thread t of p returned

vars == <<up, pid, owner, mutex, pc, op, changed, result>>

Actors == Procs \X Threads

Pids == [proc : Procs, pid : 0..MaxRestarts]

PcValues == {"idle", "mutex", "mkdirs", "try", "await", "watching", "holding"}

(* "notexist" is the error of a watcher added to a file that vanished. *)
Results == {"none", "ok", "error", "notexist"}

(* The pid the lock file records when process p creates it. *)
Self(p) == [proc |-> p, pid |-> pid[p]]

(* The owner recorded in the lock file is a running process.  nightlyone  *)
(* GetOwner treats the file of any other pid as stale.                    *)
OwnerAlive ==
  /\ owner # NoOwner
  /\ up[owner.proc]
  /\ owner.pid = pid[owner.proc]

-----------------------------------------------------------------------------
(* Helpers *)

(* fsnotify delivers an event to every registered watcher whose file is   *)
(* removed; every change of the recorded owner removes the old file.      *)
NotifyWatchers ==
  changed' = [a \in Actors |->
                changed[a] \/ (pc[a] = "watching" /\ owner' # owner)]

(* A call of thread t of p returns r; the deferred unlock(l.file) frees   *)
(* the in-process mutex.                                                  *)
Return(p, t, r) ==
  /\ mutex' = [mutex EXCEPT ![p] = NoThread]
  /\ pc' = [pc EXCEPT ![<<p, t>>] = "idle"]
  /\ result' = [result EXCEPT ![<<p, t>>] = r]

(* nightlyone Lockfile.TryLock: the file is taken when it does not exist, *)
(* when its owner is dead, or when it records this very process.          *)
FileAcquirable(p) ==
  \/ owner = NoOwner
  \/ ~OwnerAlive
  \/ owner = Self(p)

-----------------------------------------------------------------------------
(* Operations of Lockfile *)

(* Lock(): entry. *)
LockBegin(p, t) ==
  /\ up[p]
  /\ pc[<<p, t>>] = "idle"
  /\ pc' = [pc EXCEPT ![<<p, t>>] = "mutex"]
  /\ op' = [op EXCEPT ![<<p, t>>] = "Lock"]
  /\ result' = [result EXCEPT ![<<p, t>>] = "none"]
  /\ UNCHANGED <<up, pid, owner, mutex, changed>>

(* TryLock(): entry. *)
TryLockBegin(p, t) ==
  /\ up[p]
  /\ pc[<<p, t>>] = "idle"
  /\ pc' = [pc EXCEPT ![<<p, t>>] = "mutex"]
  /\ op' = [op EXCEPT ![<<p, t>>] = "TryLock"]
  /\ result' = [result EXCEPT ![<<p, t>>] = "none"]
  /\ UNCHANGED <<up, pid, owner, mutex, changed>>

(* Mutant: lock(l.file) left out, so the mutex is taken though it is held. *)
AcquireMutexUnguarded(p, t) ==
  /\ up[p]
  /\ pc[<<p, t>>] = "mutex"
  /\ mutex' = [mutex EXCEPT ![p] = t]
  /\ pc' = [pc EXCEPT ![<<p, t>>] = "mkdirs"]
  /\ UNCHANGED <<up, pid, owner, op, changed, result>>

(* lock(l.file): block on the in-process mutex of the file. *)
AcquireMutex(p, t) ==
  /\ up[p]
  /\ pc[<<p, t>>] = "mutex"
  /\ mutex[p] = NoThread
  /\ mutex' = [mutex EXCEPT ![p] = t]
  /\ pc' = [pc EXCEPT ![<<p, t>>] = "mkdirs"]
  /\ UNCHANGED <<up, pid, owner, op, changed, result>>

(* l.mkdirs(): create the parent directory; on failure return the error. *)
MkdirsOk(p, t) ==
  /\ up[p]
  /\ pc[<<p, t>>] = "mkdirs"
  /\ pc' = [pc EXCEPT ![<<p, t>>] = "try"]
  /\ UNCHANGED <<up, pid, owner, mutex, op, changed, result>>

MkdirsFail(p, t) ==
  /\ up[p]
  /\ pc[<<p, t>>] = "mkdirs"
  /\ Return(p, t, "error")
  /\ UNCHANGED <<up, pid, owner, op, changed>>

Mkdirs(p, t) == MkdirsOk(p, t) \/ MkdirsFail(p, t)

(* l.lockfile.TryLock(), called once by TryLock and in the loop of Lock.  *)
(* It succeeds, or finds the file busy (a temporary error, after which    *)
(* Lock awaits a change and TryLock returns the error), or fails with any *)
(* other error, which both calls return.                                  *)
TryLockFileAcquire(p, t) ==
  /\ up[p]
  /\ pc[<<p, t>>] = "try"
  /\ FileAcquirable(p)
  /\ owner' = Self(p)
  /\ pc' = [pc EXCEPT ![<<p, t>>] = "holding"]
  /\ result' = [result EXCEPT ![<<p, t>>] = "ok"]
  /\ NotifyWatchers
  /\ UNCHANGED <<up, pid, mutex, op>>

(* Mutant: Lock's loop condition returns success on the temporary busy  *)
(* error, as if the Temporary() test were negated.                      *)
TryLockFileBusyHeld(p, t) ==
  /\ up[p]
  /\ pc[<<p, t>>] = "try"
  /\ ~FileAcquirable(p)
  /\ \/ /\ op[<<p, t>>] = "Lock"
        /\ pc' = [pc EXCEPT ![<<p, t>>] = "holding"]
        /\ result' = [result EXCEPT ![<<p, t>>] = "ok"]
        /\ UNCHANGED mutex
     \/ /\ op[<<p, t>>] = "TryLock"
        /\ Return(p, t, "error")
  /\ UNCHANGED <<up, pid, owner, op, changed>>

TryLockFileBusy(p, t) ==
  /\ up[p]
  /\ pc[<<p, t>>] = "try"
  /\ ~FileAcquirable(p)
  /\ \/ /\ op[<<p, t>>] = "Lock"
        /\ pc' = [pc EXCEPT ![<<p, t>>] = "await"]
        /\ UNCHANGED <<mutex, result>>
     \/ /\ op[<<p, t>>] = "TryLock"
        /\ Return(p, t, "error")
  /\ UNCHANGED <<up, pid, owner, op, changed>>

TryLockFileError(p, t) ==
  /\ up[p]
  /\ pc[<<p, t>>] = "try"
  /\ Return(p, t, "error")
  /\ UNCHANGED <<up, pid, owner, op, changed>>

TryLockFile(p, t) ==
  \/ TryLockFileAcquire(p, t)
  \/ TryLockFileBusy(p, t)
  \/ TryLockFileError(p, t)

(* awaitFileChange: create a watcher and add the lock file to it.  Adding *)
(* a file that no longer exists fails; the error is re-created with       *)
(* errors.New, so Lock's os.IsNotExist test does not recognise it and     *)
(* Lock returns it.  Creating the watcher may fail as well.               *)
AwaitAddOk(p, t) ==
  /\ up[p]
  /\ pc[<<p, t>>] = "await"
  /\ owner # NoOwner
  /\ pc' = [pc EXCEPT ![<<p, t>>] = "watching"]
  /\ changed' = [changed EXCEPT ![<<p, t>>] = FALSE]
  /\ UNCHANGED <<up, pid, owner, mutex, op, result>>

AwaitAddVanished(p, t) ==
  /\ up[p]
  /\ pc[<<p, t>>] = "await"
  /\ owner = NoOwner
  /\ Return(p, t, "notexist")
  /\ UNCHANGED <<up, pid, owner, op, changed>>

AwaitAddError(p, t) ==
  /\ up[p]
  /\ pc[<<p, t>>] = "await"
  /\ Return(p, t, "error")
  /\ UNCHANGED <<up, pid, owner, op, changed>>

AwaitAdd(p, t) ==
  \/ AwaitAddOk(p, t)
  \/ AwaitAddVanished(p, t)
  \/ AwaitAddError(p, t)

(* awaitFileChange: an event arrives on watcher.Events; Lock retries. *)
AwaitEvent(p, t) ==
  /\ up[p]
  /\ pc[<<p, t>>] = "watching"
  /\ changed[<<p, t>>]
  /\ pc' = [pc EXCEPT ![<<p, t>>] = "try"]
  /\ UNCHANGED <<up, pid, owner, mutex, op, changed, result>>

(* Mutant: awaitFileChange without its timer. *)
AwaitTimeoutNever(p, t) == FALSE

(* awaitFileChange: the 5 second timer expires; Lock retries. *)
AwaitTimeout(p, t) ==
  /\ up[p]
  /\ pc[<<p, t>>] = "watching"
  /\ pc' = [pc EXCEPT ![<<p, t>>] = "try"]
  /\ UNCHANGED <<up, pid, owner, mutex, op, changed, result>>

(* awaitFileChange: an error arrives on watcher.Errors; Lock returns it. *)
AwaitError(p, t) ==
  /\ up[p]
  /\ pc[<<p, t>>] = "watching"
  /\ Return(p, t, "error")
  /\ UNCHANGED <<up, pid, owner, op, changed>>

(* Unlock(): nightlyone Unlock removes the file if it records this       *)
(* process and fails otherwise.  Reading the owner or os.Remove may also *)
(* fail (when UnlockIOErrors); line 75 returns that error and the file   *)
(* stays.  In every case the deferred unlock frees the mutex.            *)
Unlock(p, t) ==
  /\ up[p]
  /\ pc[<<p, t>>] = "holding"
  /\ \/ /\ owner' = IF owner = Self(p) THEN NoOwner ELSE owner
        /\ Return(p, t, IF owner = Self(p) THEN "ok" ELSE "error")
     \/ /\ UnlockIOErrors
        /\ owner' = owner
        /\ Return(p, t, "error")
  /\ NotifyWatchers
  /\ UNCHANGED <<up, pid, op>>

-----------------------------------------------------------------------------
(* The environment: a process dies, with its threads and mutexes, and is  *)
(* started again under a new pid.  The lock file survives on disk.        *)

Crash(p) ==
  /\ up[p]
  /\ pid[p] < MaxRestarts
  /\ up' = [up EXCEPT ![p] = FALSE]
  /\ mutex' = [mutex EXCEPT ![p] = NoThread]
  /\ pc' = [a \in Actors |-> IF a[1] = p THEN "idle" ELSE pc[a]]
  /\ changed' = [a \in Actors |-> IF a[1] = p THEN FALSE ELSE changed[a]]
  /\ result' = [a \in Actors |-> IF a[1] = p THEN "none" ELSE result[a]]
  /\ UNCHANGED <<pid, owner, op>>

Restart(p) ==
  /\ ~up[p]
  /\ up' = [up EXCEPT ![p] = TRUE]
  /\ pid' = [pid EXCEPT ![p] = pid[p] + 1]
  /\ UNCHANGED <<owner, mutex, pc, op, changed, result>>

-----------------------------------------------------------------------------

Init ==
  /\ up = [p \in Procs |-> TRUE]
  /\ pid = [p \in Procs |-> 0]
  /\ owner = NoOwner
  /\ mutex = [p \in Procs |-> NoThread]
  /\ pc = [a \in Actors |-> "idle"]
  /\ op = [a \in Actors |-> "Lock"]
  /\ changed = [a \in Actors |-> FALSE]
  /\ result = [a \in Actors |-> "none"]

(* The steps of one thread. *)
ThreadNext(p, t) ==
  \/ LockBegin(p, t)
  \/ TryLockBegin(p, t)
  \/ AcquireMutex(p, t)
  \/ Mkdirs(p, t)
  \/ TryLockFile(p, t)
  \/ AwaitAdd(p, t)
  \/ AwaitEvent(p, t)
  \/ AwaitTimeout(p, t)
  \/ AwaitError(p, t)
  \/ Unlock(p, t)

Next ==
  \/ \E p \in Procs, t \in Threads : ThreadNext(p, t)
  \/ \E p \in Procs : Crash(p) \/ Restart(p)

Spec == Init /\ [][Next]_vars

(* Every thread keeps running while its process is up: Go schedules all   *)
(* runnable goroutines, the 5 s timer of awaitFileChange fires, and a     *)
(* caller holding the lock releases it with a deferred Unlock.  File      *)
(* system and watcher errors are transient: a step that may fail does not *)
(* fail forever (strong fairness of its successful outcomes).  Nothing    *)
(* makes a watcher error arrive, and crashes and restarts need not occur. *)
FairSpec ==
  /\ Spec
  /\ \A p \in Procs, t \in Threads :
        /\ WF_vars(AcquireMutex(p, t))
        /\ WF_vars(Mkdirs(p, t))
        /\ SF_vars(MkdirsOk(p, t))
        /\ WF_vars(TryLockFile(p, t))
        /\ SF_vars(TryLockFileAcquire(p, t) \/ TryLockFileBusy(p, t))
        /\ WF_vars(AwaitAdd(p, t))
        /\ SF_vars(AwaitAddOk(p, t) \/ AwaitAddVanished(p, t))
        /\ WF_vars(AwaitEvent(p, t) \/ AwaitTimeout(p, t))
        /\ WF_vars(Unlock(p, t))

-----------------------------------------------------------------------------
(* Properties *)

TypeOK ==
  /\ up \in [Procs -> BOOLEAN]
  /\ pid \in [Procs -> 0..MaxRestarts]
  /\ owner \in Pids \cup {NoOwner}
  /\ mutex \in [Procs -> Threads \cup {NoThread}]
  /\ pc \in [Actors -> PcValues]
  /\ op \in [Actors -> {"Lock", "TryLock"}]
  /\ changed \in [Actors -> BOOLEAN]
  /\ result \in [Actors -> Results]

Holding(a) == pc[a] = "holding"

(* Mutual exclusion: at most one thread, of all threads of all processes, *)
(* holds the lock at a time.  Between processes this rests on the pid in  *)
(* the file and on crashed owners being detected as dead; between the     *)
(* threads of one process, whose pid is the same, on lock(l.file).        *)
MutualExclusion ==
  \A a, b \in Actors : Holding(a) /\ Holding(b) => a = b

(* The process of a thread that holds the lock is the owner recorded in   *)
(* the lock file: no other process took the file over as stale while it   *)
(* was held, so Unlock always removes its own file and never fails.       *)
HolderOwnsLockfile ==
  \A a \in Actors : Holding(a) => owner = Self(a[1])

Waiting(a) == pc[a] \in {"mutex", "mkdirs", "try", "await", "watching"}

(* Progress of Lock/TryLock: while some thread waits for the lock, some   *)
(* thread eventually holds it or nobody waits any more, even when the     *)
(* holder crashed and left a stale lock file that fires no event.  It     *)
(* needs nightlyone's Unlock to succeed: after a failed os.Remove the file *)
(* records a live process that no longer holds the lock, and the waiters  *)
(* of the other processes wait until that process locks again or exits.   *)
LockProgress ==
  (\E a \in Actors : Waiting(a))
    ~> ((\E a \in Actors : Holding(a)) \/ (\A a \in Actors : ~Waiting(a)))

(* Lock treats a lock file that vanished while it was about to watch it   *)
(* as contention to retry (the !os.IsNotExist(err) test after             *)
(* awaitFileChange), never as a failure of the Lock call.                 *)
LockRetriesVanishedFile ==
  \A a \in Actors : ~(op[a] = "Lock" /\ result[a] = "notexist")

(* TryLock returns at once (spec 4.8): it never waits for the lock held   *)
(* by another thread of its own process.                                  *)
TryLockNonBlocking ==
  \A a \in Actors :
     (op[a] = "TryLock" /\ pc[a] = "mutex") => mutex[a[1]] = NoThread

-----------------------------------------------------------------------------
(* The refinement mapping to LockSpec: the abstract holder is the thread  *)
(* whose Lock or TryLock returned nil and that has not yet unlocked.      *)
LockHolder ==
  IF \E a \in Actors : Holding(a) THEN CHOOSE a \in Actors : Holding(a) ELSE <<>>

Abstract == INSTANCE LockSpec WITH holder <- LockHolder, NoHolder <- <<>>

(* Lockfile implements LockSpec: every step of the lock file protocol is  *)
(* a step of the abstract lock or leaves its holder alone.  A thread gets *)
(* the lock (TryLockFileAcquire) only while no thread holds it, Unlock    *)
(* frees it, a crash frees only the lock of the crashed process, and no   *)
(* other step (stale-lock detection, watcher events, retries, restarts)   *)
(* hands the lock from one thread to another.                             *)
ImplementsLockSpec == Abstract!Spec

-----------------------------------------------------------------------------
(* The inductive strengthening of HolderOwnsLockfile and MutualExclusion  *)
(* that LockfileProofs proves: a thread between lock(l.file) and its      *)
(* return owns the mutex of its process, which is running; a process that *)
(* is down may still be restarted.                                        *)

InMutex(a) == pc[a] \in {"mkdirs", "try", "await", "watching", "holding"}

Inv ==
  /\ TypeOK
  /\ \A p \in Procs : ~up[p] => pid[p] < MaxRestarts
  /\ \A a \in Actors : InMutex(a) => mutex[a[1]] = a[2] /\ up[a[1]]
  /\ HolderOwnsLockfile

=============================================================================
