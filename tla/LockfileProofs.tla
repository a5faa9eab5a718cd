--------------------------- MODULE LockfileProofs ---------------------------
(***************************************************************************)
(* Proofs about the lock of src/pkg/lock/lockfile.go (module Lockfile),    *)
(* for any number of processes and threads and any bound on restarts.     *)
(*                                                                         *)
(* Inv is the inductive invariant: it holds initially and every step of    *)
(* Next preserves it.  It implies HolderOwnsLockfile and MutualExclusion.  *)
(* The argument: a thread inside lock(l.file) ... return owns the mutex of *)
(* its process, so two such threads of one process are the same thread;   *)
(* a holder's process is running and is the owner recorded in the file,   *)
(* so nightlyone's TryLock in any other process finds the file busy.      *)
(***************************************************************************)
EXTENDS Lockfile, TLAPS

(* Every thread action leaves the other threads' program counters alone.  *)
USE DEF Actors

-----------------------------------------------------------------------------
(* A thread of the model is the pair of its process and its thread id. *)
LEMMA ActorPair ==
  ASSUME NEW a \in Actors
  PROVE  /\ a = <<a[1], a[2]>>
         /\ a[1] \in Procs
         /\ a[2] \in Threads
  OBVIOUS

(* Returning from a call, which frees the mutex of the process, preserves *)
(* the invariant: the returning thread was the only one inside the mutex. *)
LEMMA ReturnInv ==
  ASSUME Inv, NEW p \in Procs, NEW t \in Threads,
         InMutex(<<p, t>>), ~Holding(<<p, t>>),
         NEW r \in Results, Return(p, t, r),
         UNCHANGED <<up, pid, owner, op, changed>>
  PROVE  Inv'
  <1> USE ThreadsAssumption
  <1>1. mutex[p] = t /\ up[p]
    BY DEF Inv, InMutex
  <1>2. TypeOK'
    BY DEF Return, Inv, TypeOK, PcValues
  <1>3. \A a \in Actors : InMutex(a)' => mutex'[a[1]] = a[2] /\ up'[a[1]]
    <2> SUFFICES ASSUME NEW a \in Actors, InMutex(a)'
                 PROVE  mutex'[a[1]] = a[2] /\ up'[a[1]]
      OBVIOUS
    <2>1. a # <<p, t>> /\ InMutex(a)
      BY DEF Return, InMutex, Inv, TypeOK
    <2>2. mutex[a[1]] = a[2] /\ up[a[1]]
      BY <2>1 DEF Inv
    <2>3. a[1] # p
      BY <2>1, <2>2, <1>1, ActorPair
    <2>. QED
      BY <2>2, <2>3, ActorPair DEF Return, Inv, TypeOK
  <1>4. HolderOwnsLockfile'
    BY DEF Return, Inv, HolderOwnsLockfile, Holding, TypeOK, Self
  <1>. QED
    BY <1>2, <1>3, <1>4 DEF Inv

(* The initial state satisfies the invariant. *)
LEMMA InitInv == Init => Inv
  BY MaxRestartsAssumption, ThreadsAssumption
  DEF Init, Inv, TypeOK, InMutex, HolderOwnsLockfile, Holding, PcValues,
      Results

(* The step of one thread preserves the invariant. *)
LEMMA ThreadStepInv ==
  ASSUME Inv, NEW p \in Procs, NEW t \in Threads, ThreadNext(p, t)
  PROVE  Inv'
  <1> USE ThreadsAssumption
  <1>1. CASE LockBegin(p, t)
    BY <1>1 DEF LockBegin, Inv, TypeOK, InMutex, HolderOwnsLockfile, Holding,
                PcValues, Results, Self
  <1>2. CASE TryLockBegin(p, t)
    BY <1>2 DEF TryLockBegin, Inv, TypeOK, InMutex, HolderOwnsLockfile,
                Holding, PcValues, Results, Self
  <1>3. CASE AcquireMutex(p, t)
    BY <1>3 DEF AcquireMutex, Inv, TypeOK, InMutex, HolderOwnsLockfile,
                Holding, PcValues, Results, Self
  <1>4. CASE Mkdirs(p, t)
    <2>1. CASE MkdirsOk(p, t)
      BY <2>1 DEF MkdirsOk, Inv, TypeOK, InMutex, HolderOwnsLockfile, Holding,
                  PcValues, Results, Self
    <2>2. CASE MkdirsFail(p, t)
      BY <2>2, ReturnInv DEF MkdirsFail, InMutex, Holding, Results
    <2>. QED
      BY <1>4, <2>1, <2>2 DEF Mkdirs
  <1>5. CASE TryLockFile(p, t)
    <2>1. CASE TryLockFileAcquire(p, t)
      <3>1. TypeOK'
        BY <2>1 DEF TryLockFileAcquire, NotifyWatchers, Inv, TypeOK, Pids,
                    PcValues, Results, Self
      <3>2. \A a \in Actors : Holding(a)' => a = <<p, t>>
        <4> SUFFICES ASSUME NEW a \in Actors, Holding(a)', a # <<p, t>>
                     PROVE  FALSE
          OBVIOUS
        <4>1. Holding(a) /\ owner = Self(a[1])
          BY <2>1 DEF TryLockFileAcquire, Holding, Inv, HolderOwnsLockfile
        <4>2. up[a[1]] /\ mutex[a[1]] = a[2]
          BY <4>1 DEF Inv, InMutex, Holding
        <4>3. mutex[p] = t
          BY <2>1 DEF TryLockFileAcquire, Inv, InMutex
        <4>4. a[1] # p
          BY <4>2, <4>3
        <4>5. ~FileAcquirable(p)
          BY <4>1, <4>2, <4>4, NoOwnerAssumption
          DEF FileAcquirable, OwnerAlive, Self, Inv, TypeOK
        <4>. QED
          BY <4>5, <2>1 DEF TryLockFileAcquire
      <3>3. QED
        BY <3>1, <3>2, <2>1 DEF TryLockFileAcquire, Inv, InMutex,
                                 HolderOwnsLockfile, Holding, TypeOK, Self
    <2>2. CASE TryLockFileBusy(p, t)
      <3>1. CASE op[<<p, t>>] = "Lock"
        <4>1. /\ pc' = [pc EXCEPT ![<<p, t>>] = "await"]
              /\ UNCHANGED <<up, pid, owner, mutex, op, changed, result>>
          BY <2>2, <3>1 DEF TryLockFileBusy
        <4>. QED
          BY <2>2, <4>1 DEF TryLockFileBusy, Inv, TypeOK, InMutex,
                            HolderOwnsLockfile, Holding, PcValues, Self
      <3>2. CASE op[<<p, t>>] = "TryLock"
        BY <2>2, <3>2, ReturnInv DEF TryLockFileBusy, InMutex, Holding,
                                     Results
      <3>. QED
        BY <3>1, <3>2, <2>2 DEF TryLockFileBusy
    <2>3. CASE TryLockFileError(p, t)
      BY <2>3, ReturnInv DEF TryLockFileError, InMutex, Holding, Results
    <2>. QED
      BY <1>5, <2>1, <2>2, <2>3 DEF TryLockFile
  <1>6. CASE AwaitAdd(p, t)
    <2>1. CASE AwaitAddOk(p, t)
      BY <2>1 DEF AwaitAddOk, Inv, TypeOK, InMutex, HolderOwnsLockfile,
                  Holding, PcValues, Self
    <2>2. CASE AwaitAddVanished(p, t)
      BY <2>2, ReturnInv DEF AwaitAddVanished, InMutex, Holding, Results
    <2>3. CASE AwaitAddError(p, t)
      BY <2>3, ReturnInv DEF AwaitAddError, InMutex, Holding, Results
    <2>. QED
      BY <1>6, <2>1, <2>2, <2>3 DEF AwaitAdd
  <1>7. CASE AwaitEvent(p, t)
    BY <1>7 DEF AwaitEvent, Inv, TypeOK, InMutex, HolderOwnsLockfile, Holding,
                PcValues, Results, Self
  <1>8. CASE AwaitTimeout(p, t)
    BY <1>8 DEF AwaitTimeout, Inv, TypeOK, InMutex, HolderOwnsLockfile,
                Holding, PcValues, Results, Self
  <1>9. CASE AwaitError(p, t)
    BY <1>9, ReturnInv DEF AwaitError, InMutex, Holding, Results
  <1>10. CASE Unlock(p, t)
    <2>1. CASE /\ owner' = IF owner = Self(p) THEN NoOwner ELSE owner
               /\ Return(p, t, IF owner = Self(p) THEN "ok" ELSE "error")
      BY <1>10, <2>1 DEF Unlock, Return, NotifyWatchers, Inv, TypeOK, InMutex,
                         HolderOwnsLockfile, Holding, PcValues, Results, Self
    <2>2. CASE owner' = owner /\ Return(p, t, "error")
      BY <1>10, <2>2 DEF Unlock, Return, NotifyWatchers, Inv, TypeOK, InMutex,
                         HolderOwnsLockfile, Holding, PcValues, Results, Self
    <2>. QED
      BY <1>10, <2>1, <2>2 DEF Unlock
  <1>. QED
    BY <1>1, <1>2, <1>3, <1>4, <1>5, <1>6, <1>7, <1>8, <1>9, <1>10
    DEF ThreadNext

(* A crash or a restart preserves the invariant. *)
LEMMA ProcessStepInv ==
  ASSUME Inv, NEW p \in Procs, Crash(p) \/ Restart(p)
  PROVE  Inv'
  <1> USE MaxRestartsAssumption
  <1>1. CASE Crash(p)
    BY <1>1 DEF Crash, Inv, TypeOK, InMutex, HolderOwnsLockfile, Holding,
                PcValues, Results, Self
  <1>2. CASE Restart(p)
    BY <1>2 DEF Restart, Inv, TypeOK, InMutex, HolderOwnsLockfile, Holding,
                PcValues, Results, Self
  <1>. QED
    BY <1>1, <1>2

(* A stuttering step preserves the invariant. *)
LEMMA StutterInv == Inv /\ UNCHANGED vars => Inv'
  BY DEF vars, Inv, TypeOK, InMutex, HolderOwnsLockfile, Holding, Self

(* Mutual exclusion follows from the invariant: two holders of one       *)
(* process both own its mutex, holders of two processes both own the file.*)
LEMMA InvMutualExclusion == Inv => MutualExclusion
  BY DEF Inv, MutualExclusion, HolderOwnsLockfile, Holding, InMutex, Self,
         TypeOK

-----------------------------------------------------------------------------
(* Lockfile implements LockSpec under the refinement mapping LockHolder.  *)
(* The mapping is read through HolderOf, the same choice made of any       *)
(* assignment of program counters, so that the lemmas about it apply to   *)
(* the state before and after a step alike.                               *)

Unique(f) == \A a, b \in Actors : f[a] = "holding" /\ f[b] = "holding" => a = b

HolderOf(f) ==
  IF \E a \in Actors : f[a] = "holding"
  THEN CHOOSE a \in Actors : f[a] = "holding" ELSE <<>>

(* The mapping of the current and of the next state. *)
LEMMA LockHolderDef == LockHolder = HolderOf(pc) /\ LockHolder' = HolderOf(pc')
  BY DEF LockHolder, HolderOf, Holding

(* With at most one holder, HolderOf names it. *)
LEMMA HolderOfHolder ==
  ASSUME NEW f, Unique(f), NEW a \in Actors, f[a] = "holding"
  PROVE  HolderOf(f) = a
  BY DEF Unique, HolderOf

(* Without a holder, HolderOf is the empty tuple. *)
LEMMA HolderOfNone ==
  ASSUME NEW f, \A a \in Actors : f[a] # "holding"
  PROVE  HolderOf(f) = <<>>
  BY DEF HolderOf

(* Two assignments with the same holders map to the same holder. *)
LEMMA HolderOfSame ==
  ASSUME NEW f, NEW g, Unique(f),
         \A a \in Actors : f[a] = "holding" <=> g[a] = "holding"
  PROVE  HolderOf(g) = HolderOf(f)
  <1>1. CASE \E a \in Actors : f[a] = "holding"
    <2>1. PICK a \in Actors : f[a] = "holding"
      BY <1>1
    <2>2. Unique(g)
      BY DEF Unique
    <2>. QED
      BY <2>1, <2>2, HolderOfHolder
  <1>2. CASE \A a \in Actors : f[a] # "holding"
    BY <1>2, HolderOfNone
  <1>. QED
    BY <1>1, <1>2

(* TryLockFileAcquire succeeds only while no thread holds the lock: a     *)
(* holder of another process is the live owner of the file, a holder of   *)
(* the same process owns the mutex the acquiring thread owns.             *)
LEMMA AcquireFree ==
  ASSUME Inv, NEW p \in Procs, NEW t \in Threads, TryLockFileAcquire(p, t)
  PROVE  \A a \in Actors : ~Holding(a)
  <1> SUFFICES ASSUME NEW a \in Actors, Holding(a) PROVE FALSE
    OBVIOUS
  <1>1. owner = Self(a[1]) /\ up[a[1]] /\ mutex[a[1]] = a[2]
    BY DEF Inv, HolderOwnsLockfile, InMutex, Holding
  <1>2. mutex[p] = t /\ pc[<<p, t>>] = "try"
    BY DEF TryLockFileAcquire, Inv, InMutex
  <1>3. a # <<p, t>>
    BY <1>2 DEF Holding
  <1>4. a[1] # p
    BY <1>1, <1>2, <1>3, ActorPair
  <1>. QED
    BY <1>1, <1>4, NoOwnerAssumption
    DEF TryLockFileAcquire, FileAcquirable, OwnerAlive, Self, Inv, TypeOK

(* A step that neither makes nor unmakes a holder leaves the abstract     *)
(* holder alone.                                                          *)
LEMMA SameHoldersStutter ==
  ASSUME Inv, \A a \in Actors : pc'[a] = "holding" <=> pc[a] = "holding"
  PROVE  UNCHANGED LockHolder
  <1>1. Unique(pc)
    BY InvMutualExclusion DEF MutualExclusion, Unique, Holding
  <1>. QED
    BY <1>1, LockHolderDef, HolderOfSame

(* Every step of a thread is a step of LockSpec or leaves its holder.      *)
LEMMA ThreadStepRefines ==
  ASSUME Inv, NEW p \in Procs, NEW t \in Threads, ThreadNext(p, t)
  PROVE  [Abstract!Next]_LockHolder
  <1> DEFINE Same == \A a \in Actors : pc'[a] = "holding" <=> pc[a] = "holding"
  <1>0. Same => UNCHANGED LockHolder
    BY SameHoldersStutter
  <1>1. CASE TryLockFileAcquire(p, t)
    <2>1. \A a \in Actors : pc[a] # "holding"
      BY <1>1, AcquireFree DEF Holding
    <2>2. pc'[<<p, t>>] = "holding" /\ \A a \in Actors : a # <<p, t>> => pc'[a] = pc[a]
      BY <1>1 DEF TryLockFileAcquire, Inv, TypeOK
    <2>3. Unique(pc')
      BY <2>1, <2>2 DEF Unique
    <2>4. LockHolder = <<>> /\ LockHolder' = <<p, t>>
      BY <2>1, <2>2, <2>3, HolderOfNone, HolderOfHolder, LockHolderDef
    <2>. QED
      BY <2>4 DEF Abstract!Next, Abstract!Acquire
  <1>2. CASE Unlock(p, t)
    <2>1. Unique(pc) /\ pc[<<p, t>>] = "holding"
      BY <1>2, InvMutualExclusion DEF Unlock, MutualExclusion, Unique, Holding
    <2>2. \A a \in Actors : pc'[a] # "holding"
      BY <1>2, <2>1 DEF Unlock, Return, Unique, Inv, TypeOK
    <2>3. LockHolder = <<p, t>> /\ LockHolder' = <<>>
      BY <2>1, <2>2, HolderOfNone, HolderOfHolder, LockHolderDef
    <2>. QED
      BY <2>3 DEF Abstract!Next, Abstract!Release
  <1>3. CASE ThreadNext(p, t) /\ ~TryLockFileAcquire(p, t) /\ ~Unlock(p, t)
    <2>1. pc[<<p, t>>] # "holding" /\ pc'[<<p, t>>] # "holding"
          /\ \A a \in Actors : a # <<p, t>> => pc'[a] = pc[a]
      BY <1>3 DEF ThreadNext, LockBegin, TryLockBegin, AcquireMutex, Mkdirs,
         MkdirsOk, MkdirsFail, TryLockFile, TryLockFileBusy, TryLockFileError,
         AwaitAdd, AwaitAddOk, AwaitAddVanished, AwaitAddError, AwaitEvent,
         AwaitTimeout, AwaitError, Return, Inv, TypeOK
    <2>. QED
      BY <2>1, <1>0
  <1>. QED
    BY <1>1, <1>2, <1>3

(* A crash abandons the lock when a thread of the crashed process holds   *)
(* it and leaves it alone otherwise; a restart leaves it alone.           *)
LEMMA ProcessStepRefines ==
  ASSUME Inv, NEW p \in Procs, Crash(p) \/ Restart(p)
  PROVE  [Abstract!Next]_LockHolder
  <1>1. Unique(pc)
    BY InvMutualExclusion DEF MutualExclusion, Unique, Holding
  <1>2. CASE Crash(p) /\ \E a \in Actors : pc[a] = "holding" /\ a[1] = p
    <2>1. PICK a \in Actors : pc[a] = "holding" /\ a[1] = p
      BY <1>2
    <2>2. \A b \in Actors : pc'[b] # "holding"
      BY <1>1, <1>2, <2>1 DEF Crash, Unique
    <2>3. LockHolder = a /\ LockHolder' = <<>>
      BY <1>1, <2>1, <2>2, HolderOfNone, HolderOfHolder, LockHolderDef
    <2>4. a # <<>>
      BY ActorPair
    <2>. QED
      BY <2>1, <2>3, <2>4 DEF Abstract!Next, Abstract!Abandon
  <1>3. CASE Crash(p) /\ ~\E a \in Actors : pc[a] = "holding" /\ a[1] = p
    BY <1>3, SameHoldersStutter DEF Crash
  <1>4. CASE Restart(p)
    BY <1>4, SameHoldersStutter DEF Restart
  <1>. QED
    BY <1>2, <1>3, <1>4

-----------------------------------------------------------------------------
(* The invariant holds in every state of every behaviour. *)
THEOREM InvAlways == Spec => []Inv
  <1>1. Inv /\ [Next]_vars => Inv'
    BY ThreadStepInv, ProcessStepInv, StutterInv DEF Next
  <1>. QED
    BY InitInv, <1>1, PTL DEF Spec

(* The holder of the lock is the process recorded in the lock file, for  *)
(* every number of processes, threads and restarts: a stale-lock cleanup  *)
(* never takes the file of a running holder, and Unlock never fails.     *)
THEOREM HolderOwnsLockfileAlways == Spec => []HolderOwnsLockfile
  BY InvAlways, PTL DEF Inv

(* Mutual exclusion of Lock/TryLock between all threads of all processes: *)
(* the file separates processes, lock(l.file) the threads of one process. *)
THEOREM MutualExclusionAlways == Spec => []MutualExclusion
  BY InvAlways, InvMutualExclusion, PTL

(* Lockfile implements LockSpec, for any number of processes, threads   *)
(* and restarts: the lock file protocol hands the lock to a thread only   *)
(* while nobody holds it, takes it back only by Unlock or by the crash of  *)
(* the holder's process, and never passes it from one thread to another. *)
THEOREM ImplementsLockSpecProved == Spec => ImplementsLockSpec
  <1>1. Init => Abstract!Init
    BY HolderOfNone, LockHolderDef DEF Init, Abstract!Init
  <1>2. Inv /\ [Next]_vars => [Abstract!Next]_LockHolder
    BY ThreadStepRefines, ProcessStepRefines, SameHoldersStutter DEF Next, vars
  <1>. QED
    BY <1>1, <1>2, InvAlways, PTL DEF Spec, ImplementsLockSpec, Abstract!Spec
=============================================================================
