------------------------------ MODULE LockSpec ------------------------------
(***************************************************************************)
(* What the lock of src/pkg/lock/lockfile.go promises its callers, with   *)
(* the lock file, the pid in it, the in-process mutex and the watcher left *)
(* out: one lock shared by the threads of all processes, held by at most  *)
(* one of them.  A thread takes it only while nobody holds it, gives it   *)
(* back with Unlock, and loses it when its process dies.  Module Lockfile *)
(* is shown to implement this specification (ImplementsLockSpec).         *)
(***************************************************************************)

CONSTANTS
  Procs,    \* the processes sharing the lock file
  Threads,  \* the goroutines of each process that call Lock/TryLock
  NoHolder  \* the value of holder while nobody holds the lock

VARIABLE holder  \* the thread <<process, thread>> holding the lock, or NoHolder

Init == holder = NoHolder

(* Lock or TryLock returns nil to thread a: nobody held the lock. *)
Acquire(a) ==
  /\ holder = NoHolder
  /\ holder' = a

(* Unlock by the holder frees the lock. *)
Release(a) ==
  /\ holder = a
  /\ holder' = NoHolder

(* The process of the holder dies: the lock is free for the others. *)
Abandon(p) ==
  /\ holder # NoHolder
  /\ holder[1] = p
  /\ holder' = NoHolder

Next ==
  \/ \E a \in Procs \X Threads : Acquire(a) \/ Release(a)
  \/ \E p \in Procs : Abandon(p)

Spec == Init /\ [][Next]_holder

=============================================================================
