---------------------------- MODULE MC_Lockfile ----------------------------
(* Lockfile instantiated for TLC: two processes with two threads each, so  *)
(* that both the in-process mutex and the cross-process file are contended,*)
(* and one crash per process, so that a stale lock file can be left behind.*)
EXTENDS Lockfile, TLC

CONSTANTS p1, p2, t1, t2

MCProcs == {p1, p2}
MCThreads == {t1, t2}

(* One thread per process: the liveness run, where only the file and the *)
(* watcher matter and symmetry may not be used. *)
MCOneThread == {t1}
MCMaxRestarts == 1

(* Processes and threads are interchangeable; used by the safety runs only. *)
MCSymmetry == Permutations(MCProcs) \cup Permutations(MCThreads)

=============================================================================
