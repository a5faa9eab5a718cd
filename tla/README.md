# TLA+ models of cntnr

This directory holds TLA+ specifications of the parts of cntnr (`src/`) that have
state, concurrency or ordering worth checking. It also holds TLC configurations
that model-check them on small instances, and TLAPS proofs, for every instance,
of the lock's safety, of the lock's refinement of an abstract lock, of the
build engine's bundle bookkeeping, of the Dockerfile parser's stage
isolation, and of the runtime spec builder's invariants. `PROJECT.json` lists:

- the components;
- every run and its mutants;
- the map from each definition to the source lines it models;
- the findings, the hazards and the theorems.

## 1. The system

cntnr is a rootless container engine. The parts under `src/` that this project
looks at are the following.

| Part | Source | State | Operations |
|---|---|---|---|
| Lock file | `pkg/lock/lockfile.go` | the lock file on disk: the pid of its owner (nightlyone/lockfile); an in-process mutex per file path; fsnotify watchers | `TryLock`, `Lock` (mkdirs, TryLock, wait for a change of the file or 5 s, retry), `Unlock` |
| Image build engine | `image/builder/imagebuilder.go` | `BuildState`: current image, current config, the open bundle (with its recorded parent image), the image store, the build cache | `Build`, `FromImage`, `SetAuthor`/`SetWorkingDir`/`SetEntrypoint`/`SetCmd`, `Run`, `CopyFile`, `Tag`/`AddTag`, `cached`, `commitLayer`, `commitConfig`, `initBundle`, `Close` |
| Dockerfile parser | `image/builder/dockerfile/dockerfile.go` | `envMap`, `runEnvMap`, `varScope` per stage; the list of operations | `LoadDockerfile`, one handler per instruction, `subst`, `resetState`, `Apply` |
| Runtime spec builder | `unnamed/part_000` (`SpecBuilder`) | entrypoint, cmd, user, rootless, proot options, custom seccomp; the generated OCI spec | setters, `ApplyImage`, `applyEntrypoint`, `Spec(rootfs)` |
| Store wiring, CLI, networking, volumes | `store/`, `oci/store/`, `cmd/`, `net/`, `model/volumes.go` | none of their own | construct stores, parse flags, call CNI plugins, resolve paths |

How they interact:

- The CLI opens the store.
- A build locks the image store for writing for the whole build. The locks are
  lock files (`pkg/lock`).
- `LoadDockerfile` translates a Dockerfile into operations.
- `Apply` runs those operations on an `ImageBuilder`.
- The build engine runs each step. It checks the build cache first.
- When there is no usable cache entry, the engine runs the step. A RUN or COPY
  runs in a bundle, which the engine keeps open from one RUN/COPY to the next.
  It then commits a layer or a config to the image store and records the new
  image in the cache.
- The bundle's runtime spec comes from `SpecBuilder` (`BuilderFromImage` calls
  `ApplyImage`; `initBundle` sets the entrypoint, cmd, rootless and proot).

### The hard behaviours

- **Lock file.**
  - Threads of one process and processes on one host contend for the lock.
  - A holder can crash and leave its file; the pid decides whether the file is
    stale.
  - A crashed holder's stale file never changes, so no fsnotify event arrives
    for a waiter watching it; only the 5 s timer wakes the waiter to retry
    TryLock and take the file over.
  - The file can disappear between the failed TryLock and `watcher.Add`, which
    then fails with a not-exist error (finding).
  - nightlyone's Unlock can fail to read or remove the file; Lockfile.Unlock
    returns the error (line 75) and the live process's file stays.
- **Build engine.**
  - The bundle, the current image and the cache must stay consistent across
    steps. That includes cache hits, config-only commits, failures at every
    point, and cache entries whose image gc has removed.
- **Dockerfile.**
  - The scope rules of ARG and ENV within and across stages.
- **SpecBuilder.**
  - Whatever the order of the calls, the user the process runs as must obey the
    rootless and proot constraints.
  - The uint32 conversion of ids at the end of `Spec`.

### What makes each part correct

- **Lock file:**
  - mutual exclusion between all threads of all processes;
  - every holder is the live owner recorded in the file;
  - a waiter eventually gets the lock or stops waiting;
  - TryLock does not block;
  - Lock retries when the file vanishes.
- **Build engine:**
  - the open bundle's rootfs is the filesystem of the image it records as
    parent;
  - a cache entry's image extends its parent (its history by one entry, and the
    parent's layers as prefix);
  - history entries match layers.
- **Dockerfile:**
  - stage isolation;
  - an ENV removes a name from RUN's ARG environment.
- **SpecBuilder:**
  - rootless specs run as mapped root;
  - proot specs run as 0:0 with proot told the configured user;
  - without proot, the process runs as exactly the resolved user.

## 2. Modules

| Module | Models | Used by |
|---|---|---|
| `LockSpec` | what the lock promises: one holder or none | `Lockfile` (as `Abstract`) |
| `Lockfile` | `pkg/lock/lockfile.go` together with nightlyone's pid file, the in-process mutex and fsnotify | `MC_Lockfile`, `LockfileProofs` |
| `LockfileProofs` | TLAPS proofs about `Lockfile` | none |
| `ImageBuild` | `image/builder/imagebuilder.go`, with the image store, the cache and gc modelled from the spec | `MC_ImageBuild`, `ImageBuildProofs` |
| `ImageBuildProofs` | TLAPS proofs about `ImageBuild` | none |
| `DockerfileScope` | the variable scopes of `dockerfile.go` and every instruction that substitutes variables | `MC_DockerfileScope`, `DockerfileScopeProofs` |
| `DockerfileScopeProofs` | TLAPS proofs about `DockerfileScope` | none |
| `DockerfileShell` | SHELL and the command lines of RUN/CMD/ENTRYPOINT in `dockerfile.go`, with Go slice aliasing | `DockerfileShellProofs` |
| `DockerfileShellProofs` | TLAPS proofs about `DockerfileShell`, and the inductive invariant `IInv` | `MC_DockerfileShell` |
| `SpecBuilder` | `SpecBuilder` of `unnamed/part_000` | `MC_SpecBuilder`, `SpecBuilderProofs` |
| `SpecBuilderProofs` | TLAPS proofs about `SpecBuilder` | none |
| `MC_*` | model values and small constants for TLC | the `.cfg` files |

### Lockfile

State:

- `up[p]`: whether process p is running.
- `pid[p]`: its incarnation. A restart gives a new pid.
- `owner`: the pid recorded in the lock file, or `NoOwner` when there is no
  file.
- `mutex[p]`: the thread holding the in-process mutex of the file.
- Per thread (a pair of process and thread):
  - `pc`: the position in `TryLock`/`Lock`/`Unlock`;
  - `op`: which call it is in;
  - `changed`: whether its watcher has seen an event;
  - `result`: what its last call returned.

Actions and the code they model:

| Action | Code |
|---|---|
| `LockBegin`, `TryLockBegin` | entry of the calls |
| `AcquireMutex` | `lock(l.file)` |
| `MkdirsOk`, `MkdirsFail` | `l.mkdirs()` |
| `TryLockFileAcquire`, `TryLockFileBusy`, `TryLockFileError` | nightlyone `TryLock` and Lock's loop condition |
| `AwaitAddOk`, `AwaitAddVanished`, `AwaitAddError` | `NewWatcher`/`watcher.Add` and the `os.IsNotExist` check at line 66 |
| `AwaitEvent`, `AwaitTimeout`, `AwaitError` | the `select` of `awaitFileChange` |
| `Unlock` | `Unlock`, with nightlyone's Unlock removing the file of its own pid, or failing on I/O when `UnlockIOErrors` is TRUE (the error line 75 forwards) |
| `Crash`, `Restart` | the environment |

Each error path returns through `Return`, which models the deferred
`unlock(l.file)`.

### LockSpec and the refinement

`LockSpec` is the lock as its callers see it. Its one variable `holder` is a
thread or `NoHolder`. It has three actions:

- `Acquire(a)`: Lock or TryLock returns nil to `a` while nobody holds the lock;
- `Release(a)`: the holder unlocks;
- `Abandon(p)`: the process of the holder dies.

`Lockfile` defines the refinement mapping `LockHolder`: the thread whose `pc` is
`"holding"`, or `<<>>` when there is none. `Abstract == INSTANCE LockSpec WITH
holder <- LockHolder, NoHolder <- <<>>` and the property `ImplementsLockSpec ==
Abstract!Spec` say that every step of the protocol is an abstract step or leaves
the holder alone. The file, the pids, stale-lock detection, the watcher and the
retries are all hidden by the mapping.

- `TryLockFileAcquire` is `Acquire`.
- `Unlock` is `Release`.
- A `Crash` of the holder's process is `Abandon`. Any other crash is a stutter.
- Every other step is a stutter.

This is stronger than `MutualExclusion`. It also rules out the lock passing from
one thread to another in a single step.

### ImageBuild

Data abstraction:

- An image is a record of its layers and its config. The config holds the
  author, the cmd and the empty_layer flags of the history. Images are content
  addressed, so the record is the image's identity.
- A layer is the content one RUN or COPY added.
- The bundle is `[parent, rootfs]`.
- The cache is a set of `[parent, step, img]` entries. A step record stands for
  the unique comment (`"RUN /bin/sh -c ..."`, `"CMD [...]"`), which is injective
  on steps.

Build order:

- Builds run one after the other, because `Build` receives the image store
  locked for writing.
- Between builds, the environment action `GC` removes untagged images, so cache
  entries can dangle.

Every step action contains the whole handler:

- the cache lookup;
- the hit path (`setImage`);
- the miss path: the call, the commit, `setImage`, `SetParentImageId`,
  `cache.Put`;
- every error return. An error return ends the build, and the deferred
  handlers close the bundle (`Fail`), with one exception: the
  `ImageBuilder.SetAuthor` wrapper (lines 36-41) discards the error of its
  step, so after a failed commit or `cache.Put` of AUTHOR the build goes on
  with the bundle closed (`StepFailed`).

`SetConfig` covers `SetAuthor`, `SetWorkingDir`, `SetEntrypoint` and `SetCmd`,
which differ only in the config field they set. The model has two of those
fields.

### DockerfileScope

- Variables:
  - `envMap`, `runEnvMap` and `varScope` are functions on `Keys`. A Go map's
    missing entry is `Empty`, which is faithful: `arg` stores only non-empty
    values and `subst` expands an unset name to `""`.
  - `ops` is the list of added operations. Each records the instruction index it
    came from and the environment it carries.
- Actions: one per handler.
  - `From` substitutes the image name with the current `varScope`, then calls
    `resetState`.
  - `Arg`, `Env` and `Run` are as in the code.
  - `AddSubstituted(op)` is the shared shape of `copy`/`add`, `label`, `user`,
    `workdir`, `exposePorts`, `volume` and `stopSignal`: substitute the value,
    then add an operation.
  - `Maintainer` adds its value without substitution.
  - `ReadError` is the error return of `LoadDockerfile` on an unknown
    instruction.
- A value is a model value or a reference `$k` to a key. `Subst` resolves a
  reference in `varScope`.
- The Dockerfile is chosen in `Init`. The first alphabet, with lists of length
  1 to 5, exercises every scope branch:
  - a build argument overriding an empty default;
  - an ENV substituting `$x`;
  - ARG of a name that ENV declared.

  A second alphabet, with lists of up to 3, puts the other handlers after and
  before those.

### DockerfileShell

- Go slices are modelled as they are. A slice is `[arr, len, cap]` into `heap`,
  a sequence of backing arrays.
- `AppendSlice` is `append`: it writes in place when `len < cap`; otherwise it
  copies into a new array of twice the capacity.
- `ReadInstructionNode` is `readInstructionNode`, which appends word by word to
  `[]string{}`. `GrownCap` gives the capacity that reaches: the power of two
  in `n..2n-1`, i.e. 1, 2, 4, 4, 8, 8, 8, 8, 16, ... Go's `growslice` doubles
  below 256 elements and the 16-byte size classes keep the doubled capacity
  exact, so this is faithful up to 256 words; the runs stay far below.
- Actions:
  - `UseShell` sets `s.shell` to a new slice.
  - `From` leaves it alone.
  - `Run`, `Cmd` and `Entrypoint` each add an operation. For the shell form its
    slice is `append(s.shell, text)`; for the exec form it is the words.
- Each operation records `expect`, the command line its instruction denotes when
  it is read. Properties compare `View(args)`, which is what `Apply` later hands
  to the builder, with `expect`.

### SpecBuilder

- Actions: one per setter that changes a modelled field, `ApplyImage`, and
  `Spec(rootfs)`.
- `Spec(rootfs)` is split into:
  - `SpecFails`: any error return, for example the user resolution failing;
  - `SpecOk`: all checks pass and the fields are written.
- Ids have the width of the code:
  - `Spec` compares them with `1<<32`;
  - `uint32(...)` reduces them modulo `1<<32`.

  TLC cannot handle numbers of that size, so `1<<32` is the constant
  `IdModulus`. The model-checked instance uses `1<<3 = 8`. The bound and the
  modulus are the same constant, as they are the same number in the code, so
  their relation is the same at both sizes.

## 3. Runs

| Run | Cfg | Result | What it shows |
|---|---|---|---|
| lockfile_safety | `MC_Lockfile_safety.cfg` | pass, 1,067,509 states | `MutualExclusion`, `HolderOwnsLockfile` and the proof's inductive invariant `Inv` with 2 processes × 2 threads and one crash/restart per process, nightlyone's Unlock allowed to fail (symmetry on processes and threads) |
| lockfile_liveness | `MC_Lockfile_liveness.cfg` | pass, 5,137 states | `LockProgress` under `FairSpec`, and `ImplementsLockSpec`: `Lockfile` implements `LockSpec` (2 processes × 1 thread, one crash/restart each, `UnlockIOErrors` FALSE, no symmetry) |
| lockfile_vanished | `MC_Lockfile_vanished.cfg` | violation | Lock fails when the file vanishes before `watcher.Add` (finding) |
| lockfile_trylock | `MC_Lockfile_trylock.cfg` | violation | TryLock blocks on the in-process mutex (finding) |
| imagebuild_safety | `MC_ImageBuild_safety.cfg` | pass, 424,196 states | `BundleRootfsMatchesParent` and `TagsInStore` (no tag points to an image gc removed) over 2 builds of 47 programs, with all failure points (AUTHOR's discarded error included) and gc; `FROM; RUN c1; TAG` lets a second build hit a cache entry of an image gc removed |
| imagebuild_staleparent | `MC_ImageBuild_staleparent.cfg` | violation | `FROM; RUN c1; CMD v1; RUN c1` commits the last RUN on the bundle's stale parent (finding) |
| dockerfile_safety | `MC_DockerfileScope_safety.cfg` | pass, 127,200 states | `TypeOK`, `StageIsolation` and the proof's inductive invariant `Inv` for every Dockerfile of both alphabets |
| dockerfile_shadow | `MC_DockerfileScope_shadow.cfg` | violation | `ARG X; ENV X` keeps X in RUN's environment (finding, spec S2) |
| dockershell_safety | `MC_DockerfileShell_safety.cfg` | pass, 7,464 states | `ProgramKept`: no later instruction changes the shell or flags of an earlier command; and the proof's inductive invariant `IInv` |
| dockershell_alias | `MC_DockerfileShell_alias.cfg` | violation | `SHELL [w1,w2,w3]; RUN t1; CMD t2`: both commands share one backing array, so the RUN executes `w1 w2 w3 t2` (finding) |
| specbuilder_safety | `MC_SpecBuilder_safety.cfg` | pass, 6,080 states | `RootlessMapsRoot` and `ProotEmulatesUser` for every call sequence |
| specbuilder_uid | `MC_SpecBuilder_uid.cfg` | violation | uid `IdModulus` (`1<<32`) passes the range check and becomes 0 (finding) |

Every property of a passing run has a mutant in `PROJECT.json`. Each mutant is a
plausible bug that TLC then reports. Examples:

- dropping `lock(l.file)`;
- no timeout in `awaitFileChange`;
- commitLayer not calling `SetParentImageId`;
- `resetState` not clearing `varScope`;
- `useShell` reusing the shell's buffer (`append(s.shell[:0], v...)`);
- a busy lock file treated as taken (breaks `ImplementsLockSpec`);
- the rootless check left out;
- applyEntrypoint passing 0:0 to proot.

### Bounds and why they suffice

- **Lock file.** Two processes with two threads each give both kinds of
  contention: threads of one process, and threads of different processes. One
  restart per process gives a stale pid and a reused process.
- **Image build.** Two builds sharing a store and cache give cache hits, and gc
  between the builds gives dangling entries. The programs are FROM followed by
  up to three RUN/CMD steps. This is the shortest length that shows a config
  commit between two RUNs, and a hit followed by a miss on an open bundle.
  Further programs reach COPY, AUTHOR, TAG, a FROM that is not first, a RUN
  without an image, and an empty step list.
- **Dockerfile.** Five instructions allow two stages, each with an ARG, an ENV
  and a RUN.
- **Dockerfile shell.** Up to four instructions over SHELL with 2 and 3 words,
  RUN and CMD in shell form, ENTRYPOINT in exec form. Three words give
  capacity 4, so one shell-form append writes in place; two commands after one
  SHELL are the fewest that share an array.
- **Refinement.** One thread per process keeps the run without symmetry small.
  Symmetry is unsound for a temporal property with `CHOOSE` in the mapping.
  Contention between threads of one process is covered by `lockfile_safety`,
  and the proof covers every instance.
- **SpecBuilder.** Ids 0, 5 and 8 = 2^3 cover:
  - root;
  - a normal user;
  - the boundary where the range check and the conversion disagree.

Deadlock checking is off only for the build, Dockerfile, Dockerfile shell and
SpecBuilder runs.
Each of these models ends with its final call (the last build, the last
instruction, `Spec`). The lock model is checked for deadlock.

### Fairness

The liveness run assumes:

- weak fairness of every thread step, because Go schedules every runnable
  goroutine and the 5 s timer fires;
- strong fairness of the successful outcome of each fallible step (mkdirs,
  TryLock, watcher setup), because file system errors are transient;
- no fairness for watcher errors, crashes or restarts, because nothing makes
  them happen.

`LockProgress` says that while some thread waits, eventually some thread holds
the lock or no thread waits any more. The mutant that removes the timeout breaks
it: a holder that crashes leaves a stale file that never changes, so no event
arrives and the waiter watching it waits forever.

The liveness run sets `UnlockIOErrors` to FALSE. With the failure, LockProgress
is really violated (TLC shows it): nightlyone's Unlock fails to remove the
file of a live process, and the waiters of other processes wait until that
process locks again or exits, which nothing forces it to do.

nightlyone/lockfile is not under `src/`; its TryLock is one atomic step
(`FileAcquirable`) modelled from its documentation. A race inside it, such as
two processes removing the same stale file, is therefore outside the model.

## 4. Proofs

`LockfileProofs` proves, for every number of processes, threads and restarts:

- `InvAlways`: `Spec => []Inv`;
- `HolderOwnsLockfileAlways`: `Spec => []HolderOwnsLockfile`;
- `MutualExclusionAlways`: `Spec => []MutualExclusion`;

The proofs rest on the assumptions of `Lockfile`:

- `ThreadsAssumption`: `NoThread` is not a thread;
- `MaxRestartsAssumption`: `MaxRestarts` is a natural number;
- `NoOwnerAssumption`: `NoOwner` is not a pid record;
- `UnlockIOErrorsAssumption`: `UnlockIOErrors` is a Boolean (the proofs hold
  with and without the I/O failure).

Mutual exclusion alone is not inductive. The proof strengthens it to `Inv`,
which states:

- the type invariant;
- a crashed process still has a restart left, so `pid` stays in range;
- every thread between `lock(l.file)` and its return owns the mutex of its
  process, and its process is up;
- every holder's process is the owner recorded in the file.

The argument runs as follows:

- Two holders in the same process would both own the process's single mutex,
  so they are the same thread.
- A holder in another process is the recorded live owner of the file.
- nightlyone's TryLock therefore finds that file busy for everyone else.
- `Crash` resets all of its process's threads, so no holder survives with a
  dead owner.

The proof has one lemma per kind of step (thread step, process step, stutter)
and a lemma `ReturnInv` shared by all error returns. `tlapm` checks every
obligation.

`ImplementsLockSpecProved` proves `Spec => ImplementsLockSpec`, the refinement
of `LockSpec`, for every instance. The argument:

- `HolderOf(f)` is the mapping taken of any assignment `f` of program counters.
  `LockHolderDef` gives `LockHolder = HolderOf(pc)` and its primed form. The
  lemmas about `HolderOf` then apply before and after a step alike:
  - with a unique holder, `HolderOf` names it;
  - with none, it is `<<>>`;
  - two assignments with the same holders map alike.
- `Inv` gives a unique holder (`InvMutualExclusion`).
- `AcquireFree`: a thread that takes the file finds no holder. A holder of
  another process is the live owner, so the file is not acquirable; a holder
  of the same process would own the acquiring thread's mutex.
- `ThreadStepRefines` handles each thread step; `ProcessStepRefines` handles
  crashes and restarts.
- The temporal step combines these with `InvAlways` by `PTL`.

`SpecBuilderProofs` proves, for every set of ids, words and ports, every euid
and every id range `IdModulus` (assumed a positive natural, as `1<<32` is):

- `TypeOKAlways`: `Spec => []TypeOK`, the typing lemma the other two proofs
  rest on (no run checks it: it holds by the definition of the conversion);
- `RootlessMapsRootAlways`: `Spec => []RootlessMapsRoot`;
- `ProotEmulatesUserAlways`: `Spec => []ProotEmulatesUser`.

The argument runs as follows:

- Every setter requires status `"building"`, so nothing changes after `Spec`
  returns, and each property only has to hold right after `SpecOk`.
- `IInv` is `TypeOK /\ RootlessMapsRoot`. A rootless `SpecOk` writes the ids
  of `Root` (with proot) or of a user checked to be `Root` (without), and
  `0 % IdModulus = 0`.
- `PInv` adds `DoneArgs`: the args written are `ApplyEntrypoint(user)` of the
  final fields, and with proot the ids are `0:0`.
- `ProotEmulatesUser` follows from `PInv` through lemmas on sequences:
  - `ProotArgsShape` gives the positions of `proot`, `-0` and `-i user`;
  - `ConcatPrefix` carries them through the two concatenations;
  - `TailOfConcat` shows that the tail is the entrypoint and cmd.

  These lemmas rest on `SequenceTheorems`.

`DockerfileScopeProofs` proves, for every set of keys and values, every
`--build-arg` map and every Dockerfile:

- `InvAlways`: `Spec => []Inv`;
- `TypeOKAlways`: `Spec => []TypeOK`;
- `StageIsolationAlways`: `Spec => []StageIsolation`.

The proofs rest on the assumptions of `DockerfileScope`: `Empty` is not a
value, the build arguments are values or empty, and every Dockerfile is a
sequence of instructions.

`StageIsolation` is not inductive. A RUN copies `runEnvMap` and a substitution
reads `varScope`, so `Inv` adds that the maps are confined to the stage of the
next instruction `i`:

- `RunEnvFromArgs`: every variable in `runEnvMap` was set to its value by an
  ARG of that stage;
- `ScopeFromStage`: every value in `varScope` was set by an ARG or an ENV of
  that stage.

The argument runs as follows:

- FROM empties all three maps, so both conjuncts hold trivially.
- Any other instruction `i` extends the stage by itself (`SBGrow`), so what the
  maps held stays justified (`KeepMaps`, `SISMono`).
- ARG and ENV justify what they store by themselves, with witness `i`.
- An appended operation satisfies `StageIsolation` because it copies the maps
  (`RunInv`) or expands through `varScope` (`SubstInStage`).

As in the lock proof, the invariants are restated through operators of the
Dockerfile, the operations and the maps (`RE`, `SF`, `SI`, with the rewriting
lemma `Rewrite`), so that one lemma serves the states before and after a step.
There is one lemma per handler.

`ImageBuildProofs` proves, for every set of images, commands, files, tags and
programs and every number of builds:

- `TypeOKAlways`: `Spec => []TypeOK`;
- `BundleRootfsMatchesParentAlways`: `Spec => []BundleRootfsMatchesParent`.

The proofs rest on the assumptions of `ImageBuild`:

- `ProgramsAssumption`: every program is a sequence of steps;
- `MaxBuildsAssumption`: `MaxBuilds` is a natural number;
- `NoneAssumption`: `None` is not an image record.

The two properties together (`IInv`) are inductive. The argument:

- `initBundle` either reuses the open bundle, whose rootfs is its parent's
  layers by the invariant, or opens one on the current image with that image's
  layers (`InitBundleOk`).
- RUN and COPY append one content to that rootfs. `AddImageLayer` then puts
  the diff, which is exactly that one content, on top of the parent's layers
  (`CommitLayerOk`).
- The committed image's layers are therefore the new rootfs, and
  `SetParentImageId` records that image as the bundle's parent
  (`LayerCommitOk`).
- `cached` keeps the bundle it was handed or, when `Put` fails, closes it
  (`CachedCommitInv`). Config commits, cache hits, failures, Tag and gc leave
  the bundle alone or close it.

The sequence facts come from `SequenceTheorems` (`SeqEqual`,
`AppendIsConcat`). `CacheEntryExtendsParent` is not proved, because TLC
shows that it fails.

`TagsInStoreAlways` proves `Spec => []TagsInStore` on top of `IInv`. Alone it
is not inductive: TAG points a tag at the current image, and gc may have
removed that image in an earlier build. The strengthening `SInv` adds
`CurrentInStore`: while a build runs, its current image is in the store.

- gc runs only between builds and removes only untagged images (`GCSInv`).
- A new build starts without a current image.
- FROM takes a tagged image, which is in the store, or imports and tags the base
  image (`FromImageSInv`).
- A cache hit is an image of the store, because `cached` looks it up with
  `images.Image` (`CacheHitSInv`). The mutant `CacheHitsUnchecked`, which skips
  that lookup, breaks `TagsInStore` in the run.
- Every commit adds its image to the store (`CachedCommitSInv`, `CopyFileSInv`).

`DockerfileShellProofs` proves, for every Dockerfile and every default shell:

- `IInvAlways`: `Spec => []IInv`;
- `ProgramKeptAlways`: `Spec => []ProgramKept`.

They rest on `DefaultShellAssumption` and `DockerfilesAssumption` of
`DockerfileShell`. `ProgramKept` is not inductive, because an append in place
writes into an array that other slices may share. `IInv` adds the typing of
the heap and of the slices (`Slices(heap)`), and two facts for every operation:

- `Agree`: the words of its slice equal its expected command line, except
  possibly the last;
- `OnShell`: if it shares the backing array of `s.shell`, it is exactly one
  word longer than the shell, and the shell's words are its first words.

`AddCommandInv` covers the three ways `append(s.shell, text)` can go:

- an exec-form command gets a fresh array;
- an in-place append with `len < cap` writes only cell `len+1` of the shell's
  array. By `OnShell` that cell is the last word of every operation on that
  array, so `Agree` survives for all of them;
- a grown append copies into a new array of capacity `GrownCap(len+1)`.

`UseShell` gives the shell a fresh array, so `OnShell` holds vacuously
afterwards. `ProgramKept` asks for the words before the last only, so it
follows from `Agree` (`InvProgramKept`). `PrefixEq` turns the pointwise
equality into equal prefixes. The lemmas
about the heap (`HeapAppend`, `InPlaceHeap`, `InPlaceTypes`, `ViewProps`) use
`SequenceTheorems` (`SeqEqual`, `AppendProperties`, `ExceptSeq`,
`SubSeqProperties`).

The following are only model-checked:

- the violated properties `LockRetriesVanishedFile`, `TryLockNonBlocking`,
  `CacheEntryExtendsParent`, `RunEnvExcludesEnvKeys`, `CommandKept` and
  `NativeUserPreserved`. TLC shows that they fail, so they are findings and
  not theorems;
- `LockProgress`. TLAPS does not handle liveness under fairness or `ENABLED`.

## 5. Plan

Done so far:

- the modules above, their runs and mutants;
- the Lockfile proofs, the SpecBuilder proofs;
- `LockSpec` with the refinement, model-checked and proved;
- `DockerfileShell` and every variable-substituting handler in
  `DockerfileScope`;
- the DockerfileScope proofs;
- the ImageBuild proofs of `TypeOK`, `BundleRootfsMatchesParent` and
  `TagsInStore`;
- the DockerfileShell proofs of `IInv` and `ProgramKept`;
- nightlyone's Unlock I/O failure in Lockfile, and AUTHOR's discarded error
  in ImageBuild.

Next:

1. **A warm-rebuild property for ImageBuild:** a rebuild of the same program
   with an unchanged store and cache adds no image and yields the same image
   (spec S5).
2. **A proof of the refinement's step lemmas for ImageBuild against an
   abstract build** (one image per successful program), once such an abstract
   specification is written.

## 6. Not modelled

The following are left out of the models:

- **Store wiring, CLI, networking, volumes.** These are configuration, I/O and
  argument parsing, with no state machine.
- **`Apply` of `dockerfile.go`.** It hands the operations to an `ImageBuilder`.
  Nothing under `src/` implements that interface: `BuildState` has other
  signatures (its `Run` takes no environment). Composing the two would be
  invented, so the RUN cache key hazard at `imagebuilder.go:234` has no
  property.

Three observations are described here rather than checked by a run:

- **`commitConfig` marks no history entry empty_layer** (`imagebuilder.go:353`).
  Spec 4.6 says a config commit's entry has `empty_layer: true`. The code writes
  `EmptyLayer: false`, so an image's history has more non-empty entries than
  layers. One assignment decides this, and `ImageBuild` records the flag as the
  code writes it.
- **FROM's own argument uses the previous stage's scope** (`dockerfile.go:141`).
  `from` calls `subst` before `resetState`, so after `ENV x=vb` a following
  `FROM $x` pulls `vb`. `DockerfileScope.From` keeps this order. The spec does
  not say which scope FROM's argument uses, so no property states an expected
  behaviour, and `StageIsolation` leaves FROM out.
- **`initBundle` loses the error of `SetSpec`** (`imagebuilder.go:157-163`).
  Inside the branch that reuses the bundle, `spec, err :=` declares a new
  `err`, so the error `SetSpec` assigns to it at line 163 never reaches the
  bare `return` of the named result; the bundle keeps its previous spec.
  `ImageBuild` abstracts the bundle to its rootfs and recorded parent, so the
  lost error changes nothing it tracks.
- **The contents of COPY/ADD, LABEL, EXPOSE and the like.** Only the
  substitution of their values is modelled.
- **The parser library's tokenisation.** An ARG is taken as a name with an
  optional default.
- **Capabilities, annotations, mounts and host networking in `SpecBuilder`.**
- **The bodies of the image store and the cache.** They are not under `src/`;
  the model uses what the spec says they do.
