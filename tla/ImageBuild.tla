----------------------------- MODULE ImageBuild -----------------------------
(***************************************************************************)
(* The image build engine of src/image/builder/imagebuilder.go: a build    *)
(* runs its steps in order against the image store, the build cache and at *)
(* most one bundle, which it keeps open from one RUN/COPY to the next.     *)
(*                                                                         *)
(* Builds run one after the other: Build receives the image store locked   *)
(* for writing (image.ImageStoreRW), so two builds never interleave.  The  *)
(* store and the cache persist from build to build; between builds the gc  *)
(* command may remove untagged images, so cache entries may dangle.        *)
(*                                                                         *)
(* Data is abstracted to what tells images apart: an image is its list of  *)
(* layers (each the content one RUN or COPY added) and its config (author, *)
(* cmd, and the empty_layer flag of every history entry).  Images are      *)
(* content addressed, so an image is identified with that record.  The     *)
(* image store (image/store, not under src/) is modelled from the spec.    *)
(***************************************************************************)
EXTENDS Naturals, Sequences, FiniteSets

CONSTANTS
  BaseNames,   \* image names FROM may import
  Cmds,        \* commands RUN may run
  Files,       \* files COPY may add
  CmdVals,     \* values of CMD
  Authors,     \* values of AUTHOR
  TagNames,    \* names Tag may give the result
  Programs,    \* the step lists builds are run with
  MaxBuilds,   \* how many builds run one after the other
  None         \* the absent image, bundle, author or cmd

Contents == BaseNames \cup Cmds \cup Files

Steps ==
  [op : {"FROM"}, arg : BaseNames] \cup [op : {"AUTHOR"}, arg : Authors] \cup
  [op : {"CMD"}, arg : CmdVals] \cup [op : {"RUN"}, arg : Cmds] \cup
  [op : {"COPY"}, arg : Files] \cup [op : {"TAG"}, arg : TagNames]

ASSUME ProgramsAssumption == \A P \in Programs : P \in Seq(Steps)
ASSUME MaxBuildsAssumption == MaxBuilds \in Nat

(* None is no image: a model value, never a record of layers and config. *)
ASSUME NoneAssumption ==
  None \notin [layers : Seq(Contents), cfg : [author : Authors \cup {None},
                cmd : CmdVals \cup {None}, history : Seq(BOOLEAN)]]

VARIABLES
  store,    \* the images in the image store
  tags,     \* tags[n]: the image the tag n points to, or None
  cache,    \* the build cache: entries [parent, step, img]
  builds,   \* how many builds have been started
  status,   \* "idle", "running", "done" or "failed"
  prog,     \* the steps of the current build
  pc,       \* the index of the next step of the current build
  image,    \* BuildState.image: the current image, or None
  config,   \* BuildState.config: the config the next commit starts from
  bundle    \* BuildState.bundle: [parent, rootfs] of the open bundle, or None

vars == <<store, tags, cache, builds, status, prog, pc, image, config, bundle>>

TagSpace == BaseNames \cup TagNames

Config == [author : Authors \cup {None}, cmd : CmdVals \cup {None},
           history : Seq(BOOLEAN)]

EmptyConfig == [author |-> None, cmd |-> None, history |-> <<>>]

(* An imported base image: one layer and one history entry. *)
BaseImage(n) ==
  [layers |-> <<n>>, cfg |-> [EmptyConfig EXCEPT !.history = <<FALSE>>]]

(* Layers and config of an image, or of the empty image None. *)
LayersOf(img) == IF img = None THEN <<>> ELSE img.layers
CfgOf(img) == IF img = None THEN EmptyConfig ELSE img.cfg

-----------------------------------------------------------------------------
(* The image store and the build cache (spec 4.3, 4.5) *)

(* ImageStore.AddImageConfig: a config-only commit keeps the parent's    *)
(* layers.                                                                *)
AddImageConfig(cfg, parent) == [layers |-> LayersOf(parent), cfg |-> cfg]

(* ImageStore.AddImageLayer: the diff between the parent's layers and the *)
(* rootfs becomes a layer on top of the parent, with a history entry      *)
(* appended to the parent's config.                                       *)
Diff(rootfs, parent) ==
  SubSeq(rootfs, Len(LayersOf(parent)) + 1, Len(rootfs))

AddImageLayer(rootfs, parent) ==
  [layers |-> LayersOf(parent) \o Diff(rootfs, parent),
   cfg |-> [CfgOf(parent) EXCEPT !.history = Append(@, FALSE)]]

(* ImageBuildCache.Get: the images cached under (parent, step). *)
CacheGet(parent, s) ==
  {e.img : e \in {x \in cache : x.parent = parent /\ x.step = s}}

(* ImageBuildCache.Put: (parent, step) now maps to img. *)
CachePut(parent, s, img) ==
  {x \in cache : ~(x.parent = parent /\ x.step = s)}
    \cup {[parent |-> parent, step |-> s, img |-> img]}

-----------------------------------------------------------------------------
(* Helpers of BuildState *)

Step == prog[pc]

Running ==
  /\ status = "running"
  /\ pc \in 1..Len(prog)

(* A step fails: Build returns the error and its deferred state.Close()  *)
(* closes the bundle (cached and CopyFile close it already).             *)
Fail ==
  /\ status' = "failed"
  /\ bundle' = None
  /\ UNCHANGED <<builds, prog, pc>>

(* A step returned an error, leaving the bundle b.  Build stops with it,  *)
(* except for AUTHOR: ImageBuilder.SetAuthor discards the error of        *)
(* BuildState.SetAuthor, so the build goes on with the next step.         *)
StepFailed(s, b) ==
  IF s.op = "AUTHOR"
  THEN /\ pc' = pc + 1
       /\ bundle' = b
       /\ UNCHANGED <<status, builds, prog>>
  ELSE Fail

(* setImage: the current image and the config taken from it. *)
SetImage(img) ==
  /\ image' = img
  /\ config' = img.cfg

(* initBundle: reuse the open bundle, or create one from the current     *)
(* image (bundle.BuilderFromImage, or an empty one without image).       *)
InitBundle ==
  IF bundle = None THEN [parent |-> image, rootfs |-> LayersOf(image)]
  ELSE bundle

(* Mutant: cached uses the cache entry without looking the image up. *)
CacheHitsUnchecked(s) == CacheGet(image, s)
(* cached: a cache entry for (current image, step) whose image is still in *)
(* the store is used instead of running the step.                          *)
CacheHits(s) == CacheGet(image, s) \cap store

(* cached, after call succeeded with the committed image img and the      *)
(* bundle b: cache.Put(parent, step, img); if Put fails, the deferred      *)
(* handler closes the bundle and the step fails with img committed.        *)
CachedCommit(s, img, b) ==
  /\ store' = store \cup {img}
  /\ SetImage(img)
  /\ \/ /\ cache' = CachePut(image, s, img)
        /\ bundle' = b
        /\ pc' = pc + 1
        /\ UNCHANGED <<status, builds, prog>>
     \/ /\ UNCHANGED cache
        /\ StepFailed(s, None)

(* commitConfig: append a history entry and commit the config on top of   *)
(* the current image.                                                     *)
CommitConfig(cfg) ==
  AddImageConfig([cfg EXCEPT !.history = Append(@, FALSE)], image)

(* SetParentImageId: the bundle records the committed image as parent. *)
RecordParentSkipped(b, img) == b
RecordParent(b, img) == [b EXCEPT !.parent = img]

(* The config change of SetAuthor and SetCmd (SetWorkingDir and          *)
(* SetEntrypoint change other fields the same way).                      *)
NewConfigWholeStep(s) ==
  IF s.op = "AUTHOR" THEN [config EXCEPT !.author = s] ELSE [config EXCEPT !.cmd = s]
NewConfig(s) ==
  IF s.op = "AUTHOR" THEN [config EXCEPT !.author = s.arg]
  ELSE [config EXCEPT !.cmd = s.arg]

(* commitLayer: commit the bundle's rootfs on top of the bundle's parent  *)
(* image; the bundle then records the new image as its parent.            *)
CommitLayer(b) == AddImageLayer(b.rootfs, b.parent)

-----------------------------------------------------------------------------
(* Operations of ImageBuilder.Build and BuildState *)

(* Build: start a build of the steps P with a fresh BuildState. *)
StartBuild ==
  /\ status # "running"
  /\ builds < MaxBuilds
  /\ \E P \in Programs :
       /\ prog' = P
       /\ status' = IF Len(P) = 0 THEN "failed" ELSE "running"
  /\ builds' = builds + 1
  /\ pc' = 1
  /\ image' = None
  /\ config' = EmptyConfig
  /\ UNCHANGED <<store, tags, cache, bundle>>

(* Build: all steps succeeded; the deferred state.Close() closes the     *)
(* bundle.                                                                *)
FinishBuild ==
  /\ status = "running"
  /\ pc = Len(prog) + 1
  /\ status' = "done"
  /\ bundle' = None
  /\ UNCHANGED <<store, tags, cache, builds, prog, pc, image, config>>

(* FromImage: only as first step; the image is looked up by name, else   *)
(* imported, and becomes the current image with its config.              *)
FromImage ==
  /\ Running
  /\ Step.op = "FROM"
  /\ \/ /\ image # None
        /\ Fail
        /\ UNCHANGED <<store, tags, cache, image, config>>
     \/ /\ image = None
        /\ tags[Step.arg] # None
        /\ SetImage(tags[Step.arg])
        /\ pc' = pc + 1
        /\ UNCHANGED <<store, tags, cache, builds, status, prog, bundle>>
     \/ /\ image = None
        /\ tags[Step.arg] = None
        /\ store' = store \cup {BaseImage(Step.arg)}
        /\ tags' = [tags EXCEPT ![Step.arg] = BaseImage(Step.arg)]
        /\ SetImage(BaseImage(Step.arg))
        /\ pc' = pc + 1
        /\ UNCHANGED <<cache, builds, status, prog, bundle>>
     \/ /\ image = None
        /\ tags[Step.arg] = None
        /\ Fail
        /\ UNCHANGED <<store, tags, cache, image, config>>

(* SetAuthor, SetWorkingDir, SetEntrypoint, SetCmd: change the config,    *)
(* then cached(step, commitConfig).  cached fails in cache.Get (a serious *)
(* error, before anything else), in commitConfig after it appended the    *)
(* history entry (AddImageConfig), or in Put; the config change stays.    *)
SetConfig ==
  /\ Running
  /\ Step.op \in {"AUTHOR", "CMD"}
  /\ LET cfg == NewConfig(Step)
     IN  \/ /\ CacheHits(Step) # {}
            /\ \E img \in CacheHits(Step) : SetImage(img)
            /\ pc' = pc + 1
            /\ UNCHANGED <<store, tags, cache, builds, status, prog, bundle>>
         \/ /\ CacheHits(Step) = {}
            /\ CachedCommit(Step, CommitConfig(cfg), bundle)
            /\ UNCHANGED tags
         \/ /\ config' = cfg
            /\ StepFailed(Step, bundle)
            /\ UNCHANGED <<store, tags, cache, image>>
         \/ /\ CacheHits(Step) = {}
            /\ config' = [cfg EXCEPT !.history = Append(@, FALSE)]
            /\ StepFailed(Step, None)
            /\ UNCHANGED <<store, tags, cache, image>>

(* Run: cached(step, run the command in the bundle, then commitLayer).  *)
Run ==
  /\ Running
  /\ Step.op = "RUN"
  /\ \/ /\ image = None
        /\ Fail
        /\ UNCHANGED <<store, tags, cache, image, config>>
     \/ /\ image # None
        /\ CacheHits(Step) # {}
        /\ \E img \in CacheHits(Step) : SetImage(img)
        /\ pc' = pc + 1
        /\ UNCHANGED <<store, tags, cache, builds, status, prog, bundle>>
     \/ /\ image # None
        /\ CacheHits(Step) = {}
        /\ LET b == [InitBundle EXCEPT !.rootfs = Append(@, Step.arg)]
               img == CommitLayer(b)
           IN  CachedCommit(Step, img, RecordParent(b, img))
        /\ UNCHANGED tags
     \/ /\ image # None
        /\ CacheHits(Step) = {}
        /\ Fail
        /\ UNCHANGED <<store, tags, cache, image, config>>

(* CopyFile: add the file to the bundle's rootfs and commitLayer; this   *)
(* step is not cached.  On failure the bundle is closed.                 *)
CopyFile ==
  /\ Running
  /\ Step.op = "COPY"
  /\ \/ LET b == [InitBundle EXCEPT !.rootfs = Append(@, Step.arg)]
            img == CommitLayer(b)
        IN  /\ store' = store \cup {img}
            /\ SetImage(img)
            /\ bundle' = RecordParent(b, img)
            /\ pc' = pc + 1
            /\ UNCHANGED <<tags, cache, builds, status, prog>>
     \/ /\ Fail
        /\ UNCHANGED <<store, tags, cache, image, config>>

(* Tag: point the tag at the current image. *)
Tag ==
  /\ Running
  /\ Step.op = "TAG"
  /\ \/ /\ image # None
        /\ tags' = [tags EXCEPT ![Step.arg] = image]
        /\ pc' = pc + 1
        /\ UNCHANGED <<store, cache, builds, status, prog, image, config, bundle>>
     \/ /\ Fail
        /\ UNCHANGED <<store, tags, cache, image, config>>

(* The gc command between builds removes an image no tag points to. *)
GC ==
  /\ status # "running"
  /\ \E img \in store :
       /\ \A n \in TagSpace : tags[n] # img
       /\ store' = store \ {img}
  /\ UNCHANGED <<tags, cache, builds, status, prog, pc, image, config, bundle>>

-----------------------------------------------------------------------------

Init ==
  /\ store = {}
  /\ tags = [n \in TagSpace |-> None]
  /\ cache = {}
  /\ builds = 0
  /\ status = "idle"
  /\ prog = <<>>
  /\ pc = 1
  /\ image = None
  /\ config = EmptyConfig
  /\ bundle = None

Next ==
  \/ StartBuild
  \/ FinishBuild
  \/ FromImage
  \/ SetConfig
  \/ Run
  \/ CopyFile
  \/ Tag
  \/ GC

Spec == Init /\ [][Next]_vars

-----------------------------------------------------------------------------
(* Properties *)

Images == [layers : Seq(Contents), cfg : Config]

TypeOK ==
  /\ store \subseteq Images
  /\ tags \in [TagSpace -> Images \cup {None}]
  /\ \A e \in cache : e.img \in Images /\ e.step \in Steps
  /\ builds \in 0..MaxBuilds
  /\ status \in {"idle", "running", "done", "failed"}
  /\ prog \in Seq(Steps)
  /\ pc \in 1..(Len(prog) + 1)
  /\ image \in Images \cup {None}
  /\ config \in Config
  /\ bundle = None \/ bundle \in [parent : Images \cup {None},
                                  rootfs : Seq(Contents)]

(* The open bundle's rootfs is exactly the filesystem of the image the   *)
(* bundle records as its parent: commitLayer's SetParentImageId keeps    *)
(* the two in step, so the next commit diffs against the right layers.   *)
BundleRootfsMatchesParent ==
  bundle # None => bundle.rootfs = LayersOf(bundle.parent)

(* A tag never dangles: every tag points to an image still in the store, *)
(* although gc removes images between builds and a cache hit may name an  *)
(* image gc already removed (cached looks it up in the store first).      *)
TagsInStore ==
  \A n \in TagSpace : tags[n] # None => tags[n] \in store

(* Spec 3: the image a cache entry maps (parent, step) to has the         *)
(* parent's history plus one entry, and the parent's layers below its     *)
(* own: a cached step builds on the image it is keyed by.                 *)
CacheEntryExtendsParent ==
  \A e \in cache :
     /\ Len(e.img.cfg.history) = Len(CfgOf(e.parent).history) + 1
     /\ SubSeq(e.img.layers, 1, Len(LayersOf(e.parent))) = LayersOf(e.parent)

=============================================================================
