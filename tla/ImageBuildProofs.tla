-------------------------- MODULE ImageBuildProofs --------------------------
(***************************************************************************)
(* Proofs about the build engine of module ImageBuild: the type invariant *)
(* and BundleRootfsMatchesParent hold in every state of every build, for  *)
(* every value of the constants.  Together they are inductive: each       *)
(* commitLayer diffs the bundle's rootfs against the layers of the        *)
(* bundle's parent, so the committed image's layers are the rootfs again. *)
(***************************************************************************)
EXTENDS ImageBuild, SequenceTheorems, TLAPS

IInv == TypeOK /\ BundleRootfsMatchesParent

-----------------------------------------------------------------------------
(* Lemmas on configs and images *)

(* commitConfig and AddImageLayer append one history entry to a config.  *)
LEMMA HistoryAppend ==
  ASSUME NEW c \in Config
  PROVE  [c EXCEPT !.history = Append(@, FALSE)] \in Config
<1>1. c.history \in Seq(BOOLEAN)
  BY DEF Config
<1>2. Append(c.history, FALSE) \in Seq(BOOLEAN)
  BY <1>1
<1>. QED  BY <1>2 DEF Config

(* The config and layers of an image, or of None. *)
LEMMA OfType ==
  ASSUME NEW P \in Images \cup {None}
  PROVE  /\ CfgOf(P) \in Config
         /\ LayersOf(P) \in Seq(Contents)
BY DEF CfgOf, LayersOf, EmptyConfig, Images, Config

(* An image is no None, so LayersOf gives its layers. *)
LEMMA LayersOfImage ==
  ASSUME NEW img \in Images
  PROVE  LayersOf(img) = img.layers
<1>1. img # None
  BY NoneAssumption DEF Images, Config
<1>. QED  BY <1>1 DEF LayersOf

(* commitLayer on a bundle whose rootfs is its parent's layers plus one  *)
(* content: the new image is an image whose layers are that rootfs.      *)
LEMMA CommitLayerOk ==
  ASSUME NEW P \in Images \cup {None}, NEW a \in Contents
  PROVE  LET b == [parent |-> P, rootfs |-> Append(LayersOf(P), a)]
             img == CommitLayer(b)
         IN  /\ img \in Images
             /\ LayersOf(img) = b.rootfs
<1>. DEFINE L == LayersOf(P)
            r == Append(L, a)
<1>1. /\ L \in Seq(Contents)
      /\ CfgOf(P) \in Config
  BY OfType
<1>2. Diff(r, P) = <<a>>
  <2>1. Len(r) = Len(L) + 1 /\ r[Len(L) + 1] = a
    BY <1>1
  <2>. DEFINE d == SubSeq(r, Len(L) + 1, Len(L) + 1)
  <2>3. r \in Seq(Contents)
    BY <1>1
  <2>4. d \in Seq(Contents) /\ Len(d) = 1 /\ d[1] = a
    BY <2>1, <2>3
  <2>5. <<a>> \in Seq(Contents) /\ Len(<<a>>) = 1 /\ <<a>>[1] = a
    OBVIOUS
  <2>6. \A k \in 1..Len(d) : d[k] = <<a>>[k]
    BY <2>4, <2>5
  <2>2. d = <<a>>
    BY <2>4, <2>5, <2>6, SeqEqual, Zenon
  <2>. QED  BY <2>1, <2>2 DEF Diff
<1>3. L \o Diff(r, P) = r
  BY <1>1, <1>2, AppendIsConcat
<1>4. [CfgOf(P) EXCEPT !.history = Append(@, FALSE)] \in Config
  BY <1>1, HistoryAppend
<1>5. AddImageLayer(r, P) \in Images
  BY <1>1, <1>3, <1>4 DEF AddImageLayer, Images
<1>6. LayersOf(AddImageLayer(r, P)) = r
  BY <1>3, <1>5, LayersOfImage DEF AddImageLayer
<1>. QED  BY <1>5, <1>6 DEF CommitLayer

(* Under the invariant, initBundle yields a bundle over an image or None  *)
(* whose rootfs is that parent's layers.                                  *)
LEMMA InitBundleOk ==
  ASSUME IInv
  PROVE  \E P \in Images \cup {None} :
            InitBundle = [parent |-> P, rootfs |-> LayersOf(P)]
<1>1. CASE bundle = None
  BY <1>1 DEF InitBundle, IInv, TypeOK
<1>2. CASE bundle # None
  <2>1. bundle \in [parent : Images \cup {None}, rootfs : Seq(Contents)]
    BY <1>2 DEF IInv, TypeOK
  <2>2. bundle.rootfs = LayersOf(bundle.parent)
    BY <1>2 DEF IInv, BundleRootfsMatchesParent
  <2>3. bundle = [parent |-> bundle.parent, rootfs |-> LayersOf(bundle.parent)]
    BY <2>1, <2>2
  <2>. QED  BY <1>2, <2>1, <2>3 DEF InitBundle
<1>. QED  BY <1>1, <1>2

(* The step a running build executes is a step. *)
LEMMA StepType ==
  ASSUME TypeOK, Running
  PROVE  Step \in Steps
BY DEF TypeOK, Running, Step

-----------------------------------------------------------------------------
(* The invariant holds initially and is kept by every action. *)

LEMMA InitInv == Init => IInv
<1>. SUFFICES ASSUME Init PROVE IInv
  OBVIOUS
<1>1. EmptyConfig \in Config
  BY DEF EmptyConfig, Config
<1>2. TypeOK
  BY <1>1, MaxBuildsAssumption DEF Init, TypeOK
<1>. QED  BY <1>2 DEF IInv, BundleRootfsMatchesParent, Init

(* Between builds the gc command only shrinks the store. *)
LEMMA GCInv == IInv /\ GC => IInv'
BY DEF IInv, TypeOK, BundleRootfsMatchesParent, GC

(* A failing step only changes status and closes the bundle. *)
LEMMA FailInv ==
  ASSUME IInv, Fail, UNCHANGED <<store, tags, cache, image, config>>
  PROVE  IInv'
BY DEF IInv, TypeOK, BundleRootfsMatchesParent, Fail

(* Build starts a program with a fresh state and keeps the bundle. *)
LEMMA StartBuildInv == IInv /\ StartBuild => IInv'
<1>. SUFFICES ASSUME IInv, StartBuild PROVE IInv'
  OBVIOUS
<1>1. EmptyConfig \in Config
  BY DEF EmptyConfig, Config
<1>2. PICK P \in Programs : prog' = P
  BY DEF StartBuild
<1>3. P \in Seq(Steps)
  BY ProgramsAssumption
<1>. QED  BY <1>1, <1>2, <1>3, MaxBuildsAssumption
          DEF IInv, TypeOK, BundleRootfsMatchesParent, StartBuild

LEMMA FinishBuildInv == IInv /\ FinishBuild => IInv'
BY DEF IInv, TypeOK, BundleRootfsMatchesParent, FinishBuild

LEMMA TagInv == IInv /\ Tag => IInv'
<1>. SUFFICES ASSUME IInv, Tag PROVE IInv'
  OBVIOUS
<1>1. Step \in Steps /\ Step.op = "TAG"
  BY StepType DEF Tag, IInv
<1>2. CASE /\ image # None
           /\ tags' = [tags EXCEPT ![Step.arg] = image]
           /\ pc' = pc + 1
           /\ UNCHANGED <<store, cache, builds, status, prog, image, config, bundle>>
  <2>1. Step.arg \in TagSpace
    BY <1>1 DEF Steps, TagSpace
  <2>. QED  BY <1>2, <2>1 DEF IInv, TypeOK, BundleRootfsMatchesParent, Tag, Running
<1>3. CASE Fail /\ UNCHANGED <<store, tags, cache, image, config>>
  BY <1>3, FailInv
<1>. QED  BY <1>2, <1>3 DEF Tag

(* An imported base image is an image. *)
LEMMA BaseImageType ==
  ASSUME NEW n \in BaseNames
  PROVE  BaseImage(n) \in Images
<1>1. <<n>> \in Seq(Contents)
  BY DEF Contents
<1>3. <<FALSE>> \in Seq(BOOLEAN)
  OBVIOUS
<1>2. [EmptyConfig EXCEPT !.history = <<FALSE>>] \in Config
  BY <1>3 DEF EmptyConfig, Config
<1>. QED  BY <1>1, <1>2 DEF BaseImage, Images

(* Bundles the invariant allows: none, or one whose rootfs is its        *)
(* parent's layers.                                                       *)
GoodBundle(b) ==
  \/ b = None
  \/ /\ b \in [parent : Images \cup {None}, rootfs : Seq(Contents)]
     /\ b.rootfs = LayersOf(b.parent)

(* A bundle over an image whose rootfs is that image's layers is good. *)
LEMMA GoodBundleIntro ==
  ASSUME NEW x, NEW i \in Images, NEW R \in Seq(Contents),
         x = [parent |-> i, rootfs |-> R], LayersOf(i) = R
  PROVE  GoodBundle(x)
BY DEF GoodBundle

(* A step that returned an error: the build stops, or (AUTHOR) goes on    *)
(* with the bundle cached left, with a store, image and config of their   *)
(* types.                                                                 *)
LEMMA StepFailedInv ==
  ASSUME TypeOK, Running, NEW s, NEW b, GoodBundle(b), StepFailed(s, b),
         store' \subseteq Images, tags' = tags, cache' = cache,
         image' \in Images \cup {None}, config' \in Config
  PROVE  IInv'
<1>1. CASE s.op = "AUTHOR"
  <2>1. pc' = pc + 1 /\ bundle' = b /\ UNCHANGED <<status, builds, prog>>
    BY <1>1 DEF StepFailed
  <2>. QED  BY <2>1 DEF IInv, TypeOK, BundleRootfsMatchesParent, GoodBundle, Running
<1>2. CASE s.op # "AUTHOR"
  <2>1. Fail
    BY <1>2 DEF StepFailed
  <2>. QED  BY <2>1 DEF IInv, TypeOK, BundleRootfsMatchesParent, Fail
<1>. QED  BY <1>1, <1>2

(* cached: committing an image and keeping a good bundle, or failing.   *)
LEMMA CachedCommitInv ==
  ASSUME IInv, Running, NEW s \in Steps, NEW img \in Images, NEW b,
         GoodBundle(b), CachedCommit(s, img, b), UNCHANGED tags
  PROVE  IInv'
<1>1. img.cfg \in Config
  BY DEF Images
<1>2. CASE /\ cache' = CachePut(image, s, img)
           /\ bundle' = b
           /\ pc' = pc + 1
           /\ UNCHANGED <<status, builds, prog>>
  <2>1. TypeOK'
    BY <1>1, <1>2 DEF IInv, TypeOK, GoodBundle, CachedCommit, SetImage,
                      CachePut, Running
  <2>2. BundleRootfsMatchesParent'
    BY <1>2 DEF GoodBundle, BundleRootfsMatchesParent
  <2>. QED  BY <2>1, <2>2 DEF IInv
<1>3. CASE UNCHANGED cache /\ StepFailed(s, None)
  <2>1. GoodBundle(None)
    BY DEF GoodBundle
  <2>2. store' \subseteq Images /\ image' \in Images /\ config' \in Config
    BY <1>1 DEF IInv, TypeOK, CachedCommit, SetImage
  <2>. QED  BY <1>3, <2>1, <2>2, StepFailedInv DEF IInv, CachedCommit
<1>. QED  BY <1>2, <1>3 DEF CachedCommit

LEMMA FromImageInv == IInv /\ FromImage => IInv'
<1>. SUFFICES ASSUME IInv, FromImage PROVE IInv'
  OBVIOUS
<1>1. Step \in Steps /\ Step.op = "FROM"
  BY StepType DEF FromImage, IInv
<1>2. Step.arg \in BaseNames /\ Step.arg \in TagSpace
  BY <1>1 DEF Steps, TagSpace
<1>3. CASE /\ image = None
           /\ tags[Step.arg] # None
           /\ SetImage(tags[Step.arg])
           /\ pc' = pc + 1
           /\ UNCHANGED <<store, tags, cache, builds, status, prog, bundle>>
  <2>1. tags[Step.arg] \in Images
    BY <1>2, <1>3 DEF IInv, TypeOK
  <2>. QED  BY <1>3, <2>1 DEF IInv, TypeOK, BundleRootfsMatchesParent,
                               SetImage, Images, FromImage, Running
<1>4. CASE /\ image = None
           /\ tags[Step.arg] = None
           /\ store' = store \cup {BaseImage(Step.arg)}
           /\ tags' = [tags EXCEPT ![Step.arg] = BaseImage(Step.arg)]
           /\ SetImage(BaseImage(Step.arg))
           /\ pc' = pc + 1
           /\ UNCHANGED <<cache, builds, status, prog, bundle>>
  <2>1. BaseImage(Step.arg) \in Images
    BY <1>2, BaseImageType
  <2>. QED  BY <1>2, <1>4, <2>1 DEF IInv, TypeOK, BundleRootfsMatchesParent,
                                    SetImage, Images, FromImage, Running
<1>5. CASE Fail /\ UNCHANGED <<store, tags, cache, image, config>>
  BY <1>5, FailInv
<1>. QED  BY <1>3, <1>4, <1>5 DEF FromImage

LEMMA SetConfigInv == IInv /\ SetConfig => IInv'
<1>. SUFFICES ASSUME IInv, SetConfig PROVE IInv'
  OBVIOUS
<1>1. Step \in Steps /\ Step.op \in {"AUTHOR", "CMD"}
  BY StepType DEF SetConfig, IInv
<1>. DEFINE cfg == NewConfig(Step)
<1>0. cfg \in Config /\ [cfg EXCEPT !.history = Append(@, FALSE)] \in Config
  <2>1. Step.arg \in Authors \cup CmdVals /\ config \in Config
    BY <1>1 DEF Steps, IInv, TypeOK
  <2>2. cfg \in Config
    BY <1>1, <2>1 DEF NewConfig, Config, Steps
  <2>. QED  BY <2>2, HistoryAppend
<1>2. CASE /\ CacheHits(Step) # {}
           /\ \E img \in CacheHits(Step) : SetImage(img)
           /\ pc' = pc + 1
           /\ UNCHANGED <<store, tags, cache, builds, status, prog, bundle>>
  <2>1. PICK img \in CacheHits(Step) : SetImage(img)
    BY <1>2
  <2>2. img \in Images
    BY DEF CacheHits, IInv, TypeOK
  <2>. QED  BY <1>2, <2>1, <2>2 DEF IInv, TypeOK, BundleRootfsMatchesParent,
                                    SetImage, Images, SetConfig, Running
<1>3. CASE /\ CacheHits(Step) = {}
           /\ CachedCommit(Step, CommitConfig(cfg), bundle)
           /\ UNCHANGED tags
  <2>1. cfg \in Config
    <3>1. Step.arg \in Authors \cup CmdVals /\ config \in Config
      BY <1>1 DEF Steps, IInv, TypeOK
    <3>. QED  BY <1>1, <3>1 DEF NewConfig, Config, Steps
  <2>2. [cfg EXCEPT !.history = Append(@, FALSE)] \in Config
    BY <2>1, HistoryAppend
  <2>3. LayersOf(image) \in Seq(Contents)
    BY OfType DEF IInv, TypeOK
  <2>4. CommitConfig(cfg) \in Images
    BY <2>2, <2>3 DEF CommitConfig, AddImageConfig, Images
  <2>5. GoodBundle(bundle)
    BY DEF GoodBundle, IInv, TypeOK, BundleRootfsMatchesParent
  <2>. QED  BY <1>1, <1>3, <2>4, <2>5, CachedCommitInv DEF SetConfig
<1>4. CASE /\ config' = cfg
           /\ StepFailed(Step, bundle)
           /\ UNCHANGED <<store, tags, cache, image>>
  <2>1. GoodBundle(bundle)
    BY DEF GoodBundle, IInv, TypeOK, BundleRootfsMatchesParent
  <2>. QED  BY <1>0, <1>4, <2>1, StepFailedInv DEF IInv, TypeOK, SetConfig
<1>5. CASE /\ CacheHits(Step) = {}
           /\ config' = [cfg EXCEPT !.history = Append(@, FALSE)]
           /\ StepFailed(Step, None)
           /\ UNCHANGED <<store, tags, cache, image>>
  <2>1. GoodBundle(None)
    BY DEF GoodBundle
  <2>. QED  BY <1>0, <1>5, <2>1, StepFailedInv DEF IInv, TypeOK, SetConfig
<1>. QED  BY <1>2, <1>3, <1>4, <1>5 DEF SetConfig

(* Run and CopyFile: the bundle of initBundle with the step's content     *)
(* added commits to an image, and recording that image as the bundle's    *)
(* parent leaves a good bundle.                                           *)
LEMMA LayerCommitOk ==
  ASSUME IInv, Running, Step.op \in {"RUN", "COPY"}
  PROVE  LET b == [InitBundle EXCEPT !.rootfs = Append(@, Step.arg)]
             img == CommitLayer(b)
         IN  /\ img \in Images
             /\ GoodBundle(RecordParent(b, img))
<1>1. Step.arg \in Contents
  <2>1. Step \in Steps
    BY StepType DEF IInv
  <2>. QED  BY <2>1 DEF Steps, Contents
<1>2. PICK P \in Images \cup {None} :
         InitBundle = [parent |-> P, rootfs |-> LayersOf(P)]
  BY InitBundleOk
<1>. DEFINE b == [InitBundle EXCEPT !.rootfs = Append(@, Step.arg)]
            img == CommitLayer(b)
<1>3. b = [parent |-> P, rootfs |-> Append(LayersOf(P), Step.arg)]
  BY <1>2
<1>4. img \in Images /\ LayersOf(img) = b.rootfs
  BY <1>1, <1>3, CommitLayerOk
<1>7. LayersOf(P) \in Seq(Contents)
  BY OfType
<1>8. Append(LayersOf(P), Step.arg) \in Seq(Contents)
  BY <1>1, <1>7
<1>5. b.rootfs \in Seq(Contents)
  BY <1>3, <1>8, Zenon
<1>6. RecordParent(b, img) = [parent |-> img, rootfs |-> b.rootfs]
  <2>1. RecordParent(b, img) = [b EXCEPT !.parent = img]
    BY DEF RecordParent
  <2>. QED  BY <1>3, <2>1, Zenon
<1>. QED  BY <1>4, <1>5, <1>6, GoodBundleIntro

LEMMA RunInv == IInv /\ Run => IInv'
<1>. SUFFICES ASSUME IInv, Run PROVE IInv'
  OBVIOUS
<1>1. Step \in Steps /\ Step.op = "RUN" /\ Running
  BY StepType DEF Run, IInv
<1>2. CASE /\ image # None
           /\ CacheHits(Step) # {}
           /\ \E img \in CacheHits(Step) : SetImage(img)
           /\ pc' = pc + 1
           /\ UNCHANGED <<store, tags, cache, builds, status, prog, bundle>>
  <2>1. PICK img \in CacheHits(Step) : SetImage(img)
    BY <1>2
  <2>2. img \in Images
    BY DEF CacheHits, IInv, TypeOK
  <2>3. TypeOK'
    BY <1>1, <1>2, <2>1, <2>2 DEF IInv, TypeOK, SetImage, Images, Running
  <2>4. BundleRootfsMatchesParent'
    BY <1>2 DEF IInv, BundleRootfsMatchesParent
  <2>. QED  BY <2>3, <2>4 DEF IInv
<1>3. CASE /\ image # None
           /\ CacheHits(Step) = {}
           /\ LET b == [InitBundle EXCEPT !.rootfs = Append(@, Step.arg)]
                  img == CommitLayer(b)
              IN  CachedCommit(Step, img, RecordParent(b, img))
           /\ UNCHANGED tags
  <2>. DEFINE b == [InitBundle EXCEPT !.rootfs = Append(@, Step.arg)]
              img == CommitLayer(b)
  <2>1. img \in Images /\ GoodBundle(RecordParent(b, img))
    BY <1>1, LayerCommitOk
  <2>. QED  BY <1>1, <1>3, <2>1, CachedCommitInv
<1>4. CASE Fail /\ UNCHANGED <<store, tags, cache, image, config>>
  BY <1>4, FailInv
<1>. QED  BY <1>2, <1>3, <1>4 DEF Run

LEMMA CopyFileInv == IInv /\ CopyFile => IInv'
<1>. SUFFICES ASSUME IInv, CopyFile PROVE IInv'
  OBVIOUS
<1>1. Step.op = "COPY" /\ Running
  BY DEF CopyFile
<1>. DEFINE b == [InitBundle EXCEPT !.rootfs = Append(@, Step.arg)]
            img == CommitLayer(b)
<1>2. CASE /\ store' = store \cup {img}
           /\ SetImage(img)
           /\ bundle' = RecordParent(b, img)
           /\ pc' = pc + 1
           /\ UNCHANGED <<tags, cache, builds, status, prog>>
  <2>1. img \in Images /\ GoodBundle(RecordParent(b, img))
    BY <1>1, LayerCommitOk
  <2>2. TypeOK'
    BY <1>1, <1>2, <2>1 DEF IInv, TypeOK, GoodBundle, SetImage, Images, Running
  <2>3. BundleRootfsMatchesParent'
    BY <1>2, <2>1 DEF GoodBundle, BundleRootfsMatchesParent
  <2>. QED  BY <2>2, <2>3 DEF IInv
<1>3. CASE Fail /\ UNCHANGED <<store, tags, cache, image, config>>
  BY <1>3, FailInv
<1>. QED  BY <1>2, <1>3 DEF CopyFile

LEMMA NextInv == IInv /\ [Next]_vars => IInv'
<1>. SUFFICES ASSUME IInv, [Next]_vars PROVE IInv'
  OBVIOUS
<1>1. CASE UNCHANGED vars
  BY <1>1 DEF vars, IInv, TypeOK, BundleRootfsMatchesParent
<1>. QED  BY <1>1, StartBuildInv, FinishBuildInv, FromImageInv, SetConfigInv,
             RunInv, CopyFileInv, TagInv, GCInv DEF Next

-----------------------------------------------------------------------------
(* Tags and the store.  gc removes untagged images between builds, so an  *)
(* image a running build made current can be gone in the next build; the  *)
(* store lookup in cached keeps such an image from becoming current again, *)
(* and every other way to a current image puts it in the store.  So the    *)
(* current image of a running build is in the store, and TAG points a tag  *)
(* only at an image of the store.                                         *)

CurrentInStore == status = "running" /\ image # None => image \in store

SInv == TagsInStore /\ CurrentInStore

(* A step that keeps the tags, only adds to the store, and leaves a       *)
(* current image of the store keeps SInv.                                 *)
LEMMA GrowKeep ==
  ASSUME SInv, store \subseteq store', tags' = tags,
         status' = "running" /\ image' # None => image' \in store'
  PROVE  SInv'
BY DEF SInv, TagsInStore, CurrentInStore

LEMMA FailSInv ==
  ASSUME SInv, Fail, UNCHANGED <<store, tags, cache, image, config>>
  PROVE  SInv'
BY GrowKeep DEF Fail

LEMMA InitSInv == Init => SInv
BY DEF Init, SInv, TagsInStore, CurrentInStore

(* gc runs between builds only and never removes a tagged image. *)
LEMMA GCSInv == SInv /\ GC => SInv'
<1>. SUFFICES ASSUME SInv, GC PROVE SInv'
  OBVIOUS
<1>1. PICK img \in store : /\ \A n \in TagSpace : tags[n] # img
                          /\ store' = store \ {img}
  BY DEF GC
<1>2. TagsInStore'
  BY <1>1 DEF GC, SInv, TagsInStore
<1>3. CurrentInStore'
  BY DEF GC, CurrentInStore
<1>. QED  BY <1>2, <1>3 DEF SInv

LEMMA StartBuildSInv == SInv /\ StartBuild => SInv'
BY GrowKeep DEF StartBuild

LEMMA FinishBuildSInv == SInv /\ FinishBuild => SInv'
BY GrowKeep DEF FinishBuild

(* TAG points the tag at the current image, which is in the store. *)
LEMMA TagSInv == IInv /\ SInv /\ Tag => SInv'
<1>. SUFFICES ASSUME IInv, SInv, Tag PROVE SInv'
  OBVIOUS
<1>1. CASE /\ image # None
           /\ tags' = [tags EXCEPT ![Step.arg] = image]
           /\ pc' = pc + 1
           /\ UNCHANGED <<store, cache, builds, status, prog, image, config, bundle>>
  <2>1. image \in store
    BY <1>1 DEF Tag, Running, SInv, CurrentInStore
  <2>2. TagsInStore'
    BY <1>1, <2>1 DEF SInv, TagsInStore, IInv, TypeOK
  <2>3. CurrentInStore'
    BY <1>1, <2>1 DEF CurrentInStore
  <2>. QED  BY <2>2, <2>3 DEF SInv
<1>2. CASE Fail /\ UNCHANGED <<store, tags, cache, image, config>>
  BY <1>2, FailSInv
<1>. QED  BY <1>1, <1>2 DEF Tag

(* FROM takes a tagged image of the store, or imports the base image and  *)
(* tags it.                                                               *)
LEMMA FromImageSInv == IInv /\ SInv /\ FromImage => SInv'
<1>. SUFFICES ASSUME IInv, SInv, FromImage PROVE SInv'
  OBVIOUS
<1>1. Step.arg \in TagSpace
  <2>1. Step \in Steps /\ Step.op = "FROM"
    BY StepType DEF FromImage, IInv
  <2>. QED  BY <2>1 DEF Steps, TagSpace
<1>2. CASE /\ image = None
           /\ tags[Step.arg] # None
           /\ SetImage(tags[Step.arg])
           /\ pc' = pc + 1
           /\ UNCHANGED <<store, tags, cache, builds, status, prog, bundle>>
  <2>1. tags[Step.arg] \in store
    BY <1>1, <1>2 DEF SInv, TagsInStore
  <2>. QED  BY <1>2, <2>1, GrowKeep DEF SetImage
<1>3. CASE /\ image = None
           /\ tags[Step.arg] = None
           /\ store' = store \cup {BaseImage(Step.arg)}
           /\ tags' = [tags EXCEPT ![Step.arg] = BaseImage(Step.arg)]
           /\ SetImage(BaseImage(Step.arg))
           /\ pc' = pc + 1
           /\ UNCHANGED <<cache, builds, status, prog, bundle>>
  <2>1. TagsInStore'
    BY <1>1, <1>3 DEF SInv, TagsInStore, IInv, TypeOK
  <2>2. CurrentInStore'
    BY <1>3 DEF CurrentInStore, SetImage
  <2>. QED  BY <2>1, <2>2 DEF SInv
<1>4. CASE Fail /\ UNCHANGED <<store, tags, cache, image, config>>
  BY <1>4, FailSInv
<1>. QED  BY <1>2, <1>3, <1>4 DEF FromImage

(* A cache hit is an image of the store. *)
LEMMA CacheHitSInv ==
  ASSUME SInv, NEW s, NEW img \in CacheHits(s), SetImage(img),
         UNCHANGED <<store, tags>>
  PROVE  SInv'
BY GrowKeep DEF CacheHits, SetImage

(* cached commits its image to the store and makes it current. *)
LEMMA CachedCommitSInv ==
  ASSUME SInv, NEW s, NEW img, NEW b, CachedCommit(s, img, b), UNCHANGED tags
  PROVE  SInv'
<1>1. CASE /\ cache' = CachePut(image, s, img)
           /\ bundle' = b
           /\ pc' = pc + 1
           /\ UNCHANGED <<status, builds, prog>>
  BY <1>1, GrowKeep DEF CachedCommit, SetImage
<1>2. CASE UNCHANGED cache /\ StepFailed(s, None)
  BY GrowKeep DEF CachedCommit, SetImage
<1>. QED  BY <1>1, <1>2 DEF CachedCommit

LEMMA SetConfigSInv == SInv /\ SetConfig => SInv'
<1>. SUFFICES ASSUME SInv, SetConfig PROVE SInv'
  OBVIOUS
<1>. DEFINE cfg == NewConfig(Step)
<1>1. CASE /\ CacheHits(Step) # {}
           /\ \E img \in CacheHits(Step) : SetImage(img)
           /\ pc' = pc + 1
           /\ UNCHANGED <<store, tags, cache, builds, status, prog, bundle>>
  BY <1>1, CacheHitSInv
<1>2. CASE /\ CacheHits(Step) = {}
           /\ CachedCommit(Step, CommitConfig(cfg), bundle)
           /\ UNCHANGED tags
  BY <1>2, CachedCommitSInv
<1>3. CASE /\ \/ config' = cfg
              \/ CacheHits(Step) = {}
           /\ UNCHANGED <<store, tags, cache, image>>
  <2>1. status = "running"
    BY DEF SetConfig, Running
  <2>. QED  BY <1>3, <2>1, GrowKeep DEF SInv, CurrentInStore
<1>. QED  BY <1>1, <1>2, <1>3 DEF SetConfig

LEMMA RunSInv == SInv /\ Run => SInv'
<1>. SUFFICES ASSUME SInv, Run PROVE SInv'
  OBVIOUS
<1>1. CASE /\ image # None
           /\ CacheHits(Step) # {}
           /\ \E img \in CacheHits(Step) : SetImage(img)
           /\ pc' = pc + 1
           /\ UNCHANGED <<store, tags, cache, builds, status, prog, bundle>>
  BY <1>1, CacheHitSInv
<1>2. CASE /\ image # None
           /\ CacheHits(Step) = {}
           /\ LET b == [InitBundle EXCEPT !.rootfs = Append(@, Step.arg)]
                  img == CommitLayer(b)
              IN  CachedCommit(Step, img, RecordParent(b, img))
           /\ UNCHANGED tags
  BY <1>2, CachedCommitSInv
<1>3. CASE Fail /\ UNCHANGED <<store, tags, cache, image, config>>
  BY <1>3, FailSInv
<1>. QED  BY <1>1, <1>2, <1>3 DEF Run

LEMMA CopyFileSInv == SInv /\ CopyFile => SInv'
<1>. SUFFICES ASSUME SInv, CopyFile PROVE SInv'
  OBVIOUS
<1>. DEFINE b == [InitBundle EXCEPT !.rootfs = Append(@, Step.arg)]
            img == CommitLayer(b)
<1>1. CASE /\ store' = store \cup {img}
           /\ SetImage(img)
           /\ bundle' = RecordParent(b, img)
           /\ pc' = pc + 1
           /\ UNCHANGED <<tags, cache, builds, status, prog>>
  BY <1>1, GrowKeep DEF SetImage
<1>2. CASE Fail /\ UNCHANGED <<store, tags, cache, image, config>>
  BY <1>2, FailSInv
<1>. QED  BY <1>1, <1>2 DEF CopyFile

LEMMA NextSInv == IInv /\ SInv /\ [Next]_vars => SInv'
<1>. SUFFICES ASSUME IInv, SInv, [Next]_vars PROVE SInv'
  OBVIOUS
<1>1. CASE UNCHANGED vars
  BY <1>1 DEF vars, SInv, TagsInStore, CurrentInStore
<1>. QED  BY <1>1, StartBuildSInv, FinishBuildSInv, FromImageSInv, SetConfigSInv,
             RunSInv, CopyFileSInv, TagSInv, GCSInv DEF Next

-----------------------------------------------------------------------------
(* Theorems *)

(* Every state of every run of builds has the invariant. *)
THEOREM IInvAlways == Spec => []IInv
BY InitInv, NextInv, PTL DEF Spec

(* Spec => []TypeOK: the store, tags, cache, build state and bundle keep  *)
(* their types through every build step, gc and failure.                  *)
THEOREM TypeOKAlways == Spec => []TypeOK
BY IInvAlways, PTL DEF IInv

(* Spec => []BundleRootfsMatchesParent: whenever a bundle is open (from  *)
(* the first RUN/COPY of a build until it ends), its rootfs is the layers *)
(* of the image recorded as its parent, for every set of programs and     *)
(* every number of builds.                                                *)
THEOREM BundleRootfsMatchesParentAlways == Spec => []BundleRootfsMatchesParent
BY IInvAlways, PTL DEF IInv

(* Spec => []TagsInStore: for every set of programs and every number of  *)
(* builds, with gc between them, no tag ever points to an image that is   *)
(* not in the store: cached looks a cache hit up in the store, and gc     *)
(* keeps tagged images.                                                   *)
THEOREM TagsInStoreAlways == Spec => []TagsInStore
<1>1. Init => IInv /\ SInv
  BY InitInv, InitSInv
<1>2. IInv /\ SInv /\ [Next]_vars => (IInv /\ SInv)'
  BY NextInv, NextSInv
<1>3. IInv /\ SInv => TagsInStore
  BY DEF SInv
<1>. QED  BY <1>1, <1>2, <1>3, PTL DEF Spec

=============================================================================
