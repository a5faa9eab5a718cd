------------------------- MODULE SpecBuilderProofs -------------------------
(***************************************************************************)
(* Proofs about the runtime spec builder (module SpecBuilder), for any ids, *)
(* words, ports, euid and id range 1<<32.                                 *)
(*                                                                         *)
(* IInv, the type invariant with RootlessMapsRoot, is inductive: every     *)
(* setter requires status "building", so once Spec has returned nothing   *)
(* changes, and Spec itself writes 0:0 and the single euid mapping for a  *)
(* rootless spec because it either runs proot (as 0:0) or has checked     *)
(* that the user is 0:0; 0 is 0 after the uint32 conversion.             *)
(***************************************************************************)
EXTENDS SpecBuilder, SequenceTheorems, TLAPS

IInv == TypeOK /\ RootlessMapsRoot

(* The proot options, created on first use, are well typed. *)
LEMMA ProotOptsType ==
  ASSUME TypeOK
  PROVE  ProotOpts \in [path : BOOLEAN, ports : Seq(Ports)]
  BY DEF TypeOK, ProotOpts

(* The uint32 conversion maps every natural into the id range, and 0 to 0. *)
LEMMA UInt32Range ==
  ASSUME NEW n \in Nat
  PROVE  /\ UInt32(n) \in 0..(IdModulus - 1)
         /\ n = 0 => UInt32(n) = 0
  BY IdModulusAssumption DEF UInt32

(* The initial state satisfies the invariant. *)
LEMMA InitIInv == Init => IInv
  <1> SUFFICES ASSUME Init PROVE IInv
    OBVIOUS
  <1>1. entrypoint \in Slices /\ cmd \in Slices
    BY DEF Init, Slices
  <1>2. user \in Users
    BY IdsAssumption DEF Init, Users, Root
  <1>. QED
    BY <1>1, <1>2 DEF Init, IInv, TypeOK, RootlessMapsRoot

(* Spec(rootfs) preserves the invariant. *)
LEMMA SpecOkIInv ==
  ASSUME IInv, SpecOk
  PROVE  IInv'
  <1> DEFINE usr == IF proot # None THEN Root ELSE user
  <1>1. usr \in Users /\ usr.uid \in Nat /\ usr.gid \in Nat
    BY IdsAssumption DEF IInv, TypeOK, Users, Root
  <1>2. spec'.uid = UInt32(usr.uid) /\ spec'.gid = UInt32(usr.gid)
    BY DEF SpecOk
  <1>3. TypeOK'
    BY <1>1, <1>2, UInt32Range DEF SpecOk, IInv, TypeOK
  <1>4. rootless => usr = Root
    BY DEF SpecOk, UserAllowed
  <1>5. RootlessMapsRoot'
    <2> SUFFICES ASSUME rootless PROVE RootlessMapsRoot'
      BY DEF SpecOk, RootlessMapsRoot
    <2>1. usr.uid = 0 /\ usr.gid = 0
      BY <1>4 DEF Root
    <2>2. spec'.uid = 0 /\ spec'.gid = 0
      BY <2>1, <1>2, UInt32Range
    <2>3. spec'.uidMap = <<[host |-> Euid, container |-> 0]>>
      BY <2>2, <1>2 DEF SpecOk
    <2>. QED
      BY <2>2, <2>3 DEF SpecOk, RootlessMapsRoot
  <1>. QED
    BY <1>3, <1>5 DEF IInv

(* Every step preserves the invariant. *)
LEMMA NextIInv == IInv /\ [Next]_vars => IInv'
  <1> SUFFICES ASSUME IInv, [Next]_vars PROVE IInv'
    OBVIOUS
  <1> USE DEF IInv, TypeOK, RootlessMapsRoot, Building
  <1>1. CASE ToRootless
    BY <1>1 DEF ToRootless
  <1>2. CASE SetProcessUser
    BY <1>2 DEF SetProcessUser
  <1>3. CASE SetLinuxSeccomp
    BY <1>3 DEF SetLinuxSeccomp
  <1>4. CASE SetPRootPath
    BY <1>4, ProotOptsType DEF SetPRootPath
  <1>5. CASE AddPRootPortMapping
    BY <1>5, ProotOptsType DEF AddPRootPortMapping
  <1>6. CASE SetProcessEntrypoint
    BY <1>6 DEF SetProcessEntrypoint, Slices
  <1>7. CASE SetProcessCmd
    BY <1>7 DEF SetProcessCmd
  <1>8. CASE ApplyImage
    BY <1>8 DEF ApplyImage
  <1>9. CASE SpecFails
    BY <1>9 DEF SpecFails
  <1>10. CASE SpecOk
    BY <1>10, SpecOkIInv
  <1>11. CASE UNCHANGED vars
    BY <1>11 DEF vars
  <1>. QED
    BY <1>1, <1>2, <1>3, <1>4, <1>5, <1>6, <1>7, <1>8, <1>9, <1>10, <1>11
    DEF Next

(* Type correctness of the builder's fields and of the uint32 ids it      *)
(* writes, for every configuration sequence.                               *)
THEOREM TypeOKAlways == Spec => []TypeOK
  BY InitIInv, NextIInv, PTL DEF Spec, IInv

(* A rootless spec always runs the process as root of its user namespace, *)
(* mapped to the caller's euid: Spec never lets a rootless container run  *)
(* natively as another user, for every id range and euid.                 *)
THEOREM RootlessMapsRootAlways == Spec => []RootlessMapsRoot
  BY InitIInv, NextIInv, PTL DEF Spec, IInv

-----------------------------------------------------------------------------
(* The command line with proot.  DoneArgs records what Spec wrote: the     *)
(* args applyEntrypoint built from the final fields and, with proot, the   *)
(* process ids 0:0.  Together with IInv it is inductive for the same      *)
(* reason: nothing changes after Spec returns.                            *)
DoneArgs ==
  status = "done" =>
     /\ spec.args = ApplyEntrypoint(user)
     /\ proot # None => spec.uid = 0 /\ spec.gid = 0

PInv == IInv /\ DoneArgs

(* The values command lines are made of. *)
ArgVals == {"proot", "--kill-on-exit", "-n", "-0", "-i", "-p"}
           \cup Words \cup Ports \cup Users

(* The suffix of a concatenation as long as its right operand is that operand. *)
LEMMA TailOfConcat ==
  ASSUME NEW S, NEW a \in Seq(S), NEW b \in Seq(S)
  PROVE  SubSeq(a \o b, Len(a \o b) - Len(b) + 1, Len(a \o b)) = b
  <1>1. Len(a \o b) = Len(a) + Len(b) /\ Len(a) \in Nat /\ Len(b) \in Nat
    BY ConcatProperties, LenProperties
  <1>2. CASE Len(b) = 0
    <2>1. b = <<>>
      BY <1>2, EmptySeq
    <2>. QED
      BY <1>1, <1>2, <2>1, SubSeqEmpty
  <1>3. CASE Len(b) > 0
    <2>1. SubSeq(a \o b, Len(a) + 1, Len(a) + Len(b)) = SubSeq(b, 1, Len(b))
      BY <1>1, <1>3, SubSeqOfConcat2
    <2>. QED
      BY <1>1, <2>1, SubSeqFull
  <1>. QED
    BY <1>1, <1>2, <1>3

(* Tuples of up to two elements of S are sequences over S. *)
LEMMA ShortTuples ==
  ASSUME NEW S, NEW x \in S, NEW y \in S
  PROVE  <<>> \in Seq(S) /\ <<x>> \in Seq(S) /\ <<x, y>> \in Seq(S)
  <1>1. <<>> \in [1..0 -> S] /\ <<x>> \in [1..1 -> S] /\ <<x, y>> \in [1..2 -> S]
    OBVIOUS
  <1>. QED
    BY <1>1, SeqDef

(* The pieces of a command line are sequences of ArgVals. *)
LEMMA ArgsType ==
  ASSUME NEW ep \in Slices, NEW c \in Slices
  PROVE  Args(ep, c) \in Seq(ArgVals)
  <1>1. ASSUME NEW v \in Slices, v # None PROVE v \in Seq(ArgVals)
    <2>1. Words \subseteq ArgVals
      BY DEF ArgVals
    <2>2. \/ v = <<>>
          \/ \E w \in Words : v = <<w>>
          \/ \E w, x \in Words : v = <<w, x>>
      BY <1>1 DEF Slices
    <2>3. CASE v = <<>>
      BY <2>3, EmptySeq
    <2>4. CASE \E w \in Words : v = <<w>>
      BY <2>1, <2>4, ShortTuples
    <2>5. CASE \E w, x \in Words : v = <<w, x>>
      BY <2>1, <2>5, ShortTuples
    <2>. QED
      BY <2>2, <2>3, <2>4, <2>5
  <1>2. ep # None => ep \in Seq(ArgVals)
    BY <1>1
  <1>3. c # None => c \in Seq(ArgVals)
    BY <1>1
  <1>. QED
    BY <1>2, <1>3, ConcatProperties, EmptySeq DEF Args

LEMMA PortArgsType ==
  ASSUME NEW ps \in Seq(Ports)
  PROVE  PortArgs(ps) \in Seq(ArgVals)
  <1>1. \A n \in 1..(2 * Len(ps)) : n % 2 # 1 => n \div 2 \in 1..Len(ps)
    BY LenProperties
  <1>2. \A n \in 1..(2 * Len(ps)) :
           (IF n % 2 = 1 THEN "-p" ELSE ps[n \div 2]) \in ArgVals
    BY <1>1, LenProperties DEF ArgVals
  <1>. QED
    BY <1>2, LenProperties, IsASeq DEF PortArgs

(* proot's own options: proot, its flags and the user to emulate. *)
LEMMA ProotArgsShape ==
  ASSUME NEW u \in Users
  PROVE  /\ ProotArgs(u) \in Seq(ArgVals)
         /\ Len(ProotArgs(u)) \in {4, 5}
         /\ ProotArgs(u)[1] = "proot"
         /\ u = Root => ProotArgs(u)[4] = "-0"
         /\ u # Root => Len(ProotArgs(u)) = 5 /\ ProotArgs(u)[4] = "-i"
                                           /\ ProotArgs(u)[5] = u
  <1> DEFINE pre == <<"proot", "--kill-on-exit", "-n">>
  <1>1. pre \in Seq(ArgVals) /\ Len(pre) = 3
    BY SeqDef DEF ArgVals
  <1>2. u \in ArgVals /\ "-i" \in ArgVals /\ "-0" \in ArgVals
    BY DEF ArgVals
  <1>3. ProotUserArgs(u) \in Seq(ArgVals)
    BY <1>2, ShortTuples DEF ProotUserArgs
  <1>4. Len(ProotUserArgs(u)) = IF u = Root THEN 1 ELSE 2
    BY DEF ProotUserArgs
  <1>5. ProotArgs(u) = pre \o ProotUserArgs(u)
    BY DEF ProotArgs
  <1>. QED
    BY <1>1, <1>3, <1>4, <1>5, ConcatProperties DEF ProotUserArgs

(* Indexing into a concatenation within its left operand. *)
LEMMA ConcatPrefix ==
  ASSUME NEW S, NEW a \in Seq(S), NEW b \in Seq(S), NEW k \in 1..Len(a)
  PROVE  (a \o b)[k] = a[k]
  BY ConcatProperties, LenProperties

(* The initial state satisfies PInv. *)
LEMMA InitPInv == Init => PInv
  BY InitIInv DEF Init, PInv, DoneArgs

(* Every step preserves PInv. *)
LEMMA NextPInv == PInv /\ [Next]_vars => PInv'
  <1> SUFFICES ASSUME PInv, [Next]_vars PROVE PInv'
    OBVIOUS
  <1>1. IInv'
    BY NextIInv DEF PInv
  <1> SUFFICES DoneArgs'
    BY <1>1 DEF PInv
  <1>2. CASE SpecOk
    <2>1. spec'.args = ApplyEntrypoint(user)'
      BY <1>2 DEF SpecOk, ApplyEntrypoint, Args, PortArgs, ProotArgs,
         ProotUserArgs
    <2>2. proot' # None => spec'.uid = 0 /\ spec'.gid = 0
      BY <1>2, IdModulusAssumption DEF SpecOk, UInt32, Root
    <2>. QED
      BY <2>1, <2>2 DEF DoneArgs
  <1>3. CASE ~SpecOk /\ Next
    <2>1. status = "building" => status' # "done"
      BY <1>3 DEF Next, ToRootless, SetProcessUser, SetLinuxSeccomp,
         SetPRootPath, AddPRootPortMapping, SetProcessEntrypoint,
         SetProcessCmd, ApplyImage, SpecFails, Building
    <2>2. status # "building" => UNCHANGED vars
      BY <1>3 DEF Next, ToRootless, SetProcessUser, SetLinuxSeccomp,
         SetPRootPath, AddPRootPortMapping, SetProcessEntrypoint,
         SetProcessCmd, ApplyImage, SpecFails, Building
    <2>. QED
      BY <2>1, <2>2 DEF PInv, DoneArgs, ApplyEntrypoint, vars, Args,
         PortArgs, ProotArgs, ProotUserArgs, IInv, TypeOK
  <1>4. CASE UNCHANGED vars
    BY <1>4 DEF PInv, DoneArgs, ApplyEntrypoint, vars, Args, PortArgs,
       ProotArgs, ProotUserArgs
  <1>. QED
    BY <1>2, <1>3, <1>4

(* DoneArgs implies ProotEmulatesUser: the command line starts with       *)
(* proot's options for the user and ends with the entrypoint and cmd.      *)
LEMMA PInvProot == PInv => ProotEmulatesUser
  <1> SUFFICES ASSUME PInv, status = "done", proot # None
               PROVE  ProotEmulatesUser
    BY DEF ProotEmulatesUser
  <1> DEFINE P == ProotArgs(user)
             Q == PortArgs(proot.ports)
             A == Args(entrypoint, cmd)
  <1>1. user \in Users /\ proot.ports \in Seq(Ports)
        /\ entrypoint \in Slices /\ cmd \in Slices
    BY DEF PInv, IInv, TypeOK
  <1>2. P \in Seq(ArgVals) /\ Q \in Seq(ArgVals) /\ A \in Seq(ArgVals)
    BY <1>1, ProotArgsShape, PortArgsType, ArgsType
  <1>3. spec.args = (P \o Q) \o A /\ spec.uid = 0 /\ spec.gid = 0
    BY DEF PInv, DoneArgs, ApplyEntrypoint
  <1>4. P \o Q \in Seq(ArgVals) /\ Len(P \o Q) >= Len(P)
    BY <1>2, ConcatProperties, LenProperties
  <1>5. \A k \in 1..Len(P) : spec.args[k] = P[k]
    <2> SUFFICES ASSUME NEW k \in 1..Len(P) PROVE spec.args[k] = P[k]
      OBVIOUS
    <2>1. (P \o Q)[k] = P[k]
      BY <1>2, ConcatPrefix
    <2>2. k \in 1..Len(P \o Q)
      BY <1>2, <1>4, LenProperties
    <2>3. ((P \o Q) \o A)[k] = (P \o Q)[k]
      BY <1>2, <1>4, <2>2, ConcatPrefix
    <2>. QED
      BY <1>3, <2>1, <2>3
  <1>6. /\ spec.args[1] = "proot"
        /\ user = Root => spec.args[4] = "-0"
        /\ user # Root => spec.args[4] = "-i" /\ spec.args[5] = user
    BY <1>1, <1>5, ProotArgsShape
  <1>7. SubSeq(spec.args, Len(spec.args) - Len(A) + 1, Len(spec.args)) = A
    BY <1>2, <1>3, <1>4, TailOfConcat
  <1>. QED
    BY <1>3, <1>6, <1>7 DEF ProotEmulatesUser

(* With proot, Spec always runs proot as 0:0, tells it to emulate exactly   *)
(* the configured user (-0 for root, -i user otherwise) and passes the     *)
(* entrypoint and cmd unchanged after the port mappings, for every user,   *)
(* every sequence of setters and any number of port mappings.             *)
THEOREM ProotEmulatesUserAlways == Spec => []ProotEmulatesUser
  <1>1. Init => PInv
    BY InitPInv
  <1>2. PInv /\ [Next]_vars => PInv'
    BY NextPInv
  <1>3. PInv => ProotEmulatesUser
    BY PInvProot
  <1>. QED
    BY <1>1, <1>2, <1>3, PTL DEF Spec

=============================================================================
