---------------------------- MODULE SpecBuilder ----------------------------
(***************************************************************************)
(* The OCI runtime spec builder of src/unnamed/part_000 (package builder,  *)
(* type SpecBuilder): callers configure it with any sequence of its        *)
(* methods and finally call Spec(rootfs), which resolves the user, checks  *)
(* the rootless and proot constraints, and writes process args, uid/gid,   *)
(* the rootless uid/gid mapping and the default seccomp profile.           *)
(*                                                                         *)
(* Abstractions: entrypoint and cmd are None (a nil slice) or a sequence   *)
(* of model values; a user is a record of numeric uid and gid, as          *)
(* idutils.User.Resolve returns them, with the widths of the code: Go int  *)
(* for the resolved ids, uint32 in the runtime spec.  Mounts, env,         *)
(* capabilities, annotations and namespaces are left out: no property      *)
(* here is about them.                                                     *)
(***************************************************************************)
EXTENDS Naturals, Sequences

CONSTANTS
  Ids,          \* the uids and gids a user may resolve to
  Words,        \* the words of entrypoints and commands
  Ports,        \* proot port mappings "published:target"
  MaxPorts,     \* bound on AddPRootPortMapping calls
  Euid,         \* os.Geteuid() of the calling process
  IdModulus,    \* 1<<32: the range of uid and gid in the runtime spec
  None          \* a nil slice, no proot options, no spec

ASSUME IdsAssumption == Ids \subseteq Nat /\ 0 \in Ids
ASSUME EuidAssumption == Euid \in Nat
ASSUME MaxPortsAssumption == MaxPorts \in Nat
ASSUME IdModulusAssumption == IdModulus \in Nat \ {0}

Users == [uid : Ids, gid : Ids]
Root == [uid |-> 0, gid |-> 0]

(* A slice of Words of length at most 2, or nil. *)
Slices == {None} \cup {<<>>} \cup {<<w>> : w \in Words} \cup
          {<<w, v>> : w, v \in Words}

(* The uint32 conversion of the uid and gid fields of the runtime spec;  *)
(* IdModulus is also the bound of Spec's range check (1<<32 for both).   *)
UInt32(n) == n % IdModulus

VARIABLES
  entrypoint,     \* SpecBuilder.entrypoint
  cmd,            \* SpecBuilder.cmd
  user,           \* SpecBuilder.user
  rootless,       \* SpecBuilder.rootless
  customSeccomp,  \* SpecBuilder.customSeccomp
  proot,          \* SpecBuilder.proot: None or [path : BOOLEAN, ports]
  spec,           \* the generated process and mapping fields, or None
  status          \* "building", "done" (Spec returned) or "failed"

vars == <<entrypoint, cmd, user, rootless, customSeccomp, proot, spec, status>>

Building == status = "building"

(* The proot options after the first use creates them. *)
ProotOpts == IF proot = None THEN [path |-> FALSE, ports |-> <<>>] ELSE proot

-----------------------------------------------------------------------------
(* applyEntrypoint: entrypoint followed by cmd, behind the proot command   *)
(* line when proot is used; proot emulates root with -0 and any other      *)
(* user with -i user.                                                      *)
Args(ep, c) ==
  IF ep # None /\ c # None THEN ep \o c
  ELSE IF ep # None THEN ep
  ELSE IF c # None THEN c
  ELSE <<>>

PortArgs(ps) == [n \in 1..(2 * Len(ps)) |->
                   IF n % 2 = 1 THEN "-p" ELSE ps[n \div 2]]

ProotUserArgs(u) == IF u = Root THEN <<"-0">> ELSE <<"-i", u>>

ProotArgsAsRoot(u) == <<"proot", "--kill-on-exit", "-n">> \o ProotUserArgs(Root)
ProotArgs(u) == <<"proot", "--kill-on-exit", "-n">> \o ProotUserArgs(u)

ApplyEntrypoint(u) ==
  IF proot = None THEN Args(entrypoint, cmd)
  ELSE ProotArgs(u) \o PortArgs(proot.ports) \o Args(entrypoint, cmd)

-----------------------------------------------------------------------------
(* Operations of SpecBuilder *)

ToRootless ==
  /\ Building
  /\ rootless' = TRUE
  /\ UNCHANGED <<entrypoint, cmd, user, customSeccomp, proot, spec, status>>

SetProcessUser ==
  /\ Building
  /\ \E u \in Users : user' = u
  /\ UNCHANGED <<entrypoint, cmd, rootless, customSeccomp, proot, spec, status>>

(* SetLinuxSeccomp and SetLinuxSeccompUnconfined install a custom profile. *)
SetLinuxSeccomp ==
  /\ Building
  /\ customSeccomp' = TRUE
  /\ UNCHANGED <<entrypoint, cmd, user, rootless, proot, spec, status>>

SetPRootPath ==
  /\ Building
  /\ proot' = [ProotOpts EXCEPT !.path = TRUE]
  /\ UNCHANGED <<entrypoint, cmd, user, rootless, customSeccomp, spec, status>>

AddPRootPortMapping ==
  /\ Building
  /\ Len(ProotOpts.ports) < MaxPorts
  /\ \E p \in Ports : proot' = [ProotOpts EXCEPT !.ports = Append(@, p)]
  /\ UNCHANGED <<entrypoint, cmd, user, rootless, customSeccomp, spec, status>>

(* SetProcessEntrypoint also drops the cmd. *)
SetProcessEntrypoint ==
  /\ Building
  /\ \E v \in Slices : entrypoint' = v
  /\ cmd' = None
  /\ UNCHANGED <<user, rootless, customSeccomp, proot, spec, status>>

SetProcessCmd ==
  /\ Building
  /\ \E v \in Slices : cmd' = v
  /\ UNCHANGED <<entrypoint, user, rootless, customSeccomp, proot, spec, status>>

(* ApplyImage: user, entrypoint and cmd of the image config. *)
ApplyImage ==
  /\ Building
  /\ \E u \in Users, ep, c \in Slices :
       /\ user' = u
       /\ entrypoint' = ep
       /\ cmd' = c
  /\ UNCHANGED <<rootless, customSeccomp, proot, spec, status>>

(* Spec(rootfs): resolve the user (which may fail), reject ids beyond the  *)
(* IdModulus bound, require a proot path when proot options exist, run proot   *)
(* as 0:0, reject other users when rootless without proot; then write the  *)
(* args, the uint32 uid/gid, the rootless mapping and the seccomp profile. *)
(* The rootless constraint: without proot only 0:0 is supported. *)
UserAllowedAlways == TRUE
UserAllowed == proot = None /\ rootless => user = Root

SpecFails ==
  /\ Building
  /\ status' = "failed"
  /\ UNCHANGED <<entrypoint, cmd, user, rootless, customSeccomp, proot, spec>>

SpecOk ==
  /\ Building
  /\ user.uid <= IdModulus
  /\ user.gid <= IdModulus
  /\ proot # None => proot.path
  /\ UserAllowed
  /\ LET usr == IF proot # None THEN Root ELSE user
     IN  spec' = [args |-> ApplyEntrypoint(user),
                  uid |-> UInt32(usr.uid),
                  gid |-> UInt32(usr.gid),
                  uidMap |-> IF rootless
                             THEN <<[host |-> Euid, container |-> UInt32(usr.uid)]>>
                             ELSE <<>>,
                  seccomp |-> IF customSeccomp THEN "custom" ELSE "default"]
  /\ status' = "done"
  /\ UNCHANGED <<entrypoint, cmd, user, rootless, customSeccomp, proot>>

-----------------------------------------------------------------------------

(* NewSpecBuilder: user 0:0 (the zero User), nothing set. *)
Init ==
  /\ entrypoint = None
  /\ cmd = None
  /\ user = Root
  /\ rootless = FALSE
  /\ customSeccomp = FALSE
  /\ proot = None
  /\ spec = None
  /\ status = "building"

Next ==
  \/ ToRootless
  \/ SetProcessUser
  \/ SetLinuxSeccomp
  \/ SetPRootPath
  \/ AddPRootPortMapping
  \/ SetProcessEntrypoint
  \/ SetProcessCmd
  \/ ApplyImage
  \/ SpecFails
  \/ SpecOk

Spec == Init /\ [][Next]_vars

-----------------------------------------------------------------------------
(* Properties *)

TypeOK ==
  /\ entrypoint \in Slices
  /\ cmd \in Slices
  /\ user \in Users
  /\ rootless \in BOOLEAN
  /\ customSeccomp \in BOOLEAN
  /\ proot = None \/ proot \in [path : BOOLEAN, ports : Seq(Ports)]
  /\ status \in {"building", "done", "failed"}
  /\ spec = None \/ spec.uid \in 0..(IdModulus - 1)

(* A rootless container's process is root inside its user namespace, and *)
(* the only mapping maps the caller's euid to that root: Spec rejects any  *)
(* other user unless proot emulates it.                                    *)
RootlessMapsRoot ==
  (status = "done" /\ rootless) =>
     /\ spec.uid = 0 /\ spec.gid = 0
     /\ spec.uidMap = <<[host |-> Euid, container |-> 0]>>

(* With proot the process runs as 0:0 and proot is told to emulate the    *)
(* configured user: -0 for root, -i user for anyone else, followed by the  *)
(* port mappings and the image's entrypoint and cmd.                       *)
ProotEmulatesUser ==
  (status = "done" /\ proot # None) =>
     /\ spec.uid = 0 /\ spec.gid = 0
     /\ spec.args[1] = "proot"
     /\ user = Root => spec.args[4] = "-0"
     /\ user # Root => spec.args[4] = "-i" /\ spec.args[5] = user
     /\ SubSeq(spec.args, Len(spec.args) - Len(Args(entrypoint, cmd)) + 1,
               Len(spec.args)) = Args(entrypoint, cmd)

(* Without proot the process runs as exactly the resolved user id, or     *)
(* Spec fails with "uid exceeds range": no uid is silently changed, in     *)
(* particular no user becomes root.                                        *)
NativeUserPreserved ==
  (status = "done" /\ proot = None) => spec.uid = user.uid

=============================================================================
