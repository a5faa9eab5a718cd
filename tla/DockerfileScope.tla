--------------------------- MODULE DockerfileScope ---------------------------
(***************************************************************************)
(* The variable scopes of the Dockerfile parser of                        *)
(* src/image/builder/dockerfile/dockerfile.go: LoadDockerfile reads the    *)
(* instructions in order; ARG and ENV fill the per-stage maps envMap,      *)
(* runEnvMap and varScope, FROM resets them, ENV values are substituted    *)
(* from varScope and RUN takes a copy of runEnvMap as extra environment.   *)
(* Every other instruction substitutes its arguments from varScope and     *)
(* adds an operation (MAINTAINER without substitution); FROM substitutes   *)
(* its image name before it resets the maps.  The result is the list of    *)
(* operations later applied to an ImageBuilder, or the first error.        *)
(*                                                                         *)
(* A Go map from names to strings is a function on Keys whose absent      *)
(* entries are Empty: arg stores a value only when it is not empty, and    *)
(* subst expands an unset name to the empty string.  An ENV instruction    *)
(* sets one variable; a value is a literal or a reference $k.  Arguments   *)
(* other than the one substituted value (flags, label keys, paths) are     *)
(* left out: substitution treats them all alike.                           *)
(***************************************************************************)
EXTENDS Naturals, Sequences

CONSTANTS
  Keys,         \* variable names
  Vals,         \* non-empty literal values
  Empty,        \* the empty string
  BuildArgs,    \* the --build-arg values: a function on a subset of Keys
  Dockerfiles   \* the instruction lists LoadDockerfile is called with

Refs == [ref : Keys]

(* The instructions that only substitute and add an operation. *)
SubstOps == {"COPY", "ADD", "LABEL", "USER", "WORKDIR", "EXPOSE", "VOLUME",
             "STOPSIGNAL"}

Instructions ==
  [op : {"FROM"}, image : Vals \cup Refs] \cup
  [op : SubstOps \cup {"MAINTAINER"}, val : Vals \cup Refs] \cup
  [op : {"ARG"}, key : Keys, dflt : Vals \cup {Empty}] \cup
  [op : {"ENV"}, key : Keys, val : Vals \cup Refs] \cup
  [op : {"RUN"}]

ASSUME EmptyAssumption == Empty \notin Vals
ASSUME BuildArgsAssumption ==
  /\ DOMAIN BuildArgs \subseteq Keys
  /\ \A k \in DOMAIN BuildArgs : BuildArgs[k] \in Vals \cup {Empty}
ASSUME DockerfilesAssumption == \A d \in Dockerfiles : d \in Seq(Instructions)

VARIABLES
  df,         \* the instructions being read
  i,          \* the index of the next instruction
  envMap,     \* the names declared by ENV in this stage
  runEnvMap,  \* ARG values passed to RUN as environment
  varScope,   \* the values substitution uses
  warned,     \* the names arg warned about as shadowed by an ENV
  ops,        \* the operations added so far: [op, at, env, val]
  failed      \* LoadDockerfile returned an error

vars == <<df, i, envMap, runEnvMap, varScope, warned, ops, failed>>

NoVars == [k \in Keys |-> Empty]

Instr == df[i]

(* The next instruction is read: LoadDockerfile has not returned. *)
Reading == i <= Len(df) /\ ~failed

(* The fields resetState clears. *)
ResetKeepScope ==
  /\ envMap' = {}
  /\ runEnvMap' = NoVars
  /\ varScope' = varScope
ResetState ==
  /\ envMap' = {}
  /\ runEnvMap' = NoVars
  /\ varScope' = NoVars

(* subst: lex.ProcessWord expands $k from varScope, an unset k to "". *)
SubstUnresolved(v) == v
Subst(v) == IF v \in Refs THEN varScope[v.ref] ELSE v

(* arg: a --build-arg overrides the default. *)
ArgValue(ins) ==
  IF ins.key \in DOMAIN BuildArgs THEN BuildArgs[ins.key] ELSE ins.dflt

-----------------------------------------------------------------------------

(* LoadDockerfile: a new builder with reset state. *)
Init ==
  /\ df \in Dockerfiles
  /\ i = 1
  /\ envMap = {}
  /\ runEnvMap = NoVars
  /\ varScope = NoVars
  /\ warned = {}
  /\ ops = <<>>
  /\ failed = FALSE

(* An operation that adds no environment. *)
Op(op, v) == [op |-> op, at |-> i, env |-> NoVars, val |-> v]

(* from: substitute the image name (in the scope of the stage before),    *)
(* then reset the stage's variables and add the FromImage operation.     *)
From ==
  /\ Reading
  /\ Instr.op = "FROM"
  /\ ops' = Append(ops, Op("FROM", Subst(Instr.image)))
  /\ ResetState
  /\ i' = i + 1
  /\ UNCHANGED <<df, warned, failed>>

(* arg: an ARG of a name ENV declared is only warned about; a non-empty *)
(* value goes into runEnvMap and varScope.                               *)
Arg ==
  /\ Reading
  /\ Instr.op = "ARG"
  /\ LET k == Instr.key
         v == ArgValue(Instr)
     IN  \/ /\ k \in envMap
            /\ warned' = warned \cup {k}
            /\ UNCHANGED <<runEnvMap, varScope>>
         \/ /\ k \notin envMap
            /\ runEnvMap' = IF v = Empty THEN runEnvMap
                            ELSE [runEnvMap EXCEPT ![k] = v]
            /\ varScope' = IF v = Empty THEN varScope
                           ELSE [varScope EXCEPT ![k] = v]
            /\ UNCHANGED warned
  /\ i' = i + 1
  /\ UNCHANGED <<df, envMap, ops, failed>>

(* env: substitute the value, add the AddEnv operation, record the name *)
(* in envMap and the value in varScope.                                  *)
Env ==
  /\ Reading
  /\ Instr.op = "ENV"
  /\ LET k == Instr.key
         v == Subst(Instr.val)
     IN  /\ ops' = Append(ops, [op |-> "ENV", at |-> i,
                                env |-> [NoVars EXCEPT ![k] = v], val |-> v])
         /\ envMap' = envMap \cup {k}
         /\ varScope' = [varScope EXCEPT ![k] = v]
  /\ i' = i + 1
  /\ UNCHANGED <<df, runEnvMap, warned, failed>>

(* run: add the Run operation with a copy of runEnvMap. *)
Run ==
  /\ Reading
  /\ Instr.op = "RUN"
  /\ ops' = Append(ops, [op |-> "RUN", at |-> i, env |-> runEnvMap, val |-> Empty])
  /\ i' = i + 1
  /\ UNCHANGED <<df, envMap, runEnvMap, varScope, warned, failed>>

(* copy (COPY and ADD), label, user, workdir, exposePorts, volume and     *)
(* stopsignal: substitute the arguments and add the operation.            *)
AddSubstituted(op) ==
  /\ Reading
  /\ Instr.op = op
  /\ ops' = Append(ops, Op(op, Subst(Instr.val)))
  /\ i' = i + 1
  /\ UNCHANGED <<df, envMap, runEnvMap, varScope, warned, failed>>

Copy == AddSubstituted("COPY") \/ AddSubstituted("ADD")

Label == AddSubstituted("LABEL")

User == AddSubstituted("USER")

Workdir == AddSubstituted("WORKDIR")

ExposePorts == AddSubstituted("EXPOSE")

Volume == AddSubstituted("VOLUME")

StopSignal == AddSubstituted("STOPSIGNAL")

(* maintainer: the words joined, without substitution. *)
Maintainer ==
  /\ Reading
  /\ Instr.op = "MAINTAINER"
  /\ ops' = Append(ops, Op("MAINTAINER", Instr.val))
  /\ i' = i + 1
  /\ UNCHANGED <<df, envMap, runEnvMap, varScope, warned, failed>>

(* readNode's error return: an incomplete instruction, an unsupported    *)
(* flag, a wrong argument count or a substitution error ends             *)
(* LoadDockerfile at any instruction.                                    *)
ReadError ==
  /\ Reading
  /\ failed' = TRUE
  /\ UNCHANGED <<df, i, envMap, runEnvMap, varScope, warned, ops>>

Next ==
  \/ From \/ Arg \/ Env \/ Run \/ Copy \/ Label \/ User \/ Workdir
  \/ ExposePorts \/ Volume \/ StopSignal \/ Maintainer \/ ReadError

Spec == Init /\ [][Next]_vars

-----------------------------------------------------------------------------
(* Properties *)

TypeOK ==
  /\ df \in Seq(Instructions)
  /\ i \in 1..(Len(df) + 1)
  /\ envMap \subseteq Keys
  /\ runEnvMap \in [Keys -> Vals \cup {Empty}]
  /\ varScope \in [Keys -> Vals \cup {Empty}]
  /\ warned \subseteq Keys
  /\ failed \in BOOLEAN
  /\ ops \in Seq([op : SubstOps \cup {"FROM", "ENV", "RUN", "MAINTAINER"},
                  at : 1..Len(df),
                  env : [Keys -> Vals \cup {Empty}],
                  val : Vals \cup Refs \cup {Empty}])
  /\ \A n \in 1..Len(ops) : ops[n].op = df[ops[n].at].op

(* The instructions of the stage instruction j belongs to that precede j: *)
(* those after the last FROM before j.                                     *)
StageBefore(j) ==
  {m \in 1..(j - 1) : \A f \in m..(j - 1) : df[f].op # "FROM"}

(* k was set to v by an ARG or an ENV of the stage of j, before j. *)
SetInStage(k, v, j) ==
  \E m \in StageBefore(j) :
     \/ df[m].op = "ARG" /\ df[m].key = k /\ ArgValue(df[m]) = v
     \/ df[m].op = "ENV" /\ df[m].key = k /\
        \E n \in 1..Len(ops) : ops[n].at = m /\ ops[n].val = v

(* Stages are isolated (the multistage test's BASEVAR and BASEARG): every *)
(* variable a RUN receives comes from an ARG of its own stage with that    *)
(* value, and every $k that ENV, COPY, ADD, LABEL, USER, WORKDIR, EXPOSE,  *)
(* VOLUME or STOPSIGNAL expands to a non-empty value was set by an ARG or  *)
(* ENV of its own stage.                                                   *)
StageIsolation ==
  \A n \in 1..Len(ops) :
     /\ ops[n].op = "RUN" =>
          \A k \in Keys : ops[n].env[k] # Empty =>
             \E m \in StageBefore(ops[n].at) :
                df[m].op = "ARG" /\ df[m].key = k /\
                ArgValue(df[m]) = ops[n].env[k]
     /\ (/\ ops[n].op \in SubstOps \cup {"ENV"}
         /\ df[ops[n].at].val \in Refs
         /\ ops[n].val # Empty) =>
          SetInStage(df[ops[n].at].val.ref, ops[n].val, ops[n].at)

(* Spec S2 and the description of runEnvMap: ARG values not shadowed by an *)
(* ENV are passed to RUN; a name declared by ENV is never in runEnvMap.    *)
RunEnvExcludesEnvKeys ==
  \A k \in envMap : runEnvMap[k] = Empty

-----------------------------------------------------------------------------
(* The inductive strengthening of StageIsolation that                    *)
(* DockerfileScopeProofs proves: what the maps hold while a stage is read *)
(* already satisfies what StageIsolation demands of the operations that    *)
(* copy them, with the stage of the next instruction i.                    *)

(* Every variable runEnvMap passes to RUN was set by an ARG of this stage. *)
RunEnvFromArgs ==
  \A k \in Keys : runEnvMap[k] # Empty =>
     \E m \in StageBefore(i) :
        df[m].op = "ARG" /\ df[m].key = k /\ ArgValue(df[m]) = runEnvMap[k]

(* Every value substitution can expand to was set in this stage. *)
ScopeFromStage ==
  \A k \in Keys : varScope[k] # Empty => SetInStage(k, varScope[k], i)

Inv == TypeOK /\ RunEnvFromArgs /\ ScopeFromStage /\ StageIsolation

=============================================================================
