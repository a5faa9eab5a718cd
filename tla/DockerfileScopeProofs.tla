------------------------- MODULE DockerfileScopeProofs -------------------------
(***************************************************************************)
(* Proofs about the variable scopes of LoadDockerfile (module              *)
(* DockerfileScope), for every set of keys and values, every --build-arg   *)
(* map and every Dockerfile.                                               *)
(*                                                                         *)
(* StageIsolation is not inductive: a RUN or a substitution copies what    *)
(* runEnvMap and varScope hold, so the maps themselves must already be     *)
(* confined to the current stage.  Inv adds that (RunEnvFromArgs and      *)
(* ScopeFromStage).  FROM empties the maps and starts a new stage; every   *)
(* other instruction extends the stage by itself, so what the maps held    *)
(* stays justified, and ARG and ENV justify what they add by themselves.   *)
(*                                                                         *)
(* The invariants are restated through operators of the Dockerfile d, the  *)
(* operations o and the maps, so that the lemmas about them apply to the   *)
(* state before and after a step alike.                                    *)
(***************************************************************************)
EXTENDS DockerfileScope, TLAPS

(* The instructions before j in j's stage. *)
SB(d, j) == {m \in 1..(j - 1) : \A f \in m..(j - 1) : d[f].op # "FROM"}

(* Instruction m is an ARG setting k to v. *)
ArgSets(d, m, k, v) ==
  d[m].op = "ARG" /\ d[m].key = k /\ ArgValue(d[m]) = v

(* Instruction m is an ENV whose operation in o set k to v. *)
EnvSets(d, o, m, k, v) ==
  /\ d[m].op = "ENV"
  /\ d[m].key = k
  /\ \E n \in 1..Len(o) : o[n].at = m /\ o[n].val = v

SIS(d, o, k, v, j) == \E m \in SB(d, j) : ArgSets(d, m, k, v) \/ EnvSets(d, o, m, k, v)

RE(d, j, r) ==
  \A k \in Keys : r[k] # Empty => \E m \in SB(d, j) : ArgSets(d, m, k, r[k])

SF(d, o, j, s) == \A k \in Keys : s[k] # Empty => SIS(d, o, k, s[k], j)

RunOk(d, x) ==
  x.op = "RUN" =>
     \A k \in Keys : x.env[k] # Empty =>
        \E m \in SB(d, x.at) : ArgSets(d, m, k, x.env[k])

SubstOk(d, o, x) ==
  (/\ x.op \in SubstOps \cup {"ENV"}
   /\ d[x.at].val \in Refs
   /\ x.val # Empty) => SIS(d, o, d[x.at].val.ref, x.val, x.at)

SI(d, o) == \A n \in 1..Len(o) : RunOk(d, o[n]) /\ SubstOk(d, o, o[n])

-----------------------------------------------------------------------------
(* The invariants of DockerfileScope are these operators of the state. *)
LEMMA Rewrite ==
  /\ RunEnvFromArgs = RE(df, i, runEnvMap)
  /\ ScopeFromStage = SF(df, ops, i, varScope)
  /\ StageIsolation = SI(df, ops)
  /\ RunEnvFromArgs' = RE(df', i', runEnvMap')
  /\ ScopeFromStage' = SF(df', ops', i', varScope')
  /\ StageIsolation' = SI(df', ops')
  BY DEF RunEnvFromArgs, ScopeFromStage, StageIsolation, SetInStage,
         StageBefore, RE, SF, SI, RunOk, SubstOk, SIS, ArgSets, EnvSets, SB

(* An instruction that is not FROM extends the stage by itself. *)
LEMMA SBGrow ==
  ASSUME NEW d, NEW j \in Nat \ {0}, d[j].op # "FROM"
  PROVE  SB(d, j) \cup {j} \subseteq SB(d, j + 1)
  BY DEF SB

(* What was set in a stage stays set when the stage grows and operations *)
(* are appended.                                                          *)
LEMMA SISMono ==
  ASSUME NEW d, NEW o, NEW o2, NEW k, NEW v, NEW j, NEW j2,
         SIS(d, o, k, v, j),
         SB(d, j) \subseteq SB(d, j2),
         \A n \in 1..Len(o) : n \in 1..Len(o2) /\ o2[n] = o[n]
  PROVE  SIS(d, o2, k, v, j2)
  <1>1. PICK m \in SB(d, j) : ArgSets(d, m, k, v) \/ EnvSets(d, o, m, k, v)
    BY DEF SIS
  <1>2. ArgSets(d, m, k, v) \/ EnvSets(d, o2, m, k, v)
    BY <1>1 DEF EnvSets
  <1>. QED
    BY <1>1, <1>2 DEF SIS

(* A step that is not FROM keeps the maps justified when it leaves them   *)
(* alone.                                                                  *)
LEMMA KeepMaps ==
  ASSUME NEW d, NEW j \in Nat \ {0}, d[j].op # "FROM",
         NEW o, NEW o2, \A n \in 1..Len(o) : n \in 1..Len(o2) /\ o2[n] = o[n],
         NEW r, NEW s, RE(d, j, r), SF(d, o, j, s)
  PROVE  RE(d, j + 1, r) /\ SF(d, o2, j + 1, s)
  <1>1. SB(d, j) \subseteq SB(d, j + 1)
    BY SBGrow
  <1>2. RE(d, j + 1, r)
    BY <1>1 DEF RE
  <1>3. SF(d, o2, j + 1, s)
    BY <1>1, SISMono DEF SF
  <1>. QED
    BY <1>2, <1>3

(* Appending an operation that satisfies StageIsolation keeps it. *)
LEMMA SIAppend ==
  ASSUME NEW d, NEW S, NEW o \in Seq(S), NEW x \in S,
         SI(d, o), RunOk(d, x), SubstOk(d, Append(o, x), x)
  PROVE  SI(d, Append(o, x))
  <1> DEFINE o2 == Append(o, x)
  <1>1. Len(o2) = Len(o) + 1 /\ o2[Len(o) + 1] = x
        /\ \A n \in 1..Len(o) : n \in 1..Len(o2) /\ o2[n] = o[n]
    OBVIOUS
  <1>2. SUFFICES ASSUME NEW n \in 1..Len(o2)
                 PROVE  RunOk(d, o2[n]) /\ SubstOk(d, o2, o2[n])
    BY DEF SI
  <1>3. CASE n = Len(o) + 1
    BY <1>1, <1>3
  <1>4. CASE n \in 1..Len(o)
    <2>1. RunOk(d, o[n]) /\ SubstOk(d, o, o[n])
      BY <1>4 DEF SI
    <2>2. SubstOk(d, o2, o[n])
      BY <2>1, <1>1, SISMono DEF SubstOk
    <2>. QED
      BY <1>1, <1>4, <2>1, <2>2
  <1>. QED
    BY <1>3, <1>4

-----------------------------------------------------------------------------
(* Types *)

(* The operations TypeOK allows. *)
OpRec ==
  [op : SubstOps \cup {"FROM", "ENV", "RUN", "MAINTAINER"},
   at : 1..Len(df),
   env : [Keys -> Vals \cup {Empty}],
   val : Vals \cup Refs \cup {Empty}]

(* The fields of an instruction, by its op. *)
LEMMA InstrType ==
  ASSUME NEW ins \in Instructions
  PROVE  /\ ins.op \in SubstOps \cup {"FROM", "ARG", "ENV", "RUN", "MAINTAINER"}
         /\ ins.op = "FROM" => ins.image \in Vals \cup Refs
         /\ ins.op = "ARG" => ins.key \in Keys /\ ins.dflt \in Vals \cup {Empty}
         /\ ins.op = "ENV" => ins.key \in Keys
         /\ ins.op \in SubstOps \cup {"ENV", "MAINTAINER"} => ins.val \in Vals \cup Refs
  BY DEF Instructions, SubstOps

(* An ARG's value is a value or empty. *)
LEMMA ArgValueType ==
  ASSUME NEW ins \in Instructions, ins.op = "ARG"
  PROVE  ArgValue(ins) \in Vals \cup {Empty}
  BY InstrType, BuildArgsAssumption DEF ArgValue

(* Substitution yields a value or empty; a reference expands from varScope. *)
LEMMA SubstType ==
  ASSUME varScope \in [Keys -> Vals \cup {Empty}], NEW v \in Vals \cup Refs
  PROVE  /\ Subst(v) \in Vals \cup {Empty}
         /\ v \in Refs => Subst(v) = varScope[v.ref]
  BY DEF Subst, Refs

(* The instruction being read. *)
LEMMA ReadingInstr ==
  ASSUME TypeOK, Reading
  PROVE  i \in 1..Len(df) /\ Instr \in Instructions
  BY DEF TypeOK, Reading, Instr

-----------------------------------------------------------------------------
(* The initial state satisfies the invariant. *)
LEMMA InitInv == Init => Inv
  <1> SUFFICES ASSUME Init PROVE Inv
    OBVIOUS
  <1>1. TypeOK
    <2>1. df \in Seq(Instructions)
      BY DockerfilesAssumption DEF Init
    <2>2. ops \in Seq(OpRec) /\ Len(ops) = 0
      BY DEF Init
    <2>3. i \in 1..(Len(df) + 1)
      BY <2>1 DEF Init
    <2>4. runEnvMap \in [Keys -> Vals \cup {Empty}] /\ varScope \in [Keys -> Vals \cup {Empty}]
      BY DEF Init, NoVars
    <2>5. envMap \subseteq Keys /\ warned \subseteq Keys /\ failed \in BOOLEAN
      BY DEF Init
    <2>. QED
      BY <2>1, <2>2, <2>3, <2>4, <2>5 DEF TypeOK, OpRec
  <1>2. RE(df, i, runEnvMap) /\ SF(df, ops, i, varScope) /\ SI(df, ops)
    BY DEF Init, NoVars, RE, SF, SI
  <1>. QED
    BY <1>1, <1>2, Rewrite DEF Inv

(* A step that reads instruction i (not FROM), appends an operation x for *)
(* it and leaves the maps alone preserves the invariant when x satisfies   *)
(* StageIsolation.                                                          *)
LEMMA AppendStep ==
  ASSUME Inv, i \in 1..Len(df), df[i].op # "FROM",
         NEW x \in OpRec, x.op = df[i].op, x.at = i,
         ops' = Append(ops, x), i' = i + 1,
         UNCHANGED <<df, envMap, runEnvMap, varScope, failed>>,
         warned' \subseteq Keys,
         RunOk(df, x), SubstOk(df, ops', x)
  PROVE  Inv'
  <1>1. ops \in Seq(OpRec)
    BY DEF Inv, TypeOK, OpRec
  <1>2. \A n \in 1..Len(ops) : n \in 1..Len(ops') /\ ops'[n] = ops[n]
    BY <1>1
  <1>3. TypeOK'
    <2>1. ops' \in Seq(OpRec)
      BY <1>1
    <2>2. \A n \in 1..Len(ops') : ops'[n].op = df'[ops'[n].at].op
      BY <1>1, <1>2 DEF Inv, TypeOK
    <2>. QED
      BY <2>1, <2>2 DEF Inv, TypeOK, OpRec
  <1>4. RE(df, i + 1, runEnvMap) /\ SF(df, ops', i + 1, varScope)
    <2>1. RE(df, i, runEnvMap) /\ SF(df, ops, i, varScope)
      BY Rewrite DEF Inv
    <2>2. i \in Nat \ {0}
      OBVIOUS
    <2>. QED
      BY <1>2, <2>1, <2>2, KeepMaps
  <1>5. SI(df, ops')
    BY <1>1, SIAppend, Rewrite DEF Inv
  <1>. QED
    BY <1>3, <1>4, <1>5, Rewrite DEF Inv

(* The operations appended so far stay where they are. *)
LEMMA AppendPrefix ==
  ASSUME NEW S, NEW o \in Seq(S), NEW x
  PROVE  \A n \in 1..Len(o) : n \in 1..Len(Append(o, x)) /\ Append(o, x)[n] = o[n]
  OBVIOUS

(* A substituted value that is not empty was set in the stage, and stays   *)
(* so once the operation holding it is appended.                          *)
LEMMA SubstInStage ==
  ASSUME Inv, i \in 1..Len(df), NEW w \in Vals \cup Refs, NEW x,
         ops' = Append(ops, x), w \in Refs, Subst(w) # Empty
  PROVE  SIS(df, ops', w.ref, Subst(w), i)
  <1>1. w.ref \in Keys /\ Subst(w) = varScope[w.ref]
    BY DEF Refs, Subst
  <1>2. SIS(df, ops, w.ref, Subst(w), i)
    BY <1>1, Rewrite DEF Inv, SF
  <1>3. ops \in Seq(OpRec)
    BY DEF Inv, TypeOK, OpRec
  <1>4. \A n \in 1..Len(ops) : n \in 1..Len(ops') /\ ops'[n] = ops[n]
    BY <1>3, AppendPrefix
  <1>5. SB(df, i) \subseteq SB(df, i)
    OBVIOUS
  <1>. QED
    BY <1>2, <1>4, <1>5, SISMono

(* RUN: the environment it copies was set by ARGs of its stage. *)
LEMMA RunInv ==
  ASSUME Inv, Run
  PROVE  Inv'
  <1>1. i \in 1..Len(df) /\ df[i].op = "RUN"
    BY ReadingInstr DEF Run, Inv, Instr
  <1> DEFINE x == [op |-> "RUN", at |-> i, env |-> runEnvMap, val |-> Empty]
  <1>2. x \in OpRec
    BY <1>1 DEF Inv, TypeOK, OpRec
  <1>3. RunOk(df, x)
    BY Rewrite DEF Inv, RE, RunOk
  <1>4. SubstOk(df, ops', x)
    BY DEF SubstOk, SubstOps
  <1>. QED
    BY <1>1, <1>2, <1>3, <1>4, AppendStep DEF Run, Inv, TypeOK

(* COPY, ADD, LABEL, USER, WORKDIR, EXPOSE, VOLUME and STOPSIGNAL: what   *)
(* they expand was set in their stage.                                     *)
LEMMA AddSubstitutedInv ==
  ASSUME Inv, NEW op \in SubstOps, AddSubstituted(op)
  PROVE  Inv'
  <1>1. i \in 1..Len(df) /\ df[i] \in Instructions /\ df[i].op = op
    BY ReadingInstr DEF AddSubstituted, Inv, Instr
  <1>2. df[i].val \in Vals \cup Refs
    BY <1>1, InstrType
  <1> DEFINE x == Op(op, Subst(df[i].val))
  <1>3. ops' = Append(ops, x)
    BY DEF AddSubstituted, Instr
  <1>4. x \in OpRec
    BY <1>1, <1>2, SubstType DEF Op, NoVars, OpRec, Inv, TypeOK
  <1>5. RunOk(df, x)
    BY DEF RunOk, Op, SubstOps
  <1>6. SubstOk(df, ops', x)
    BY <1>1, <1>2, <1>3, SubstInStage DEF SubstOk, Op
  <1>. QED
    BY <1>1, <1>3, <1>4, <1>5, <1>6, AppendStep
    DEF AddSubstituted, Op, SubstOps, Inv, TypeOK

(* MAINTAINER: nothing is substituted. *)
LEMMA MaintainerInv ==
  ASSUME Inv, Maintainer
  PROVE  Inv'
  <1>1. i \in 1..Len(df) /\ df[i] \in Instructions /\ df[i].op = "MAINTAINER"
    BY ReadingInstr DEF Maintainer, Inv, Instr
  <1>2. df[i].val \in Vals \cup Refs
    BY <1>1, InstrType
  <1> DEFINE x == Op("MAINTAINER", df[i].val)
  <1>3. x \in OpRec
    BY <1>1, <1>2 DEF Op, NoVars, OpRec
  <1>4. RunOk(df, x) /\ SubstOk(df, ops', x)
    BY DEF RunOk, SubstOk, Op, SubstOps
  <1>. QED
    BY <1>1, <1>3, <1>4, AppendStep DEF Maintainer, Op, Instr, Inv, TypeOK

(* FROM: the maps are emptied and a new stage begins. *)
LEMMA FromInv ==
  ASSUME Inv, From
  PROVE  Inv'
  <1>1. i \in 1..Len(df) /\ df[i] \in Instructions /\ df[i].op = "FROM"
    BY ReadingInstr DEF From, Inv, Instr
  <1>2. df[i].image \in Vals \cup Refs
    BY <1>1, InstrType
  <1> DEFINE x == Op("FROM", Subst(df[i].image))
  <1>3. /\ ops' = Append(ops, x) /\ i' = i + 1
        /\ envMap' = {} /\ runEnvMap' = NoVars /\ varScope' = NoVars
        /\ UNCHANGED <<df, warned, failed>>
    BY DEF From, ResetState, Instr
  <1>4. x \in OpRec
    BY <1>1, <1>2, SubstType DEF Op, NoVars, OpRec, Inv, TypeOK
  <1>5. ops \in Seq(OpRec)
    BY DEF Inv, TypeOK, OpRec
  <1>6. TypeOK'
    <2>1. ops' \in Seq(OpRec)
      BY <1>3, <1>4, <1>5
    <2>2. \A n \in 1..Len(ops') : ops'[n].op = df'[ops'[n].at].op
      BY <1>1, <1>3, <1>5 DEF Inv, TypeOK, Op
    <2>3. i' \in 1..(Len(df') + 1)
      BY <1>1, <1>3
    <2>4. runEnvMap' \in [Keys -> Vals \cup {Empty}]
          /\ varScope' \in [Keys -> Vals \cup {Empty}]
      BY <1>3 DEF NoVars
    <2>5. /\ envMap' \subseteq Keys /\ warned' \subseteq Keys
          /\ failed' \in BOOLEAN /\ df' \in Seq(Instructions)
      BY <1>3 DEF Inv, TypeOK
    <2>. QED
      BY <1>3, <2>1, <2>2, <2>3, <2>4, <2>5 DEF TypeOK, OpRec
  <1>7. RE(df', i', runEnvMap') /\ SF(df', ops', i', varScope')
    BY <1>3 DEF RE, SF, NoVars
  <1>8. SI(df', ops')
    <2>1. RunOk(df, x) /\ SubstOk(df, ops', x)
      BY DEF RunOk, SubstOk, Op, SubstOps
    <2>. QED
      BY <1>3, <1>4, <1>5, <2>1, SIAppend, Rewrite DEF Inv
  <1>. QED
    BY <1>6, <1>7, <1>8, Rewrite DEF Inv

(* An error ends LoadDockerfile: only failed changes. *)
LEMMA ReadErrorInv ==
  ASSUME Inv, ReadError
  PROVE  Inv'
  <1>1. TypeOK'
    BY DEF ReadError, Inv, TypeOK
  <1>. QED
    BY <1>1, Rewrite DEF ReadError, Inv

(* ENV: the value it stores is justified by the ENV itself, and what it   *)
(* expands was set in its stage.                                           *)
LEMMA EnvInv ==
  ASSUME Inv, Env
  PROVE  Inv'
  <1>1. i \in 1..Len(df) /\ df[i] \in Instructions /\ df[i].op = "ENV"
    BY ReadingInstr DEF Env, Inv, Instr
  <1> DEFINE k == df[i].key
             v == Subst(df[i].val)
             x == [op |-> "ENV", at |-> i, env |-> [NoVars EXCEPT ![k] = v],
                   val |-> v]
  <1>2. k \in Keys /\ df[i].val \in Vals \cup Refs
    BY <1>1, InstrType
  <1>3. v \in Vals \cup {Empty}
    BY <1>2, SubstType DEF Inv, TypeOK
  <1>4. /\ ops' = Append(ops, x) /\ i' = i + 1
        /\ envMap' = envMap \cup {k} /\ varScope' = [varScope EXCEPT ![k] = v]
        /\ UNCHANGED <<df, runEnvMap, warned, failed>>
    BY DEF Env, Instr
  <1>5. x \in OpRec /\ ops \in Seq(OpRec)
    BY <1>1, <1>2, <1>3 DEF OpRec, NoVars, Inv, TypeOK
  <1>6. \A n \in 1..Len(ops) : n \in 1..Len(ops') /\ ops'[n] = ops[n]
    BY <1>4, <1>5, AppendPrefix
  <1>7. TypeOK'
    <2>1. ops' \in Seq(OpRec)
      BY <1>4, <1>5
    <2>2. \A n \in 1..Len(ops') : ops'[n].op = df'[ops'[n].at].op
      BY <1>1, <1>4, <1>5 DEF Inv, TypeOK
    <2>3. i' \in 1..(Len(df') + 1)
      BY <1>1, <1>4
    <2>4. varScope' \in [Keys -> Vals \cup {Empty}] /\ envMap' \subseteq Keys
      BY <1>2, <1>3, <1>4 DEF Inv, TypeOK
    <2>. QED
      BY <1>4, <2>1, <2>2, <2>3, <2>4 DEF Inv, TypeOK, OpRec
  <1>8. RE(df, i + 1, runEnvMap) /\ SF(df, ops', i + 1, varScope)
    <2>1. RE(df, i, runEnvMap) /\ SF(df, ops, i, varScope)
      BY Rewrite DEF Inv
    <2>2. i \in Nat \ {0} /\ df[i].op # "FROM"
      BY <1>1
    <2>. QED
      BY <1>6, <2>1, <2>2, KeepMaps, Zenon
  <1>9. SF(df, ops', i + 1, varScope')
    <2> SUFFICES ASSUME NEW kk \in Keys, varScope'[kk] # Empty
                 PROVE  SIS(df, ops', kk, varScope'[kk], i + 1)
      BY DEF SF
    <2>1. CASE kk = k
      <3>0. i \in Nat \ {0} /\ df[i].op # "FROM"
        BY <1>1
      <3>1. i \in SB(df, i + 1)
        BY <3>0, SBGrow
      <3>2. varScope'[kk] = v
        BY <2>1, <1>2, <1>4 DEF Inv, TypeOK
      <3>3. EnvSets(df, ops', i, k, v)
        BY <1>1, <1>4, <1>5 DEF EnvSets
      <3>. QED
        BY <2>1, <3>1, <3>2, <3>3 DEF SIS
    <2>5. CASE kk # k
      BY <2>5, <1>4, <1>8 DEF SF, Inv, TypeOK
    <2>. QED
      BY <2>1, <2>5
  <1>10. SI(df, ops')
    <2>1. RunOk(df, x)
      BY DEF RunOk
    <2>2. SubstOk(df, ops', x)
      BY <1>1, <1>2, <1>4, SubstInStage DEF SubstOk
    <2>3. SI(df, ops)
      BY Rewrite DEF Inv
    <2>. QED
      BY <1>4, <1>5, <2>1, <2>2, <2>3, SIAppend
  <1>. QED
    BY <1>4, <1>7, <1>8, <1>9, <1>10, Rewrite DEF Inv

(* ARG: the value it stores is justified by the ARG itself. *)
LEMMA ArgInv ==
  ASSUME Inv, Arg
  PROVE  Inv'
  <1>1. i \in 1..Len(df) /\ df[i] \in Instructions /\ df[i].op = "ARG"
    BY ReadingInstr DEF Arg, Inv, Instr
  <1> DEFINE k == df[i].key
             v == ArgValue(df[i])
  <1>2. k \in Keys /\ v \in Vals \cup {Empty}
    BY <1>1, InstrType, ArgValueType
  <1>3. /\ i' = i + 1 /\ UNCHANGED <<df, envMap, ops, failed>>
        /\ \/ /\ warned' = warned \cup {k}
              /\ UNCHANGED <<runEnvMap, varScope>>
           \/ /\ runEnvMap' = IF v = Empty THEN runEnvMap
                              ELSE [runEnvMap EXCEPT ![k] = v]
              /\ varScope' = IF v = Empty THEN varScope
                             ELSE [varScope EXCEPT ![k] = v]
              /\ UNCHANGED warned
    BY DEF Arg, Instr
  <1>4. \A n \in 1..Len(ops) : n \in 1..Len(ops') /\ ops'[n] = ops[n]
    BY <1>3
  <1>5. RE(df, i + 1, runEnvMap) /\ SF(df, ops, i + 1, varScope)
    <2>1. RE(df, i, runEnvMap) /\ SF(df, ops, i, varScope)
      BY Rewrite DEF Inv
    <2>2. \A n \in 1..Len(ops) : n \in 1..Len(ops) /\ ops[n] = ops[n]
      OBVIOUS
    <2>3. i \in Nat \ {0} /\ df[i].op # "FROM"
      BY <1>1
    <2>. QED
      BY <2>1, <2>2, <2>3, KeepMaps
  <1>6. i \in SB(df, i + 1) /\ ArgSets(df, i, k, v)
    <2>1. i \in Nat \ {0} /\ df[i].op # "FROM"
      BY <1>1
    <2>. QED
      BY <1>1, <2>1, SBGrow DEF ArgSets
  <1>7. TypeOK'
    <2>1. runEnvMap' \in [Keys -> Vals \cup {Empty}]
          /\ varScope' \in [Keys -> Vals \cup {Empty}]
          /\ warned' \subseteq Keys
      BY <1>2, <1>3 DEF Inv, TypeOK
    <2>2. i' \in 1..(Len(df') + 1)
      BY <1>1, <1>3
    <2>. QED
      BY <1>3, <2>1, <2>2 DEF Inv, TypeOK
  <1>8. RE(df, i + 1, runEnvMap')
    <2> SUFFICES ASSUME NEW kk \in Keys, runEnvMap'[kk] # Empty
                 PROVE  \E m \in SB(df, i + 1) : ArgSets(df, m, kk, runEnvMap'[kk])
      BY DEF RE
    <2>1. CASE runEnvMap'[kk] = runEnvMap[kk]
      BY <2>1, <1>5 DEF RE
    <2>2. CASE runEnvMap'[kk] # runEnvMap[kk]
      <3>1. kk = k /\ runEnvMap'[kk] = v
        BY <2>2, <1>2, <1>3 DEF Inv, TypeOK
      <3>. QED
        BY <3>1, <1>6
    <2>. QED
      BY <2>1, <2>2
  <1>9. SF(df, ops, i + 1, varScope')
    <2> SUFFICES ASSUME NEW kk \in Keys, varScope'[kk] # Empty
                 PROVE  SIS(df, ops, kk, varScope'[kk], i + 1)
      BY DEF SF
    <2>1. CASE varScope'[kk] = varScope[kk]
      BY <2>1, <1>5 DEF SF
    <2>2. CASE varScope'[kk] # varScope[kk]
      <3>1. kk = k /\ varScope'[kk] = v
        BY <2>2, <1>2, <1>3 DEF Inv, TypeOK
      <3>. QED
        BY <3>1, <1>6 DEF SIS
    <2>. QED
      BY <2>1, <2>2
  <1>. QED
    BY <1>3, <1>7, <1>8, <1>9, Rewrite DEF Inv

(* A stuttering step preserves the invariant. *)
LEMMA StutterInv ==
  ASSUME Inv, UNCHANGED vars
  PROVE  Inv'
  <1>1. TypeOK'
    BY DEF vars, Inv, TypeOK
  <1>. QED
    BY <1>1, Rewrite DEF vars, Inv

(* Every step of LoadDockerfile preserves the invariant. *)
LEMMA NextInv == Inv /\ [Next]_vars => Inv'
  <1> SUFFICES ASSUME Inv, [Next]_vars PROVE Inv'
    OBVIOUS
  <1>1. CASE From
    BY <1>1, FromInv
  <1>2. CASE Arg
    BY <1>2, ArgInv
  <1>3. CASE Env
    BY <1>3, EnvInv
  <1>4. CASE Run
    BY <1>4, RunInv
  <1>5. CASE \E op \in SubstOps : AddSubstituted(op)
    BY <1>5, AddSubstitutedInv
  <1>6. CASE Maintainer
    BY <1>6, MaintainerInv
  <1>7. CASE ReadError
    BY <1>7, ReadErrorInv
  <1>8. CASE UNCHANGED vars
    BY <1>8, StutterInv
  <1>9. Copy \/ Label \/ User \/ Workdir \/ ExposePorts \/ Volume \/ StopSignal
        => \E op \in SubstOps : AddSubstituted(op)
    BY DEF Copy, Label, User, Workdir, ExposePorts, Volume, StopSignal, SubstOps
  <1>. QED
    BY <1>1, <1>2, <1>3, <1>4, <1>5, <1>6, <1>7, <1>8, <1>9 DEF Next

-----------------------------------------------------------------------------
(* The invariant holds in every state of every run of LoadDockerfile. *)
THEOREM InvAlways == Spec => []Inv
  BY InitInv, NextInv, PTL DEF Spec

(* Types, for every Dockerfile: in particular every operation records the *)
(* instruction it was read from, and substitution only yields values.     *)
THEOREM TypeOKAlways == Spec => []TypeOK
  BY InvAlways, PTL DEF Inv

(* Stages are isolated for every Dockerfile and every --build-arg map:    *)
(* RUN only receives ARG values of its own stage, and ENV, COPY, ADD,      *)
(* LABEL, USER, WORKDIR, EXPOSE, VOLUME and STOPSIGNAL only expand         *)
(* variables set in their own stage, since FROM's resetState empties all   *)
(* three maps.                                                             *)
THEOREM StageIsolationAlways == Spec => []StageIsolation
  BY InvAlways, PTL DEF Inv

=============================================================================
