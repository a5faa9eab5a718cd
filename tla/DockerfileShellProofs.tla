------------------------ MODULE DockerfileShellProofs ------------------------
(***************************************************************************)
(* Proofs about the command lines of module DockerfileShell: whatever the *)
(* Dockerfile, when LoadDockerfile returns every command's slice holds    *)
(* the program and flags it was read with (ProgramKept).                  *)
(*                                                                         *)
(* The writes that make CommandKept fail go to the shell's backing array  *)
(* just past s.shell's length.  An operation whose slice lives in the     *)
(* shell's array is one longer than s.shell and agrees with it below;     *)
(* every other slice lives in an array nothing writes any more.           *)
(***************************************************************************)
EXTENDS DockerfileShell, SequenceTheorems, TLAPS

(* The values a cell of a backing array holds. *)
Cell == Words \cup Texts \cup {"unset"}

(* The slices into the heap h: the capacity is the backing array's length. *)
Slices(h) ==
  {sl \in [arr : 1..Len(h), len : Nat, cap : Nat] :
     sl.cap = Len(h[sl.arr]) /\ sl.len <= sl.cap}

OpRec(h) == [op : CmdOps, at : Nat, args : Slices(h), expect : Seq(Cell)]

IType ==
  /\ df \in Seq(Instructions)
  /\ i \in 1..(Len(df) + 1)
  /\ heap \in Seq(Seq(Cell))
  /\ shell \in Slices(heap)
  /\ ops \in Seq(OpRec(heap))

(* The operation o's slice in heap h is as long as the command it was read *)
(* with and agrees with it on everything but its last word.               *)
Agree(o, h) ==
  /\ o.args.len = Len(o.expect)
  /\ \A k \in 1..(Len(o.expect) - 1) : h[o.args.arr][k] = o.expect[k]

(* An operation whose slice shares the shell slice sh's backing array is  *)
(* one longer than sh, and sh's words are the start of its command.       *)
OnShell(o, h, sh) ==
  o.args.arr = sh.arr =>
     /\ o.args.len = sh.len + 1
     /\ \A k \in 1..sh.len : h[sh.arr][k] = o.expect[k]

IInv ==
  /\ IType
  /\ \A n \in 1..Len(ops) : Agree(ops[n], heap) /\ OnShell(ops[n], heap, shell)

-----------------------------------------------------------------------------
(* Lemmas on arrays and slices *)

(* append's growth never leaves fewer cells than elements. *)
LEMMA GrownCapBound ==
  ASSUME NEW n \in Nat
  PROVE  GrownCap(n) \in Nat /\ n <= GrownCap(n)
  <1> DEFINE P2 == {c \in n..(2 * n - 1) : \E k \in 0..n : c = 2^k}
  <1>1. CASE P2 = {}
    BY <1>1 DEF GrownCap
  <1>2. CASE P2 # {}
    <2>1. (CHOOSE c \in P2 : TRUE) \in P2
      BY <1>2
    <2>. QED  BY <1>2, <2>1 DEF GrownCap
  <1>. QED  BY <1>1, <1>2

(* A new backing array of capacity c holding s. *)
LEMMA NewArrayProps ==
  ASSUME NEW s \in Seq(Cell), NEW c \in Nat, Len(s) <= c
  PROVE  /\ NewArray(s, c) \in Seq(Cell)
         /\ Len(NewArray(s, c)) = c
         /\ \A k \in 1..Len(s) : NewArray(s, c)[k] = s[k]
  <1>1. "unset" \in Cell
    BY DEF Cell
  <1>. QED  BY <1>1 DEF NewArray

(* What a slice sees: its first len cells. *)
LEMMA ViewProps ==
  ASSUME NEW h \in Seq(Seq(Cell)), NEW sl \in Slices(h)
  PROVE  LET v == SubSeq(h[sl.arr], 1, sl.len)
         IN  /\ v \in Seq(Cell)
             /\ Len(v) = sl.len
             /\ \A k \in 1..sl.len : v[k] = h[sl.arr][k]
  <1>1. h[sl.arr] \in Seq(Cell) /\ sl.len \in 0..Len(h[sl.arr])
    BY DEF Slices
  <1>. QED  BY <1>1, SubSeqProperties

(* Appending a backing array keeps the others and every slice into them. *)
LEMMA HeapAppend ==
  ASSUME NEW h \in Seq(Seq(Cell)), NEW a \in Seq(Cell)
  PROVE  /\ Append(h, a) \in Seq(Seq(Cell))
         /\ Len(Append(h, a)) = Len(h) + 1
         /\ Append(h, a)[Len(h) + 1] = a
         /\ \A j \in 1..Len(h) : Append(h, a)[j] = h[j]
         /\ Slices(h) \subseteq Slices(Append(h, a))
         /\ OpRec(h) \subseteq OpRec(Append(h, a))
  <1>1. /\ Append(h, a) \in Seq(Seq(Cell))
        /\ Len(Append(h, a)) = Len(h) + 1
        /\ Append(h, a)[Len(h) + 1] = a
        /\ \A j \in 1..Len(h) : Append(h, a)[j] = h[j]
    BY AppendProperties
  <1>2. Slices(h) \subseteq Slices(Append(h, a))
    BY <1>1 DEF Slices
  <1>. QED  BY <1>1, <1>2 DEF OpRec

(* An operation whose slice is a fresh array holding its whole command:  *)
(* exec-form commands, and shell-form ones when append had to grow.       *)
LEMMA FreshOp ==
  ASSUME NEW h \in Seq(Seq(Cell)), NEW e \in Seq(Cell), NEW c \in Nat,
         Len(e) <= c, NEW o \in CmdOps, NEW at \in Nat
  PROVE  LET h2 == Append(h, NewArray(e, c))
             x == [op |-> o, at |-> at,
                   args |-> [arr |-> Len(h) + 1, len |-> Len(e), cap |-> c],
                   expect |-> e]
         IN  /\ h2 \in Seq(Seq(Cell))
             /\ x \in OpRec(h2)
             /\ Agree(x, h2)
  <1> DEFINE A == NewArray(e, c)
             h2 == Append(h, A)
             sl == [arr |-> Len(h) + 1, len |-> Len(e), cap |-> c]
  <1>1. A \in Seq(Cell) /\ Len(A) = c /\ \A k \in 1..Len(e) : A[k] = e[k]
    BY NewArrayProps
  <1>2. h2 \in Seq(Seq(Cell)) /\ Len(h2) = Len(h) + 1 /\ h2[Len(h) + 1] = A
    BY <1>1, HeapAppend
  <1>3. sl \in Slices(h2)
    BY <1>1, <1>2 DEF Slices
  <1>4. \A k \in 1..(Len(e) - 1) : h2[Len(h) + 1][k] = e[k]
    BY <1>1, <1>2
  <1>. QED  BY <1>2, <1>3, <1>4 DEF OpRec, Agree

(* Appending an array keeps what an operation in an older array agrees  *)
(* with, and relates it to a shell slice in an older array alike.        *)
LEMMA KeepOp ==
  ASSUME NEW h \in Seq(Seq(Cell)), NEW a \in Seq(Cell), NEW o \in OpRec(h),
         NEW sh \in Slices(h), Agree(o, h), OnShell(o, h, sh)
  PROVE  Agree(o, Append(h, a)) /\ OnShell(o, Append(h, a), sh)
  <1>1. o.args.arr \in 1..Len(h) /\ sh.arr \in 1..Len(h)
    BY DEF OpRec, Slices
  <1>2. /\ Append(h, a)[o.args.arr] = h[o.args.arr]
        /\ Append(h, a)[sh.arr] = h[sh.arr]
    BY <1>1, HeapAppend
  <1>. QED  BY <1>2 DEF Agree, OnShell

(* An operation in an older array shares nothing with a fresh shell.    *)
LEMMA FreshShell ==
  ASSUME NEW h, NEW o \in OpRec(h), NEW sh, NEW hh, sh.arr = Len(h) + 1
  PROVE  OnShell(o, hh, sh)
  <1>1. o.args.arr \in 1..Len(h)
    BY DEF OpRec, Slices
  <1>. QED  BY <1>1 DEF OnShell

(* The instruction a command handler reads is exec form with words or    *)
(* shell form with a text.                                                *)
LEMMA CmdInstr ==
  ASSUME NEW ins \in Instructions, ins.op \in CmdOps
  PROVE  \/ ins.json = TRUE /\ ins.words \in Seq(Words)
         \/ ins.json = FALSE /\ ins.text \in Texts
  BY DEF Instructions, CmdOps

(* append(s.shell, t) with room left writes t into the cell just past    *)
(* the shell's length: nothing else changes.                              *)
LEMMA InPlaceHeap ==
  ASSUME NEW h \in Seq(Seq(Cell)), NEW sh \in Slices(h), sh.len < sh.cap,
         NEW t \in Cell
  PROVE  LET h2 == [h EXCEPT ![sh.arr][sh.len + 1] = t]
         IN  /\ h2 \in Seq(Seq(Cell))
             /\ Len(h2) = Len(h)
             /\ \A a \in 1..Len(h) : a # sh.arr => h2[a] = h[a]
             /\ Len(h2[sh.arr]) = Len(h[sh.arr])
             /\ \A k \in 1..sh.len : h2[sh.arr][k] = h[sh.arr][k]
             /\ h2[sh.arr][sh.len + 1] = t
  <1> DEFINE h2 == [h EXCEPT ![sh.arr][sh.len + 1] = t]
             E == [h[sh.arr] EXCEPT ![sh.len + 1] = t]
  <1>1. /\ sh.arr \in 1..Len(h) /\ sh.len \in Nat
        /\ sh.len + 1 \in 1..Len(h[sh.arr])
        /\ h[sh.arr] \in Seq(Cell)
    BY DEF Slices
  <1>2. h2[sh.arr] = E
    BY <1>1
  <1>3a. /\ E \in Seq(Cell)
         /\ Len(E) = Len(h[sh.arr])
         /\ \A k \in 1..sh.len : E[k] = h[sh.arr][k]
         /\ E[sh.len + 1] = t
    BY <1>1, ExceptSeq
  <1>3. /\ h2[sh.arr] \in Seq(Cell)
        /\ Len(h2[sh.arr]) = Len(h[sh.arr])
        /\ \A k \in 1..sh.len : h2[sh.arr][k] = h[sh.arr][k]
        /\ h2[sh.arr][sh.len + 1] = t
    BY <1>2, <1>3a, Zenon
  <1>4. /\ h2 \in Seq(Seq(Cell))
        /\ Len(h2) = Len(h)
        /\ \A a \in 1..Len(h) : a # sh.arr => h2[a] = h[a]
    BY <1>1, <1>3
  <1>. QED  BY <1>3, <1>4

(* The in-place write keeps every array's length, so the same slices and *)
(* operation records are well formed before and after.                   *)
LEMMA InPlaceTypes ==
  ASSUME NEW h \in Seq(Seq(Cell)), NEW sh \in Slices(h), sh.len < sh.cap,
         NEW t \in Cell
  PROVE  LET h2 == [h EXCEPT ![sh.arr][sh.len + 1] = t]
         IN  Slices(h2) = Slices(h) /\ OpRec(h2) = OpRec(h)
  <1> DEFINE h2 == [h EXCEPT ![sh.arr][sh.len + 1] = t]
  <1>1. /\ Len(h2) = Len(h)
        /\ \A a \in 1..Len(h) : a # sh.arr => h2[a] = h[a]
        /\ Len(h2[sh.arr]) = Len(h[sh.arr])
    BY InPlaceHeap
  <1>2. sh.arr \in 1..Len(h)
    BY DEF Slices
  <1>3. \A a \in 1..Len(h) : Len(h2[a]) = Len(h[a])
    BY <1>1, <1>2
  <1>4. Slices(h2) = Slices(h)
    BY <1>1, <1>3 DEF Slices
  <1>. QED  BY <1>4 DEF OpRec

(* The in-place write keeps every operation's agreement: one in the      *)
(* shell's array is one longer than the shell, so the cell written is    *)
(* its last.                                                              *)
LEMMA InPlaceKeep ==
  ASSUME NEW h \in Seq(Seq(Cell)), NEW sh \in Slices(h), sh.len < sh.cap,
         NEW t \in Cell, NEW o \in OpRec(h), Agree(o, h), OnShell(o, h, sh)
  PROVE  LET h2 == [h EXCEPT ![sh.arr][sh.len + 1] = t]
         IN  Agree(o, h2) /\ OnShell(o, h2, sh)
  <1> DEFINE h2 == [h EXCEPT ![sh.arr][sh.len + 1] = t]
  <1>1. /\ \A a \in 1..Len(h) : a # sh.arr => h2[a] = h[a]
        /\ \A k \in 1..sh.len : h2[sh.arr][k] = h[sh.arr][k]
    <2>1. h \in Seq(Seq(Cell)) /\ sh \in Slices(h) /\ sh.len < sh.cap /\ t \in Cell
      OBVIOUS
    <2>. QED  BY <2>1, InPlaceHeap
  <1>2. o.args.arr \in 1..Len(h)
    BY DEF OpRec, Slices
  <1>3. CASE o.args.arr # sh.arr
    BY <1>1, <1>2, <1>3 DEF Agree, OnShell
  <1>4. CASE o.args.arr = sh.arr
    <2>1. o.args.len = sh.len + 1 /\ o.args.len = Len(o.expect)
      BY <1>4 DEF OnShell, Agree
    <2>2. \A k \in 1..(Len(o.expect) - 1) : h2[o.args.arr][k] = o.expect[k]
      BY <1>1, <1>4, <2>1 DEF Agree
    <2>3. \A k \in 1..sh.len : h2[sh.arr][k] = o.expect[k]
      BY <1>1, <1>4 DEF OnShell
    <2>. QED  BY <2>1, <2>2, <2>3 DEF Agree, OnShell
  <1>. QED  BY <1>3, <1>4

(* The operation of a shell-form command appended in place: it shares  *)
(* the shell's array and is the shell's words plus its text.             *)
LEMMA InPlaceOp ==
  ASSUME NEW h \in Seq(Seq(Cell)), NEW sh \in Slices(h), sh.len < sh.cap,
         NEW t \in Cell, NEW o \in CmdOps, NEW at \in Nat
  PROVE  LET h2 == [h EXCEPT ![sh.arr][sh.len + 1] = t]
             x == [op |-> o, at |-> at, args |-> [sh EXCEPT !.len = @ + 1],
                   expect |-> Append(SubSeq(h[sh.arr], 1, sh.len), t)]
         IN  x \in OpRec(h2) /\ Agree(x, h2) /\ OnShell(x, h2, sh)
  <1> DEFINE h2 == [h EXCEPT ![sh.arr][sh.len + 1] = t]
             v == SubSeq(h[sh.arr], 1, sh.len)
             e == Append(v, t)
             sl == [sh EXCEPT !.len = @ + 1]
  <1>1. v \in Seq(Cell) /\ Len(v) = sh.len /\ \A k \in 1..sh.len : v[k] = h[sh.arr][k]
    BY ViewProps
  <1>2. e \in Seq(Cell) /\ Len(e) = sh.len + 1 /\ \A k \in 1..sh.len : e[k] = v[k]
    BY <1>1
  <1>0. sh.len \in Nat
    BY DEF Slices
  <1>3. /\ \A k \in 1..sh.len : h2[sh.arr][k] = h[sh.arr][k]
        /\ Len(h2[sh.arr]) = Len(h[sh.arr])
    BY InPlaceHeap
  <1>9. Slices(h2) = Slices(h)
    BY InPlaceTypes
  <1>4. sl \in Slices(h2) /\ sl.arr = sh.arr /\ sl.len = sh.len + 1
    BY <1>3, <1>9 DEF Slices
  <1>5. \A k \in 1..sh.len : h2[sh.arr][k] = e[k]
    BY <1>1, <1>2, <1>3
  <1> DEFINE x == [op |-> o, at |-> at, args |-> sl, expect |-> e]
  <1>6. x \in OpRec(h2)
    BY <1>2, <1>4 DEF OpRec
  <1>7. Agree(x, h2)
    <2>1. x.args.len = Len(x.expect)
      BY <1>2, <1>4
    <2>4. x.args = sl /\ x.expect = e
      OBVIOUS
    <2>5. x.args.arr = sh.arr
      BY <2>4, <1>4, Zenon
    <2>6. Len(x.expect) - 1 = sh.len
      <3>1. Len(e) - 1 = sh.len
        BY <1>0, <1>2
      <3>. QED  BY <2>4, <3>1, Zenon
    <2>3. x.args.arr = sh.arr /\ Len(x.expect) - 1 = sh.len
      BY <2>5, <2>6
    <2>2. \A k \in 1..(Len(x.expect) - 1) : h2[x.args.arr][k] = x.expect[k]
      BY <2>3, <2>4, <1>5
    <2>. QED  BY <2>1, <2>2 DEF Agree
  <1>8. OnShell(x, h2, sh)
    BY <1>4, <1>5 DEF OnShell
  <1>. QED  BY <1>6, <1>7, <1>8

-----------------------------------------------------------------------------
(* The invariant holds initially and is kept by every handler. *)

LEMMA WordsAreCells == Seq(Words) \subseteq Seq(Cell)
  BY DEF Cell

(* The instruction being read is an instruction. *)
LEMMA ReadingInstr ==
  ASSUME IType, i <= Len(df)
  PROVE  i \in 1..Len(df) /\ Instr \in Instructions
  BY DEF IType, Instr

LEMMA InitInv == Init => IInv
  <1> SUFFICES ASSUME Init PROVE IInv
    OBVIOUS
  <1>1. DefaultShell \in Seq(Cell)
    BY DefaultShellAssumption, WordsAreCells
  <1>2. NewArray(DefaultShell, Len(DefaultShell)) \in Seq(Cell)
        /\ Len(NewArray(DefaultShell, Len(DefaultShell))) = Len(DefaultShell)
    BY <1>1, NewArrayProps
  <1>3. heap \in Seq(Seq(Cell)) /\ Len(heap) = 1
    BY <1>2 DEF Init
  <1>4. shell \in Slices(heap)
    BY <1>2, <1>3 DEF Init, Slices
  <1>5. df \in Seq(Instructions) /\ i \in 1..(Len(df) + 1)
    BY DockerfilesAssumption DEF Init
  <1>. QED  BY <1>3, <1>4, <1>5 DEF Init, IInv, IType

LEMMA FromInv == IInv /\ From => IInv'
  BY DEF IInv, IType, From

LEMMA UseShellInv == IInv /\ UseShell => IInv'
  <1> SUFFICES ASSUME IInv, UseShell PROVE IInv'
    OBVIOUS
  <1> DEFINE w == Instr.words
             c == GrownCap(Len(w))
             A == NewArray(w, c)
  <1>1. i \in 1..Len(df) /\ Instr \in Instructions /\ Instr.op = "SHELL"
    BY ReadingInstr DEF UseShell, IInv
  <1>11. w \in Seq(Words)
    BY <1>1 DEF Instructions, CmdOps
  <1>2. w \in Seq(Cell)
    BY <1>11, WordsAreCells
  <1>3. c \in Nat /\ Len(w) <= c
    BY <1>2, GrownCapBound
  <1>4. A \in Seq(Cell) /\ Len(A) = c
    BY <1>2, <1>3, NewArrayProps
  <1>5. /\ heap' = Append(heap, A)
        /\ shell' = [arr |-> Len(heap) + 1, len |-> Len(w), cap |-> c]
        /\ i' = i + 1 /\ UNCHANGED <<df, ops>>
    BY DEF UseShell, ReadInstructionNode
  <1>6. heap \in Seq(Seq(Cell)) /\ shell \in Slices(heap) /\ ops \in Seq(OpRec(heap))
    BY DEF IInv, IType
  <1>7. /\ heap' \in Seq(Seq(Cell))
        /\ Len(heap') = Len(heap) + 1
        /\ heap'[Len(heap) + 1] = A
        /\ OpRec(heap) \subseteq OpRec(heap')
    BY <1>4, <1>5, <1>6, HeapAppend
  <1>8. shell' \in Slices(heap')
    BY <1>3, <1>4, <1>5, <1>7 DEF Slices
  <1>9. ops' \in Seq(OpRec(heap'))
    BY <1>5, <1>6, <1>7
  <1>10. ASSUME NEW n \in 1..Len(ops')
         PROVE  Agree(ops'[n], heap') /\ OnShell(ops'[n], heap', shell')
    <2>1. ops[n] \in OpRec(heap) /\ Agree(ops[n], heap) /\ OnShell(ops[n], heap, shell)
      BY <1>5, <1>6 DEF IInv
    <2>2. Agree(ops[n], heap')
      BY <1>4, <1>5, <1>6, <2>1, KeepOp
    <2>3. OnShell(ops[n], heap', shell')
      BY <1>5, <2>1, FreshShell
    <2>. QED  BY <1>5, <2>2, <2>3
  <1>. QED  BY <1>1, <1>5, <1>7, <1>8, <1>9, <1>10 DEF IInv, IType

(* The operations after one is appended, all agreeing in the new heap.  *)
LEMMA AppendOps ==
  ASSUME NEW h2, NEW sh2, NEW os \in Seq(OpRec(h2)), NEW x \in OpRec(h2),
         Agree(x, h2), OnShell(x, h2, sh2),
         \A n \in 1..Len(os) : Agree(os[n], h2) /\ OnShell(os[n], h2, sh2)
  PROVE  /\ Append(os, x) \in Seq(OpRec(h2))
         /\ \A n \in 1..Len(Append(os, x)) :
               Agree(Append(os, x)[n], h2) /\ OnShell(Append(os, x)[n], h2, sh2)
  <1>1. /\ Append(os, x) \in Seq(OpRec(h2))
        /\ Len(Append(os, x)) = Len(os) + 1
        /\ \A n \in 1..Len(os) : Append(os, x)[n] = os[n]
        /\ Append(os, x)[Len(os) + 1] = x
    BY AppendProperties
  <1>. QED  BY <1>1

(* run, cmd and entrypoint: the command's slice agrees with the command  *)
(* it denotes, and the write of an in-place append only reaches the last *)
(* cell of operations in the shell's array.                               *)
LEMMA AddCommandInv ==
  ASSUME IInv, NEW o \in CmdOps, AddCommand(o)
  PROVE  IInv'
  <1>1. i \in 1..Len(df) /\ Instr \in Instructions /\ Instr.op = o
    BY ReadingInstr DEF AddCommand, IInv
  <1>2. /\ heap \in Seq(Seq(Cell)) /\ shell \in Slices(heap)
        /\ ops \in Seq(OpRec(heap))
        /\ \A n \in 1..Len(ops) : Agree(ops[n], heap) /\ OnShell(ops[n], heap, shell)
    BY DEF IInv, IType
  <1>3. /\ heap' = ReadInstructionNodeCmd(Instr)[1]
        /\ ops' = Append(ops, [op |-> o, at |-> i,
                               args |-> ReadInstructionNodeCmd(Instr)[2],
                               expect |-> Denoted(Instr)])
        /\ i' = i + 1 /\ UNCHANGED <<df, shell>>
    BY DEF AddCommand
  <1>4. SUFFICES /\ heap' \in Seq(Seq(Cell))
                 /\ shell \in Slices(heap')
                 /\ ops' \in Seq(OpRec(heap'))
                 /\ \A n \in 1..Len(ops') :
                       Agree(ops'[n], heap') /\ OnShell(ops'[n], heap', shell)
    BY <1>1, <1>3 DEF IInv, IType
  <1>5. shell.arr \in 1..Len(heap) /\ shell.len \in Nat /\ shell.cap \in Nat
        /\ shell.len <= shell.cap
    BY <1>2 DEF Slices
  <1>6. CASE Instr.json = TRUE
    <2> DEFINE w == Instr.words
               c == GrownCap(Len(w))
               h2 == Append(heap, NewArray(w, c))
               x == [op |-> o, at |-> i,
                     args |-> [arr |-> Len(heap) + 1, len |-> Len(w), cap |-> c],
                     expect |-> w]
    <2>1. w \in Seq(Cell)
      <3>1. w \in Seq(Words)
        BY <1>1, <1>6, CmdInstr
      <3>. QED  BY <3>1, WordsAreCells
    <2>2. c \in Nat /\ Len(w) <= c
      BY <2>1, GrownCapBound
    <2>3. heap' = h2 /\ ops' = Append(ops, x)
      BY <1>3, <1>6 DEF ReadInstructionNodeCmd, ReadInstructionNode, Denoted
    <2>4. h2 \in Seq(Seq(Cell)) /\ x \in OpRec(h2) /\ Agree(x, h2)
      BY <1>1, <1>2, <2>1, <2>2, FreshOp
    <2>5. NewArray(w, c) \in Seq(Cell)
      BY <2>1, <2>2, NewArrayProps
    <2>6. shell \in Slices(h2) /\ OpRec(heap) \subseteq OpRec(h2)
      BY <1>2, <2>5, HeapAppend
    <2>7. OnShell(x, h2, shell)
      BY <1>5 DEF OnShell
    <2>8. \A n \in 1..Len(ops) : Agree(ops[n], h2) /\ OnShell(ops[n], h2, shell)
      BY <1>2, <2>5, KeepOp
    <2>9. ops \in Seq(OpRec(h2))
      BY <1>2, <2>6
    <2>. QED  BY <2>3, <2>4, <2>6, <2>7, <2>8, <2>9, AppendOps
  <1>7. CASE Instr.json = FALSE
    <2> DEFINE t == Instr.text
               v == SubSeq(heap[shell.arr], 1, shell.len)
    <2>1. t \in Cell
      <3>1. t \in Texts
        BY <1>1, <1>7, CmdInstr
      <3>. QED  BY <3>1 DEF Cell
    <2>2. Denoted(Instr) = Append(v, t)
      BY <1>7 DEF Denoted, View
    <2>3. v \in Seq(Cell) /\ Len(v) = shell.len
      BY <1>2, ViewProps
    <2>4. CASE shell.len < shell.cap
      <3> DEFINE h2 == [heap EXCEPT ![shell.arr][shell.len + 1] = t]
                 x == [op |-> o, at |-> i, args |-> [shell EXCEPT !.len = @ + 1],
                       expect |-> Append(v, t)]
      <3>1. heap' = h2 /\ ops' = Append(ops, x)
        BY <1>3, <1>7, <2>2, <2>4 DEF ReadInstructionNodeCmd, AppendSlice
      <3>0. /\ heap \in Seq(Seq(Cell)) /\ shell \in Slices(heap)
            /\ shell.len < shell.cap /\ t \in Cell /\ o \in CmdOps /\ i \in Nat
        BY <1>1, <1>2, <2>1, <2>4
      <3>2. x \in OpRec(h2) /\ Agree(x, h2) /\ OnShell(x, h2, shell)
        BY <3>0, InPlaceOp
      <3>3. h2 \in Seq(Seq(Cell))
        BY <1>2, <2>1, <2>4, InPlaceHeap
      <3>4. Slices(h2) = Slices(heap) /\ OpRec(h2) = OpRec(heap)
        BY <1>2, <2>1, <2>4, InPlaceTypes
      <3>5. \A n \in 1..Len(ops) : Agree(ops[n], h2) /\ OnShell(ops[n], h2, shell)
        <4> SUFFICES ASSUME NEW n \in 1..Len(ops)
                     PROVE  Agree(ops[n], h2) /\ OnShell(ops[n], h2, shell)
          OBVIOUS
        <4>1. ops[n] \in OpRec(heap) /\ Agree(ops[n], heap)
              /\ OnShell(ops[n], heap, shell)
          BY <1>2
        <4>. QED  BY <3>0, <4>1, InPlaceKeep
      <3>6. shell \in Slices(h2) /\ ops \in Seq(OpRec(h2))
        BY <1>2, <3>4
      <3>. QED  BY <3>1, <3>2, <3>3, <3>5, <3>6, AppendOps
    <2>5. CASE ~(shell.len < shell.cap)
      <3> DEFINE c == IF shell.cap = 0 THEN 1 ELSE 2 * shell.cap
                 e == Append(v, t)
                 h2 == Append(heap, NewArray(e, c))
                 x == [op |-> o, at |-> i,
                       args |-> [arr |-> Len(heap) + 1, len |-> Len(e), cap |-> c],
                       expect |-> e]
      <3>1. e \in Seq(Cell) /\ Len(e) = shell.len + 1
        BY <2>1, <2>3
      <3>2. c \in Nat /\ Len(e) <= c
        BY <1>5, <2>5, <3>1
      <3>3. heap' = h2 /\ ops' = Append(ops, x)
        BY <1>3, <1>7, <2>2, <2>5, <3>1 DEF ReadInstructionNodeCmd, AppendSlice, View
      <3>0. /\ heap \in Seq(Seq(Cell)) /\ e \in Seq(Cell) /\ c \in Nat
            /\ Len(e) <= c /\ o \in CmdOps /\ i \in Nat
        BY <1>1, <1>2, <3>1, <3>2
      <3>4. h2 \in Seq(Seq(Cell)) /\ x \in OpRec(h2) /\ Agree(x, h2)
        BY <3>0, FreshOp
      <3>5. NewArray(e, c) \in Seq(Cell)
        BY <3>1, <3>2, NewArrayProps
      <3>6. shell \in Slices(h2) /\ OpRec(heap) \subseteq OpRec(h2)
        BY <1>2, <3>5, HeapAppend
      <3>7. OnShell(x, h2, shell)
        BY <1>5 DEF OnShell
      <3>8. \A n \in 1..Len(ops) : Agree(ops[n], h2) /\ OnShell(ops[n], h2, shell)
        BY <1>2, <3>5, KeepOp
      <3>9. ops \in Seq(OpRec(h2))
        BY <1>2, <3>6
      <3>. QED  BY <3>3, <3>4, <3>6, <3>7, <3>8, <3>9, AppendOps
    <2>. QED  BY <2>4, <2>5
  <1>. QED  BY <1>1, <1>6, <1>7, CmdInstr

LEMMA NextInv == IInv /\ [Next]_vars => IInv'
  <1> SUFFICES ASSUME IInv, [Next]_vars PROVE IInv'
    OBVIOUS
  <1>1. CASE UNCHANGED vars
    BY <1>1 DEF vars, IInv, IType
  <1>2. CASE Run \/ Entrypoint \/ Cmd
    <2>1. \E o \in CmdOps : AddCommand(o)
      BY <1>2 DEF Run, Entrypoint, Cmd, CmdOps
    <2>. QED  BY <2>1, AddCommandInv
  <1>. QED  BY <1>1, <1>2, FromInv, UseShellInv DEF Next

(* Two sequences of one length that agree below their last element have *)
(* the same prefix.                                                       *)
LEMMA PrefixEq ==
  ASSUME NEW a \in Seq(Cell), NEW e \in Seq(Cell), Len(a) = Len(e),
         \A k \in 1..(Len(e) - 1) : a[k] = e[k]
  PROVE  SubSeq(a, 1, Len(e) - 1) = SubSeq(e, 1, Len(e) - 1)
  <1> DEFINE m == Len(e) - 1
             pa == SubSeq(a, 1, m)
             pe == SubSeq(e, 1, m)
  <1>1. /\ pa \in Seq(Cell) /\ Len(pa) = IF 1 <= m THEN m ELSE 0
        /\ \A k \in 1..m : pa[k] = a[k]
    BY SubSeqProperties
  <1>2. /\ pe \in Seq(Cell) /\ Len(pe) = IF 1 <= m THEN m ELSE 0
        /\ \A k \in 1..m : pe[k] = e[k]
    BY SubSeqProperties
  <1>3. Len(pa) = Len(pe) /\ \A k \in 1..Len(pa) : pa[k] = pe[k]
    BY <1>1, <1>2
  <1>. QED  BY <1>1, <1>2, <1>3, SeqEqual

(* The inductive invariant gives ProgramKept in every state, not only    *)
(* once LoadDockerfile is done.                                           *)
LEMMA InvProgramKept == IInv => ProgramKept
  <1> SUFFICES ASSUME IInv, NEW n \in 1..Len(ops)
               PROVE  LET a == View(ops[n].args)
                          e == ops[n].expect
                      IN  Len(a) = Len(e)
                          /\ SubSeq(a, 1, Len(e) - 1) = SubSeq(e, 1, Len(e) - 1)
    BY DEF ProgramKept
  <1> DEFINE o == ops[n]
             a == SubSeq(heap[o.args.arr], 1, o.args.len)
  <1>1. heap \in Seq(Seq(Cell)) /\ o \in OpRec(heap) /\ Agree(o, heap)
    BY DEF IInv, IType
  <1>2. o.args \in Slices(heap) /\ o.expect \in Seq(Cell)
    BY <1>1 DEF OpRec
  <1>3. a \in Seq(Cell) /\ Len(a) = o.args.len
        /\ \A k \in 1..o.args.len : a[k] = heap[o.args.arr][k]
    BY <1>1, <1>2, ViewProps
  <1>4. Len(a) = Len(o.expect)
        /\ \A k \in 1..(Len(o.expect) - 1) : a[k] = o.expect[k]
    BY <1>1, <1>3 DEF Agree
  <1>5. SubSeq(a, 1, Len(o.expect) - 1) = SubSeq(o.expect, 1, Len(o.expect) - 1)
    BY <1>2, <1>3, <1>4, PrefixEq
  <1>. QED  BY <1>4, <1>5 DEF View

-----------------------------------------------------------------------------
(* Theorems *)

(* The inductive invariant holds in every state of LoadDockerfile. *)
THEOREM IInvAlways == Spec => []IInv
  BY InitInv, NextInv, PTL DEF Spec

(* Spec => []ProgramKept: for every Dockerfile and every default shell,  *)
(* when LoadDockerfile returns, each RUN, CMD and ENTRYPOINT operation's *)
(* slice holds the shell (or exec words) that was in effect when it was  *)
(* read; a later SHELL or shell-form command changes at most its last    *)
(* word.                                                                  *)
THEOREM ProgramKeptAlways == Spec => []ProgramKept
  BY IInvAlways, InvProgramKept, PTL

=============================================================================
