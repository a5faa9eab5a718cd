--------------------------- MODULE DockerfileShell ---------------------------
(***************************************************************************)
(* The command lines of RUN, CMD and ENTRYPOINT as LoadDockerfile of       *)
(* src/image/builder/dockerfile/dockerfile.go builds them: SHELL replaces  *)
(* s.shell by the instruction's words, a shell-form command becomes        *)
(* append(s.shell, strings.Join(words, " ")), an exec-form command is the  *)
(* words themselves, and each operation keeps its slice until Apply.       *)
(*                                                                         *)
(* Go slices are modelled as they are: a slice is [arr, len, cap] into a   *)
(* heap of backing arrays, and append writes into the backing array when   *)
(* len < cap and otherwise copies into a new array of the grown capacity.  *)
(* A word is a model value; a shell-form instruction carries its joined    *)
(* text, since only that text reaches the slice.                          *)
(***************************************************************************)
EXTENDS Naturals, Sequences

CONSTANTS
  Words,        \* words of SHELL instructions and exec-form commands
  Texts,        \* joined texts of shell-form commands
  DefaultShell, \* the words of []string{"/bin/sh", "-c"}
  Dockerfiles   \* the instruction lists LoadDockerfile is called with

CmdOps == {"RUN", "CMD", "ENTRYPOINT"}

Instructions ==
  [op : {"FROM"}] \cup
  [op : {"SHELL"}, words : Seq(Words)] \cup
  [op : CmdOps, json : {TRUE}, words : Seq(Words)] \cup
  [op : CmdOps, json : {FALSE}, text : Texts]

ASSUME DefaultShellAssumption == DefaultShell \in Seq(Words)
ASSUME DockerfilesAssumption == \A d \in Dockerfiles : d \in Seq(Instructions)

VARIABLES
  df,     \* the instructions being read
  i,      \* the index of the next instruction
  heap,   \* the backing arrays: heap[a] is the sequence of a's cells
  shell,  \* s.shell: a slice [arr, len, cap]
  ops     \* the operations added so far: [op, at, args : slice, expect]

vars == <<df, i, heap, shell, ops>>

Instr == df[i]

(* The elements a slice sees. *)
View(sl) == SubSeq(heap[sl.arr], 1, sl.len)

(* The capacity runtime.growslice gives a []string that append has grown *)
(* one element at a time from []string{} to n elements: it doubles the   *)
(* capacity below 256 elements, and the size classes of 16-byte         *)
(* elements keep it exact, so it is the power of two in n..2n-1 (there   *)
(* is exactly one, and none for n = 0, when the capacity stays 0).       *)
GrownCap(n) ==
  LET P2 == {c \in n..(2 * n - 1) : \E k \in 0..n : c = 2^k}
  IN  IF P2 = {} THEN n ELSE CHOOSE c \in P2 : TRUE

(* A new backing array of capacity c holding the sequence s. *)
NewArray(s, c) == [k \in 1..c |-> IF k <= Len(s) THEN s[k] ELSE "unset"]

(* readInstructionNode: the words, appended one by one to []string{}.    *)
(* The result is a fresh backing array.                                  *)
ReadInstructionNode(w) ==
  [arr |-> Len(heap) + 1, len |-> Len(w), cap |-> GrownCap(Len(w))]

(* append(sl, x): in place when there is room, else into a new array of  *)
(* twice the capacity (the growth of slices shorter than 256).           *)
AppendSlice(sl, x) ==
  IF sl.len < sl.cap
  THEN <<[heap EXCEPT ![sl.arr][sl.len + 1] = x], [sl EXCEPT !.len = @ + 1]>>
  ELSE LET c == IF sl.cap = 0 THEN 1 ELSE 2 * sl.cap
       IN  <<Append(heap, NewArray(Append(View(sl), x), c)),
             [arr |-> Len(heap) + 1, len |-> sl.len + 1, cap |-> c]>>

-----------------------------------------------------------------------------

(* LoadDockerfile: sh := []string{"/bin/sh", "-c"}, a literal of          *)
(* capacity 2, is the initial shell.                                      *)
Init ==
  /\ df \in Dockerfiles
  /\ i = 1
  /\ heap = <<NewArray(DefaultShell, Len(DefaultShell))>>
  /\ shell = [arr |-> 1, len |-> Len(DefaultShell), cap |-> Len(DefaultShell)]
  /\ ops = <<>>

(* from: resetState leaves s.shell alone. *)
From ==
  /\ i <= Len(df)
  /\ Instr.op = "FROM"
  /\ i' = i + 1
  /\ UNCHANGED <<df, heap, shell, ops>>

(* Mutant: useShell reuses the shell's buffer,                            *)
(* s.shell = append(s.shell[:0], v...), overwriting it when v fits.      *)
UseShellReuse ==
  /\ i <= Len(df)
  /\ Instr.op = "SHELL"
  /\ Len(Instr.words) > 0
  /\ IF Len(Instr.words) <= shell.cap
     THEN /\ heap' = [heap EXCEPT ![shell.arr] =
                        [k \in 1..shell.cap |->
                           IF k <= Len(Instr.words) THEN Instr.words[k]
                           ELSE heap[shell.arr][k]]]
          /\ shell' = [shell EXCEPT !.len = Len(Instr.words)]
     ELSE /\ heap' = Append(heap, NewArray(Instr.words, GrownCap(Len(Instr.words))))
          /\ shell' = ReadInstructionNode(Instr.words)
  /\ i' = i + 1
  /\ UNCHANGED <<df, ops>>

(* useShell: s.shell = the instruction's words. *)
UseShell ==
  /\ i <= Len(df)
  /\ Instr.op = "SHELL"
  /\ Len(Instr.words) > 0
  /\ heap' = Append(heap, NewArray(Instr.words, GrownCap(Len(Instr.words))))
  /\ shell' = ReadInstructionNode(Instr.words)
  /\ i' = i + 1
  /\ UNCHANGED <<df, ops>>

(* readInstructionNodeCmd: exec form keeps the words read, shell form    *)
(* appends the joined text to s.shell.  The result is the heap after the  *)
(* call and the slice.                                                    *)
ReadInstructionNodeCmd(ins) ==
  IF ins.json
  THEN <<Append(heap, NewArray(ins.words, GrownCap(Len(ins.words)))),
         ReadInstructionNode(ins.words)>>
  ELSE AppendSlice(shell, ins.text)

(* The command line an instruction denotes when it is read. *)
Denoted(ins) == IF ins.json THEN ins.words ELSE Append(View(shell), ins.text)

(* run, entrypoint and cmd: the operation keeps the slice until Apply. *)
AddCommand(op) ==
  /\ i <= Len(df)
  /\ Instr.op = op
  /\ LET r == ReadInstructionNodeCmd(Instr)
     IN  /\ heap' = r[1]
         /\ ops' = Append(ops, [op |-> op, at |-> i, args |-> r[2],
                                expect |-> Denoted(Instr)])
  /\ i' = i + 1
  /\ UNCHANGED <<df, shell>>

Run == AddCommand("RUN")

Entrypoint == AddCommand("ENTRYPOINT")

Cmd == AddCommand("CMD")

Next == From \/ UseShell \/ Run \/ Entrypoint \/ Cmd

Spec == Init /\ [][Next]_vars

-----------------------------------------------------------------------------
(* Properties *)

(* LoadDockerfile has read every instruction; Apply runs after this. *)
Done == i = Len(df) + 1

(* When LoadDockerfile returns, what Apply hands to the image builder for *)
(* every command is the shell that was in effect when it was read (or the *)
(* exec-form words): no later instruction changes an earlier command's     *)
(* program or flags.                                                      *)

ProgramKept ==
  Done =>
    \A n \in 1..Len(ops) :
       LET a == View(ops[n].args)
           e == ops[n].expect
       IN  Len(a) = Len(e) /\ SubSeq(a, 1, Len(e) - 1) = SubSeq(e, 1, Len(e) - 1)

(* The spec: "RUN in shell form = shell + [joined_args]": every command   *)
(* Apply runs is exactly the one its instruction denotes, its own text    *)
(* included.                                                              *)
CommandKept ==
  Done => \A n \in 1..Len(ops) : View(ops[n].args) = ops[n].expect

=============================================================================
