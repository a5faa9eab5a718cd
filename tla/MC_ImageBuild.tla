--------------------------- MODULE MC_ImageBuild ---------------------------
(* Instantiates ImageBuild for TLC: one base image, two commands, one   *)
(* file, one CMD value, one author, one tag, two builds one after the   *)
(* other.  The programs are every FROM followed by up to three RUN/CMD  *)
(* steps, plus programs that reach the other steps and error paths.     *)
EXTENDS ImageBuild, TLC

CONSTANTS b1, c1, c2, f1, v1, a1, tag1

MCFrom == [op |-> "FROM", arg |-> b1]
MCBody == {[op |-> "RUN", arg |-> c1], [op |-> "RUN", arg |-> c2],
           [op |-> "CMD", arg |-> v1]}

(* The sequences over MCBody of length at most 3. *)
MCBodies == {<<>>} \cup {<<x>> : x \in MCBody} \cup
            {<<x, y>> : x, y \in MCBody} \cup {<<x, y, z>> : x, y, z \in MCBody}

MCOther ==
  { <<>>,
    <<[op |-> "RUN", arg |-> c1]>>,
    <<[op |-> "AUTHOR", arg |-> a1], MCFrom>>,
    <<[op |-> "COPY", arg |-> f1], [op |-> "RUN", arg |-> c1]>>,
    <<MCFrom, [op |-> "AUTHOR", arg |-> a1], [op |-> "COPY", arg |-> f1],
      [op |-> "TAG", arg |-> tag1]>>,
    <<MCFrom, [op |-> "RUN", arg |-> c1], [op |-> "TAG", arg |-> tag1]>>,
    <<[op |-> "TAG", arg |-> tag1]>> }

MCPrograms == {<<MCFrom>> \o s : s \in MCBodies} \cup MCOther

MCMaxBuilds == 2
=============================================================================
