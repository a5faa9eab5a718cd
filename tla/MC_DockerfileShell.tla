-------------------------- MODULE MC_DockerfileShell --------------------------
(* Instantiates DockerfileShell for TLC: every Dockerfile of at most four *)
(* instructions over FROM, a two-word SHELL (capacity 2), a three-word     *)
(* SHELL (capacity 4, room for one append), shell-form RUN and CMD and an  *)
(* exec-form ENTRYPOINT.                                                   *)
EXTENDS DockerfileShellProofs, TLC

CONSTANTS w1, w2, w3, t1, t2

MCDefaultShell == <<"/bin/sh", "-c">>

MCWords == {"/bin/sh", "-c", w1, w2, w3}

MCAlphabet ==
  { [op |-> "FROM"],
    [op |-> "SHELL", words |-> <<w1, w2>>],
    [op |-> "SHELL", words |-> <<w1, w2, w3>>],
    [op |-> "RUN", json |-> FALSE, text |-> t1],
    [op |-> "CMD", json |-> FALSE, text |-> t2],
    [op |-> "ENTRYPOINT", json |-> TRUE, words |-> <<w1>>] }

MCDockerfiles == UNION {[1..n -> MCAlphabet] : n \in 1..4}
=============================================================================
