------------------------- MODULE MC_DockerfileScope -------------------------
(* Instantiates DockerfileScope for TLC: two names, two values and the    *)
(* build argument y=vb.  The Dockerfiles are every list of at most five   *)
(* instructions over FROM, ARG x=va, ARG y, ENV x=vb, ENV y=$x and RUN,   *)
(* and every list of at most three that also uses FROM $x, MAINTAINER $x  *)
(* and an instruction of each substituting kind.                          *)
EXTENDS DockerfileScope, TLC

CONSTANTS x, y, va, vb

MCBuildArgs == (y :> vb)

MCCore ==
  { [op |-> "FROM", image |-> va],
    [op |-> "ARG", key |-> x, dflt |-> va],
    [op |-> "ARG", key |-> y, dflt |-> Empty],
    [op |-> "ENV", key |-> x, val |-> vb],
    [op |-> "ENV", key |-> y, val |-> [ref |-> x]],
    [op |-> "RUN"] }

MCOther ==
  { [op |-> "FROM", image |-> [ref |-> x]],
    [op |-> "MAINTAINER", val |-> [ref |-> x]],
    [op |-> "COPY", val |-> [ref |-> y]],
    [op |-> "ADD", val |-> va] } \cup
  { [op |-> o, val |-> [ref |-> x]] :
      o \in {"LABEL", "USER", "WORKDIR", "EXPOSE", "VOLUME", "STOPSIGNAL"} }

MCDockerfiles ==
  UNION {[1..n -> MCCore] : n \in 1..5} \cup
  UNION {[1..n -> MCCore \cup MCOther] : n \in 1..3}
=============================================================================
