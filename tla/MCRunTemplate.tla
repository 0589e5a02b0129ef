--------------------------- MODULE MCRunTemplate ---------------------------
(***************************************************************************)
(* A small instance of RunTemplate: a PullRequest of three branches whose  *)
(* template has a name, a prefix or neither, and may have been copied from *)
(* a run of one of them.                                                   *)
(***************************************************************************)
EXTENDS RunTemplate

CONSTANTS a, b, c

MCKeys == {a, b, c}

MCTemplates ==
  [labels: {NoKey, a}, params: {NoKey}, name: {"fixed", "prefix", "none"},
   account: {"own"}, secrets: {0}, server: {FALSE}]

\* A credential that is not ready yet, and one that is.
MCCredentials == {[account |-> ready, secret |-> ready] : ready \in BOOLEAN}
=============================================================================
