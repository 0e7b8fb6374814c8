---------------------------- MODULE MCOpenFiles ----------------------------
(* Instances of OpenFiles for TLC. *)
EXTENDS OpenFiles

AllGranted == Procs \X Files \X Rights

\* One of the processes may only read the files.
OneReader ==
  LET reader == CHOOSE p \in First : TRUE
  IN {g \in AllGranted : g[1] = reader => g[3] = "read"}
=============================================================================
