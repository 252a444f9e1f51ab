-------------------------- MODULE MCBenchExecLive --------------------------
(***************************************************************************)
(* The instance Completes is checked on: each board alone, both, or none.  *)
(* A session may have two jobs, and it may be the other board's job that   *)
(* an earlier session leaves behind.                                       *)
(***************************************************************************)
EXTENDS BenchExec
CONSTANTS b1, b2
TwoBoards == {b1, b2}
Ascending == {<< >>, <<b1>>, <<b2>>, <<b1, b2>>}
=============================================================================
