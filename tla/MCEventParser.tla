---------------------------- MODULE MCEventParser ----------------------------
EXTENDS EventParser

CONSTANTS t1, t2, t3, cpu0, cpu1

(* Two CPUs: a value for the constant FileList.                            *)
MCFileList == <<cpu0, cpu1>>
=============================================================================
