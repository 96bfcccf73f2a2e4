---------------------------- MODULE MCElbBackend ----------------------------
(* Model-checking instance of ElbBackend: two targets, two ports, two      *)
(* weights, so a group can hold a second member and a sync can keep or    *)
(* change the port.                                                        *)
EXTENDS ElbBackend
=============================================================================
