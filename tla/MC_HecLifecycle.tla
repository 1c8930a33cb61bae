--------------------------- MODULE MC_HecLifecycle ---------------------------
(* Three successive Start calls let a restart race the previous server's   *)
(* Serve goroutine and a second Start run against a still-bound port.      *)
EXTENDS HecLifecycle

MCMaxStarts == 3
=============================================================================
