------------------------------- MODULE MCSched -------------------------------
(* Instances of Sched for TLC: CPU 0 and 1 up, CPU 2 not, as run.sh and       *)
(* run_nographic.sh start fewer CPUs than MAX_CPU.                            *)
EXTENDS Sched

Two == {0, 1}
Three == {0, 1, 2}
=============================================================================
