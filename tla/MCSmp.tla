------------------------------- MODULE MCSmp -------------------------------
(* Machines for Smp: up to four CPUs as in run_nographic.sh, with gaps in the *)
(* ids, processors that do not work or do not fit, unknown entries, no table;  *)
(* RAM that names CPU 0, another one, or none.                                *)
EXTENDS Smp

P(n) == [type |-> "processor", lapic_id |-> n, cpu_en |-> TRUE]
Off(n) == [type |-> "processor", lapic_id |-> n, cpu_en |-> FALSE]
Other == [type |-> "other"]
Unknown == [type |-> "unknown"]

Machines ==
    { NoTable,
      <<P(0), Other>>,
      <<P(0), P(1), P(2), P(3), Other, Other>>,
      <<P(3), P(2), P(1), P(0)>>,
      <<P(0), P(1), P(3)>>,
      <<P(0), P(1), Off(2), P(3)>>,
      <<P(0), P(1), P(2), P(3), P(4)>>,
      <<P(0), P(1), Unknown, P(2)>> }
Bytes == {0, 1, 2, MAX_CPU}
Shortages == {{}, {0}, {1}, {2, 3}}
=============================================================================
