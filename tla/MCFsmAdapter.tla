------------------------------ MODULE MCFsmAdapter ------------------------------
(***************************************************************************)
(* Values for FsmAdapter: three indexes, the second of them in two terms,  *)
(* and batches that overlap, repeat an entry and conflict.                 *)
(***************************************************************************)
EXTENDS FsmAdapter

Id(term, index) == [term |-> term, index |-> index]

MCLogId == {Id(1, 1), Id(1, 2), Id(2, 2), Id(2, 3)}

MCBatches ==
  { <<Id(1, 1), Id(1, 2), Id(2, 3)>>,
    <<Id(1, 2), Id(1, 2), Id(2, 3)>>,
    <<Id(1, 1), Id(2, 2)>> }
================================================================================
