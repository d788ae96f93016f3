--------------------------- MODULE IterationSplit ---------------------------
(***************************************************************************)
(* How restore-motivation/src/ops/mod.rs divides the operations of a run   *)
(* among its workers: worker tid performs iteration_count operations and   *)
(* numbers them from iteration_offset on.  usize arithmetic: the products  *)
(* stay below total, which fits in memory as that many measurements.       *)
(***************************************************************************)
EXTENDS Integers

worker_count(total, concurrency) ==
    IF concurrency < total THEN concurrency ELSE total

iteration_count(total, workers, tid) ==
    (total \div workers) + (IF tid < total % workers THEN 1 ELSE 0)

\* Faulty variant: the remainder's extra operations are forgotten.
iteration_offset_base(total, workers, tid) == tid * (total \div workers)

iteration_offset(total, workers, tid) ==
    tid * (total \div workers)
        + (IF tid < total % workers THEN tid ELSE total % workers)
=============================================================================
