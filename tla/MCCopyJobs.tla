------------------------------ MODULE MCCopyJobs ------------------------------
(***************************************************************************)
(* Copy jobs of two copies of one or two originals, and continuous copies. *)
(***************************************************************************)
EXTENDS CopyJobs

\* Without what is only shown to the UI, and the page counter that only drives it.
WithoutDisplay == <<ids, copy_count, flags, jobs, thread, anomalies>>
=============================================================================
