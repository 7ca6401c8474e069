------------------------------- MODULE MCScheduler -------------------------------
(* Two jobs on different intervals, so that their timers meet and part. *)
EXTENDS Scheduler, TLC

CONSTANTS fast, slow

MCJobs == {fast, slow}
MCInterval == fast :> 1 @@ slow :> 2
=============================================================================
