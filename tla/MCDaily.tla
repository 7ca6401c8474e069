--------------------------------- MODULE MCDaily ---------------------------------
(* Days of two ticks: the rollup job runs every tick, the others every day. *)
EXTENDS Daily, TLC

MCJobs == {"saltRotation", "rollupBuild", "retentionPurge"}
MCInterval == "saltRotation" :> 2 @@ "rollupBuild" :> 1 @@ "retentionPurge" :> 2
=============================================================================
