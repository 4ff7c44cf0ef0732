--------------------------- MODULE MCTrackedEntry ---------------------------
(***************************************************************************)
(* Both policies, one with trimming and one without, and grace periods in  *)
(* either order of length, on a tick count of eight values.  One heartbeat *)
(* interval is due in every pass that takes time, the other is longer.     *)
(***************************************************************************)
EXTENDS TrackedEntry

MCConfig ==
  {[background_grace_ms |-> background_ms,
    manual_resume_grace_ms |-> 3 - background_ms,
    heartbeat_interval_ms |-> background_ms,
    suspend_policy |-> IF background_ms = 1 THEN "minimized_only"
                                            ELSE "all_background",
    trim_working_set |-> background_ms = 1,
    lower_memory_priority |-> TRUE] :
     background_ms \in {1, 2}}
=============================================================================
