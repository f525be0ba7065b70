----------------------------- MODULE MCSchedule -----------------------------
(* Small instances of Schedule for TLC: hours in units that keep the order   *)
(* LAUNCH_BACKOFF <= MAINTENANCE_RETRY < THROTTLE_PAUSE < CATCH_UP < a day.  *)
EXTENDS Schedule

Sunday == {0}
=============================================================================
