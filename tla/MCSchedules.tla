---------------------------- MODULE MCSchedules ----------------------------
(* A small instance of Schedules: an expression that matches every time, one  *)
(* that names its hour, and one that never matches; a zone without shifts and *)
(* one whose clock shows 3 twice.                                             *)
EXTENDS Schedules

MCFires(cron, wall) ==
    CASE cron = "often" -> TRUE
      [] cron = "daily" -> wall % 3 = 0
      [] cron = "never" -> FALSE

MCTriggers == {<<"often", "none">>, <<"daily", "shifted">>}

MCWallClock(zone, t) == IF zone = "shifted" /\ t > 3 THEN t - 1 ELSE t

=============================================================================
