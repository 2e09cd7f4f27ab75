------------------------ MODULE MCProactiveSchedule ------------------------
(***************************************************************************)
(* ProactiveSchedule for TLC: three contents of the configuration file.     *)
(***************************************************************************)
EXTENDS ProactiveSchedule, TLC

Config(on, briefing, briefingCron, digest) ==
  [enabled |-> on,
   channel |-> ("briefing" :> [enabled |-> briefing, cron |-> briefingCron]) @@
               ("digest" :> [enabled |-> digest, cron |-> "early"])]

AllOff == Config(FALSE, TRUE, "early", TRUE)
BothEarly == Config(TRUE, TRUE, "early", TRUE)
BriefingLate == Config(TRUE, TRUE, "late", FALSE)

MCCrons == {"early", "late"}
MCConfigs == {AllOff, BothEarly, BriefingLate}
=============================================================================
