---------------------------- MODULE MCLessonPage ----------------------------
(* Small instances of LessonPage for TLC. *)
EXTENDS LessonPage, TLC

PageScenario ==
  {{"drop", "peek"}, {"bootfail", "die", "midway"}, {"bootfail", "midway", "peek"},
   {"callfail"}, {"eager"}, {"eager", "slow"}}

SettlingScenario == {{"callfail", "die", "drop"}, {"noshell", "die"}}

BootFailScenario == {{"bootfail"}}
=============================================================================
