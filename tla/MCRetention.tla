------------------------------ MODULE MCRetention ------------------------------
(* Instance of Retention.tla for TLC; see Retention.cfg. *)
EXTENDS Retention, TLC

MCAfter == [c \in Categories |-> IF c \in Automatic THEN 1 ELSE 0]
PersonSymmetry == Permutations(People)
MCScenarios ==
    {{"backup", "admin", "restart", "fail", "midnight"},
     {"privacy", "edit"},
     {"privacy", "review"},
     {"privacy", "restart", "reopen"},
     {"privacy", "restore"}}
================================================================================
