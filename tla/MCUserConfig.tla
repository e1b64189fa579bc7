---------------------------- MODULE MCUserConfig -----------------------------
(* UserConfig with two Hubs, the second of which takes any token, two      *)
(* profiles and one command of each kind for each that matters.            *)
EXTENDS UserConfig

CONSTANTS h1, h2, t1, t2, p1

MCHubs == {h1, h2}
MCTokens == {t1, t2}
MCIssues == [h \in MCHubs |-> IF h = h1 THEN {t1} ELSE {t2}]
MCAccepts == [h \in MCHubs |-> IF h = h1 THEN {t1} ELSE {t1, t2}]
MCOffered ==
  {[kind |-> "login", hub |-> h1], [kind |-> "login", hub |-> h2],
   [kind |-> "set", name |-> "other", hubURL |-> h2, projectID |-> None, token |-> None],
   [kind |-> "use", name |-> "other"],
   [kind |-> "project", projectID |-> p1],
   [kind |-> "auth", token |-> t2]}
=============================================================================
