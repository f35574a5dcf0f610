---------------------------- MODULE MCPopulation ----------------------------
(***************************************************************************)
(* Small instances of Population.  Scores are the integers 0 and 1.        *)
(***************************************************************************)
EXTENDS Population

MCScores == {0, 1}
MCNoScore == -1
MCNoLimit == {0}
MCLimits == {0, 1}
MCNone == {}
MCBudgetMilestones == {0, 1, 2}
MCGenerationMilestones == {1}

=============================================================================
