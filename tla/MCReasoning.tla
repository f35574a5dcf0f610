---------------------------- MODULE MCReasoning ----------------------------
(* The Reasoning campaign on small instances; tasks are interchangeable.   *)
EXTENDS ReasoningCampaign, TLC

BothSelections == BOOLEAN
=============================================================================
