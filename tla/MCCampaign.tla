---------------------------- MODULE MCCampaign ----------------------------
(* Small campaigns for TLC.                                                *)
EXTENDS Campaign

\* Four versions, one listed twice and one whose .diff is missing.
MCFault == 1..4
MCFaultList == <<1, 2, 2, 3, 4>>
MCHasDiff == {1, 2, 4}

\* Three versions, all of them available.
MCFault3 == 1..3
MCFaultList3 == <<1, 2, 3>>

\* Two versions, one listed twice.
MCFault2 == 1..2
MCFaultList2 == <<1, 2, 2>>
===========================================================================
