----------------------------- MODULE MCPublish -----------------------------
(* A bridge with two refreshes in turn beside a command-line check, over     *)
(* three contents of which one does not pass the checks.                     *)
EXTENDS Publish
CONSTANTS check, refresh1, refresh2, textA, textB, textBad
OneBridge == {refresh1, refresh2}
AllRuns == OneBridge \cup {check}
TwoRuns == {refresh1, check}
OneRefresh == {refresh1}
TwoTexts == {textA, textB}
AllTexts == {textA, textB, textBad}
Sizes == [made \in SUBSET (AllTexts \cup {NoRows}) |-> 1]
=============================================================================
