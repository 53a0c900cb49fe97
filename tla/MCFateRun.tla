------------------------------ MODULE MCFateRun -------------------------------
EXTENDS FateRun

\* Three tests: one that is skipped or filtered out leaves two in a row.
ThreeTests == <<"t1", "t2", "t3">>
=============================================================================
