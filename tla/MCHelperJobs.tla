---------------------------- MODULE MCHelperJobs -----------------------------
EXTENDS HelperJobs

CONSTANTS j1, j2

\* Each helper once, each kind of input once.
EachOnce == {<<"probe", "url">>, <<"transcode", "bytes">>, <<"frames", "file">>}

\* One helper, for the run that checks liveness.
OneHelper == {<<"frames", "file">>}

\* Each job has a progress listener of its own.
OwnListener == [j \in Jobs |-> j]

\* The files a command of each job writes.
OneFile   == [j \in Jobs |-> 1]
SomeFiles == [j \in Jobs |-> IF j = j1 THEN 2 ELSE 1]

Symmetry == Permutations(Jobs)
=============================================================================
