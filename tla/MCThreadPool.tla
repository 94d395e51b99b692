---------------------------- MODULE MCThreadPool ----------------------------
(* Small instances of ThreadPool.                                          *)
EXTENDS ThreadPool, TLC

\* An empty call, a call that runs inline, three chunks of one item (a grain of 0 is raised to 1), two
\* chunks of which the second is short.
SomeRequests == {<<0, 1>>, <<1, 1>>, <<3, 0>>, <<3, 2>>}

\* One chunk for each of the caller and one worker.
TwoChunks == {<<2, 1>>}

\* The workers are interchangeable: they are compared with the caller and with each other only.
WorkerSymmetry == Permutations(Workers)
=============================================================================
