----------------------------- MODULE MCJobQueue -----------------------------
(* Small instances of JobQueue for TLC.                                    *)
EXTENDS JobQueue

CONSTANTS s1, s2, s3

\* Three servers, one of them named twice.
ThreeServers == {<<s1, s2, s1, s3>>}

\* A canary and one more.
TwoServers == {<<s1, s2>>}

\* Threads are interchangeable; used where only safety is checked.
ThreadSymmetry == Permutations(Threads)

=============================================================================
