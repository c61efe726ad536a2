---------------------------- MODULE MCLeaderJobs ----------------------------
(* One process, one job, one server.                                      *)
EXTENDS LeaderJobs

CONSTANT s1

ProcThreads == Procs \X (1 .. MaxChains)

OneServer == {<<s1>>}

\* A query that throws is explored in behaviours without a death or an ended chain.
OneKindOfFault == faults.db = 0 \/ faults.exits + spent.kills = 0

=============================================================================
