---------------------------- MODULE MCMcpSessions ----------------------------
(* Settings for model checking McpSessions. *)
EXTENDS McpSessions, TLC

CONSTANTS s1, s2, r1, r2

Plain == [store |-> "unset", resume |-> "unset", path |-> "unset", key |-> "none",
          streams |-> 2, ttl |-> 1, fallback |-> TRUE, bind |-> "loopback",
          nonLoopback |-> FALSE, hosts |-> TRUE]

\* Every pair of modes, with and without what they need.
Modes == {[Plain EXCEPT !.store = s, !.resume = r, !.path = p] :
            s \in StoreValues, r \in ResumeValues, p \in {"unset", "blank"}}

\* One session at most, no expiry, no fallback.
Tight == {[e EXCEPT !.streams = 0, !.ttl = 0, !.fallback = FALSE] :
            e \in {Plain, [Plain EXCEPT !.store = "memory", !.resume = "replay"]}}

\* Settings that main refuses, and a deployment on another address.
Bound == {[Plain EXCEPT !.bind = b, !.nonLoopback = n, !.hosts = h, !.key = k] :
            b \in {"other", "bad"}, n \in BOOLEAN, h \in BOOLEAN, k \in {"good", "bad"}}

\* Nothing tells sessions or slots apart.
Interchangeable == Permutations(Sessions) \cup Permutations(Slots)

MCEnvironments == Modes \cup Tight \cup Bound
=============================================================================
