-------------------------- MODULE MCRolloutServers --------------------------
(***************************************************************************)
(* Instances of RolloutServers.                                            *)
(***************************************************************************)
EXTENDS RolloutServers

CONSTANTS s1, s2, h1

MCSetup(standalone, hybrid, cache, limit, length) ==
    [standalone |-> standalone, hybrid |-> hybrid, max_cache_size |-> cache,
     has_limit |-> limit, response_length |-> length]

\* Two servers and a cache of one session; one server whose clients give no
\* limit; a hybrid server beside a standalone one.
MCSetups ==
    {MCSetup({s1, s2}, {}, 1, TRUE, 2), MCSetup({s1}, {}, 1, FALSE, 2),
     MCSetup({s1}, {h1}, 2, TRUE, 1)}
MCServer == {s1, s2, h1}
=============================================================================
