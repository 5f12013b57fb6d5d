---------------------------- MODULE MCRewardLoop ----------------------------
EXTENDS RewardLoop

Setup(mode, scorer, rows, workers, rpm, tpm, conc, sync, dicts, shapes) ==
    [mode |-> mode, scorer |-> scorer, rows |-> rows, workers |-> workers, rpm |-> rpm, tpm |-> tpm,
     max_concurrent |-> conc, sync |-> sync, scalar |-> (1..rows) \ dicts, shapes |-> shapes,
     standalone |-> mode # "batch"]

One == {<<<<2, 1>>>>, <<<<1, 0>>>>}
Same == {<<<<1, 2>>>>}
\* A first output longer, and shorter, than the last one.
Several == {<<<<1, 2>>>>, <<<<2, 2>>, <<1, 1>>>>, <<<<1, 3>>, <<3, 1>>>>}

\* dicts: the rows whose scorer returns a dictionary. A reward model has servers of its
\* own when sessions are streamed to it, and shares the trainer's pool otherwise: streamed
\* to in a pool, it sleeps from its construction on and never answers (see AskedAwake).
MCSetups ==
    { Setup("stream", "limited", 3, 1, 1, 3, 1, FALSE, {}, Same),
      Setup("stream", "limited", 3, 2, 2, 0, 1, TRUE, {}, Same),
      Setup("stream", "limited", 3, 1, 3, 2, 2, TRUE, {2}, Same),
      Setup("batch", "plain", 4, 2, 0, 0, 1, FALSE, {}, One),
      Setup("stream", "plain", 2, 2, 0, 0, 1, TRUE, {}, One),
      Setup("queue", "limited", 2, 1, 3, 0, 1, TRUE, {}, One),
      Setup("queue", "plain", 2, 1, 0, 0, 1, FALSE, {}, Several \cup One),
      Setup("batch", "disrm", 3, 1, 0, 0, 1, FALSE, {}, Same),
      Setup("stream", "disrm", 2, 2, 0, 0, 1, FALSE, {}, Same) }
=============================================================================
