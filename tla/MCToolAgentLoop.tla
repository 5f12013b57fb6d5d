--------------------------- MODULE MCToolAgentLoop ---------------------------
EXTENDS ToolAgentLoop

MCTruncations == {[side |-> "left", limit |-> 2], [side |-> "right", limit |-> 2],
                  [side |-> "middle", limit |-> 3], [side |-> "middle", limit |-> 1]}
=============================================================================
