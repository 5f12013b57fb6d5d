-------------------------- MODULE MCMessageQueue --------------------------
(* Two consumers on a deque of two, with enough puts to overrun it twice.  *)
EXTENDS MessageQueue
=============================================================================
