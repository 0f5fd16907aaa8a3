------------------------------ MODULE EvtFifo -------------------------------
(***************************************************************************)
(* What the event-log ring of the EMRI promises: a bounded first-in        *)
(* first-out log that forgets its oldest entry when a new one finds it     *)
(* full, and everything when it is cleared.                                *)
(***************************************************************************)
EXTENDS Naturals, Sequences

CONSTANTS
  Depth,        \* EVT_LOG_DEPTH
  Entries       \* the words a producer may push

VARIABLE log    \* pushed, not popped; the oldest first

Push(e) == log' = Append(IF Len(log) = Depth THEN Tail(log) ELSE log, e)

Pop == log # <<>> /\ log' = Tail(log)

Clear == log' = <<>>

Init == log = <<>>

Next == (\E e \in Entries : Push(e)) \/ Pop \/ Clear

Spec == Init /\ [][Next]_log
=============================================================================
