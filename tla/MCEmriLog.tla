----------------------------- MODULE MCEmriLog ------------------------------
(* Instances of EmriLog for TLC.                                           *)
EXTENDS EmriLog

Rq(op) == [op |-> op]

\* One entry of the daemon, single-bit notifications as the daemon writes them,
\* releases of a whole region as the host writes them.
MCRequests ==
  {NoRequest, Rq("pop"), Rq("clear"),
   [op |-> "push", entry |-> <<"hb_mismatch", 0, 0>>],
   [op |-> "thresh", thresh |-> [recfg |-> 0, wdt |-> 0]]}
  \cup {[op |-> "notify", bits |-> {x}] :
          x \in {<<"recfg", 0>>, <<"wdt", 1>>}}
  \cup {[op |-> "window", window |-> w] : w \in {0, 2}}
  \cup {[op |-> "w1c", throttle |-> {rg}, flags |-> Kinds \X {rg}] :
          rg \in Regions}
=============================================================================
