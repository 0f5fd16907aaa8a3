------------------------------ MODULE MCOccTop ------------------------------
(* Instances of OccTop for TLC: three addresses, a two-word window that is *)
(* region 0 and a one-word window that is region 1.                        *)
EXTENDS OccTop

MCAddrSpace == 3
MCRegions   == {0, 1}
MCWindows   == {0, 1}
MCRegionOf  == [a \in 0 .. 2 |-> a \div 2]
MCWindowOf  == [a \in 0 .. 2 |-> a \div 2]

MCLocks     == {0, 1}                       \* a lock bit per region
MCLockOf    == [r \in MCRegions |-> r]
MCOneLock   == {0}                          \* both regions alias one bit
MCAliasOf   == [r \in MCRegions |-> 0]

MCFullFrames  == {<<0, 2>>, <<2, 1>>}             \* whole windows
MCFrames      == {<<0, 0>>, <<0, 2>>, <<2, 1>>}   \* and an empty frame

\* a stream of each frame length
MCExpects   == {<<1, 0>>, <<1>>}
=============================================================================
