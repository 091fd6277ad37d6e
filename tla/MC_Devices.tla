------------------------------ MODULE MC_Devices ------------------------------
(***************************************************************************)
(* Small instances of Devices for TLC.                                    *)
(***************************************************************************)
EXTENDS Devices

\* Three devices; <<1, 2>> and <<2, 1>> are each other's flip, <<1, 1>> is
\* its own.
MCAddrs == {<<1, 2>>, <<2, 1>>, <<1, 1>>}

\* One descriptor per synchronisation: with a neighbour list of up to two
\* addresses this already replaces one device by another.
MCTableCap1 == 1

\* A cache that holds the old and the new table together.
MCCacheSize2 == 2
====
