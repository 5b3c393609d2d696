------------------------------ MODULE MCWireFeed ------------------------------
EXTENDS WireFeed

\* The default sev_tension_scale.
MCScale == [s \in 0..3 |-> <<100, 85, 60, 0>>[s + 1]]
===============================================================================
