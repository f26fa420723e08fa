---------------------------- MODULE MCOrderEntry ----------------------------
(* Values for OrderEntry: prices of two digits around a power of ten.      *)
EXTENDS OrderEntry

\* Across the power of ten, and a book without asks.
MCQuotes == {[bid |-> 99, ask |-> 110], [bid |-> 97, ask |-> 0]}
MCHorizons == <<1, 2>>
=============================================================================
