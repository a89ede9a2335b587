---------------------------- MODULE MCRasterLabel ----------------------------
(* RasterLabel for TLC: a filter that may send a few lines of each kind, the *)
(* wrong ones included, and graphics of one byte per row or two.             *)
EXTENDS RasterLabel

MCDrivers == {[lines |-> Directives, bytes |-> 2],
              [lines |-> Directives \ {"model"}, bytes |-> 2]}

MCValues ==
    [junk |-> {""}, SD |-> {31}, DG |-> {<<1, 1>>, <<3, 1>>, <<2, 2>>, <<3, 2>>, <<4, 1>>},
     XA |-> {""}, PO |-> {"I", "N"}, PW |-> {5, 12, 16}, LH |-> {""},
     LL |-> {2}, MN |-> {"Y"}, LT |-> {-10001}, XG |-> {""}, CN |-> {"1"}]
=============================================================================
