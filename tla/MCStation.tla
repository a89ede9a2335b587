------------------------------- MODULE MCStation -------------------------------
(* Station for TLC: one page, and a station whose two queues may each be a   *)
(* USB printer that has a serial number or a network printer that has none.  *)
EXTENDS Station

CONSTANTS a, b

MCNames == <<a, b>>
=============================================================================
