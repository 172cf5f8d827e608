------------------------------ MODULE MCRunner ------------------------------
(***************************************************************************)
(* Instances of Runner for TLC.                                            *)
(***************************************************************************)
EXTENDS Runner

MCDayOf == [t \in Stamps |-> t \div 2]
MCWeekOf == [t \in Stamps |-> t \div 4]

KeepOne == [last |-> 1, daily |-> 0, weekly |-> 0, monthly |-> 0]
=============================================================================
