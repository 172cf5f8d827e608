---------------------------- MODULE MCRetention ----------------------------
(***************************************************************************)
(* An instance of Retention for TLC: six seconds, three days of two, a     *)
(* week that ends after the first day and a month after the second, so     *)
(* that neither contains the other.                                        *)
(***************************************************************************)
EXTENDS Retention

MCDayOf == [t \in Stamps |-> t \div 2]
MCWeekOf == [t \in Stamps |-> IF t < 2 THEN 0 ELSE 1]
MCMonthOf == [t \in Stamps |-> IF t < 4 THEN 0 ELSE 1]

MCPolicies == [last : -1..2, daily : 0..2, weekly : 0..1, monthly : 0..1]
=============================================================================
