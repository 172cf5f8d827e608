----------------------------- MODULE MCBackwyn -----------------------------
(***************************************************************************)
(* Instances of Backwyn for TLC.                                           *)
(***************************************************************************)
EXTENDS Backwyn, TLC

CONSTANTS daemon, cron, shell  \* processes

\* A day is two seconds, a week and a month four.
MCDayOf == [t \in Stamps |-> t \div 2]
MCWeekOf == [t \in Stamps |-> t \div 4]

Pol(last, daily) == [last |-> last, daily |-> daily, weekly |-> 0, monthly |-> 0]

\* No policy, one slot, and a count below zero, which keeps only what the
\* guards keep.
MCPolicies == {Pol(0, 0), Pol(0, 1), Pol(-1, 0)}
SlotPolicy == {Pol(1, 0)}

\* The daemon's cycles beside prunes from elsewhere.
SupervisedProcs == {daemon, cron}
SupervisedCommands == (daemon :> {"run"}) @@ (cron :> {"prune"})

\* One shell, one command after the other.
ShellAlone == {shell}
ShellCommands == shell :> {"backup", "verify", "prune", "run"}

\* The daemon's cycles beside an operator's verify.
WithOperator == {daemon, shell}
OperatorCommands == (daemon :> {"run"}) @@ (shell :> {"verify"})
=============================================================================
