------------------------------ MODULE MCPeers ------------------------------
(* The instance of Peers for TLC: the values of config.py.                  *)
EXTENDS Peers, TLC

CONSTANTS me, p1

\* The wall clock leaps over the timeout: the machine was suspended.
SuspendedMachine == {Expiry + 1}

\* The instance satisfies it, with nothing to spare.
ASSUME TimingAssumption
=============================================================================
