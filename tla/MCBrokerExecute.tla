-------------------------- MODULE MCBrokerExecute --------------------------
EXTENDS BrokerExecute, TLC

\* Calls are told apart by nothing but their names.
CallSymmetry == Permutations(Calls)
=============================================================================
