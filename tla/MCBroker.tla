------------------------------- MODULE MCBroker -------------------------------
(* Instances of Broker for TLC: tabs are interchangeable, broadcasters too.    *)
EXTENDS Broker, TLC

CONSTANTS c1, c2, b1, b2

TwoClients == {c1, c2}
TwoBroadcasters == {b1, b2}
BrokerSymmetry == Permutations(TwoClients) \cup Permutations(TwoBroadcasters)
===============================================================================
