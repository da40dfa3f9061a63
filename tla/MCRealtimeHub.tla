---------------------------- MODULE MCRealtimeHub ----------------------------
\* TLC instance of RealtimeHub: ann and bob are connected; queues of one place are full at every turn.
EXTENDS RealtimeHub, TLC

CONSTANTS a1, b1, ann, bob, ch1, f1

MCClients == {a1, b1}
MCUsers == {ann, bob}
MCChannels1 == {ch1}
MCFiles == {f1}
MCUserOf(c) == IF c = b1 THEN bob ELSE ann
MCShareChannel(f) == ch1
==============================================================================
