------------------------------ MODULE MCChatFeed ------------------------------
(* Two streams, of two players or both of one.                              *)
EXTENDS ChatFeed

CONSTANTS alice, bob, s1, s2

MCPlayers == {alice, bob}
MCStreams == {s1, s2}
MCOneStream == {s1}
MCOwner   == [s \in Streams |-> IF s = s1 THEN alice ELSE bob]
=============================================================================
