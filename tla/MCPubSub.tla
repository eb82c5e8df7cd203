------------------------------ MODULE MCPubSub ------------------------------
(* a reads and is careful; b does not read, subscribes and unsubscribes as *)
(* it likes, closes and panics.                                            *)
EXTENDS PubSub

CONSTANTS a, b

Two   == {a, b}
OnlyA == {a}
OnlyB == {b}
=============================================================================
