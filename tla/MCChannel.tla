----------------------------- MODULE MCChannel ------------------------------
(* Instances of the channel for TLC: writers send one byte, s1 two. *)
EXTENDS Channel
CONSTANT s1
MCMaxSent == [s \in Senders |-> IF s = s1 THEN 2 ELSE 1]
=============================================================================
