-------------------------- MODULE MCGraphStartup --------------------------
(* An instance of GraphStartup for TLC.                                    *)
EXTENDS GraphStartup

CONSTANTS w1, w2, w3
===========================================================================
