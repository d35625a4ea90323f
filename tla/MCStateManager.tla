--------------------------- MODULE MCStateManager ---------------------------
(* StateManager on a live and an ordinary field, with one known value. *)
EXTENDS StateManager, TLC

CONSTANTS live, plain, v1, none

MCFields == {live, plain}
MCLive == {live}
MCValues == {v1}
=============================================================================
