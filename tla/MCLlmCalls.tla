------------------------------ MODULE MCLlmCalls ------------------------------
(* LlmCalls for TLC: a forecaster's call with three attempts, a stacker's with two. *)
EXTENDS LlmCalls
CONSTANTS forecaster, stacker

MCCallers == {forecaster, stacker}
MCBroad == {forecaster}
MCAttempts == [c \in MCCallers |-> IF c = forecaster THEN 3 ELSE 2]
=============================================================================
