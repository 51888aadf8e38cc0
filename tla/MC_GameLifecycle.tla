-------------------------- MODULE MC_GameLifecycle --------------------------
(* The lifecycle for TLC: three games in a session.                        *)
EXTENDS GameLifecycle

MCMaxGames == 3
=============================================================================
