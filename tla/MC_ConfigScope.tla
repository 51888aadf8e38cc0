--------------------------- MODULE MC_ConfigScope ---------------------------
(* Two titles on the host's game list and one it does not have. *)
EXTENDS ConfigScope

CONSTANTS t1, t2, t3

MCTitles == {t1, t2, t3}
MCGameList == {t1, t2}
=============================================================================
