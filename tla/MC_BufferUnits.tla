--------------------------- MODULE MC_BufferUnits ---------------------------
(* The buffer boxes for TLC: a few typed values, among them 0.29 frames,   *)
(* which (int)(0.29 * 100) turns into 28, and one tie, 1.50 frames.        *)
EXTENDS BufferUnits

\* Values x 100: 0, 0.29, 1.50 and 3 frames.
MCTypedValues == {0, 29, 150, 300}

\* (int)(v / 100.0 * 100) = v - 1 for these of MCTypedValues (IEEE doubles).
MCLossy == {29}

MCRemoteValues == {0, 150}
=============================================================================
