---------------------------- MODULE MCInterrupts ----------------------------
(* Instances of Interrupts for TLC. *)
EXTENDS Interrupts

MCBiosSources == {5, 6, 7, 8}
MCBiosLevels == {0, 5}
MCBiosMasks == {0, 4, 7}

MCDirectSources == {5, 6}
MCDirectLevels == {0, 1, 5}
MCDirectMasks == {1, 7}
=============================================================================
