---------------------------- MODULE MCFlashStore ----------------------------
(* Instances of FlashStore for TLC.  Bytes are as sold ("o") or new ("n"),   *)
(* which is also what erasing leaves; address 0 answers a status read.     *)
EXTENDS FlashStore

MCStatus == {0}
=============================================================================
