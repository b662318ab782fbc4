-------------------------------- MODULE MCDav --------------------------------
(* Instances of Dav for TLC.                                               *)
EXTENDS Dav, TLC
=============================================================================
