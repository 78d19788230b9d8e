---------------------------- MODULE MCByteArray ----------------------------
(***************************************************************************)
(* Instances of ByteArray for TLC.                                         *)
(***************************************************************************)
EXTENDS ByteArray
=============================================================================
