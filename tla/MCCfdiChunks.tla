---------------------------- MODULE MCCfdiChunks ----------------------------
(***************************************************************************)
(* Instances of CfdiChunks for TLC.                                        *)
(***************************************************************************)
EXTENDS CfdiChunks

=============================================================================
