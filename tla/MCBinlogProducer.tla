-------------------------- MODULE MCBinlogProducer --------------------------
(***************************************************************************)
(* Instances of BinlogProducer for TLC.                                    *)
(***************************************************************************)
EXTENDS BinlogProducer
=============================================================================
