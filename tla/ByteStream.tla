-------------------------------- MODULE ByteStream --------------------------------
(***************************************************************************)
(* What a net.Conn promises in one direction: the bytes read are a prefix  *)
(* of the bytes written.  EncryptedConn is to be one.                      *)
(***************************************************************************)
EXTENDS Sequences, SequencesExt

CONSTANT Bytes

VARIABLES written, delivered

streamVars == <<written, delivered>>

Init == written = <<>> /\ delivered = <<>>

(* A step may add to what was written or to what was read, and never takes *)
(* anything back.                                                          *)
Write == /\ written' \in Seq(Bytes)
         /\ IsPrefix(written, written')
         /\ UNCHANGED delivered

Read == /\ delivered' \in Seq(Bytes)
        /\ IsPrefix(delivered, delivered')
        /\ IsPrefix(delivered', written)
        /\ UNCHANGED written

Spec == Init /\ [][Write \/ Read]_streamVars
===================================================================================
