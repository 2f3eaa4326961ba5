---------------------------- MODULE MCFileTransfer ----------------------------
(* Two uploads of two chunks, a small and a large download.  *)
EXTENDS FileTransfer
CONSTANTS p1, p2, g1, g2
MCSize == (p1 :> 2) @@ (p2 :> 2) @@ (g1 :> 1) @@ (g2 :> 2)
MCLarge == g2 :> 2
=============================================================================
