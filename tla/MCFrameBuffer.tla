---------------------------- MODULE MCFrameBuffer ----------------------------
(* Small instances of FrameBuffer for TLC: the shortest frame, one that ends in
   the middle of the buffer, and one that fills it. *)
EXTENDS FrameBuffer

MCFrameLens == {2, 3, 5}
=============================================================================
