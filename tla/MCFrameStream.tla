--------------------------- MODULE MCFrameStream ---------------------------
(* Instances of FrameStream for TLC: every length from empty to one more   *)
(* than a field of two binary digits can carry.                            *)
EXTENDS FrameStream

AllLengths == {<<>>, <<1>>, <<0, 1>>, <<1, 1, 0>>, <<1, 0, 1, 0>>}

=============================================================================
