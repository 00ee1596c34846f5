--------------------------- MODULE MCBufferedDown ---------------------------
(* A stream of five blocks, as write() leaves it after five writes: the    *)
(* table of the tail leads through the second block to the first two and   *)
(* through the fourth to the next two, so that the first and the third are *)
(* two requests away.                                                      *)
EXTENDS BufferedDown

MCBorder == <<1, 3, 4, 6, 8>>

MCPath == <<<<2, 1>>, <<2>>, <<4, 3>>, <<4>>, <<>>>>
============================================================================
