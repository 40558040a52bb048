-------------------------------- MODULE MCGatt ---------------------------------
(* GattGlue with an array of one key: a session can send half of it, both     *)
(* halves, or one too many, and a later session another value over the saved. *)
EXTENDS GattGlue

CONSTANTS c1, c2
MCChunk == {c1, c2}
================================================================================
