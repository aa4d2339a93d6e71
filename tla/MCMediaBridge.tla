---------------------------- MODULE MCMediaBridge ----------------------------
(* MediaBridge on a small instance.                                          *)
EXTENDS MediaBridge

===============================================================================
