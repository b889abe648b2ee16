----------------------------- MODULE MCChannels -----------------------------
(* A small instance of Channels, whose constants the cfg gives as they are.  *)
EXTENDS Channels
=============================================================================
