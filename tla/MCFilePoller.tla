---------------------------- MODULE MCFilePoller ----------------------------
(***************************************************************************)
(* Instance of FilePoller for TLC: an output stream that can be read, and  *)
(* a stdin whose reader has gone while data is to be written.              *)
(***************************************************************************)
EXTENDS FilePoller

MCRevents == {{"IN"}, {"ERR", "OUT"}}
=============================================================================
