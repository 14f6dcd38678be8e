--------------------------- MODULE MCIndexPublish ---------------------------
(***************************************************************************)
(* IndexPublish for TLC.  Three builds: one to load, one that replaces it  *)
(* while it is loaded, and one that is published after a torn load.  Two   *)
(* faults: a crash in the middle of a swap, followed by a failed build or  *)
(* by a crash of the API.                                                  *)
(***************************************************************************)
EXTENDS IndexPublish
=============================================================================
