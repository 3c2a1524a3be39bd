---------------------------- MODULE MCRingBuffer ----------------------------
(***************************************************************************)
(* RingBuffer on a data area of 8 words with records of 3 words: two       *)
(* records fit, records straddle the end of the area at every other lap,   *)
(* and headers land on words that held bodies before.                      *)
(***************************************************************************)
EXTENDS RingBuffer
=============================================================================
