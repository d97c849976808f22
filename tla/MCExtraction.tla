---------------------------- MODULE MCExtraction ----------------------------
(* Small instances of Extraction.                                          *)
EXTENDS Extraction

CONSTANTS d1, d2, d3, w1, w2
=============================================================================
