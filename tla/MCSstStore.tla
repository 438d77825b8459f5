----------------------------- MODULE MCSstStore -----------------------------
(* Values for SstStore's constants that a cfg cannot write. *)
EXTENDS SstStore

(* The bits of a key are among those of every larger one: a filter that    *)
(* holds a key answers yes for the smaller ones as well, false positives.  *)
MCHash == [k \in Keys \cup {EmptyKey} |-> 0..k]
=============================================================================
