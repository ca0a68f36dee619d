--------------------------- MODULE MCPublisherApp ---------------------------
(* Small instances of PublisherApp for TLC. *)
EXTENDS PublisherApp, TLC

\* Readers are interchangeable.  Used only where no temporal property is checked.
ReaderSymmetry == Permutations(Readers)
=============================================================================
