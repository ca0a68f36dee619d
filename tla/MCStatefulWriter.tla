-------------------------- MODULE MCStatefulWriter --------------------------
\* StatefulWriter for TLC.  On its own the writer reads neither what it has sent nor its count
\* of heartbeats, so states that differ only in these are not told apart; the bound on the
\* count is set so high that it is never reached.  Readers are interchangeable.
EXTENDS StatefulWriter, TLC

ReaderSymmetry == Permutations(Readers)
SilentView == <<whist, lastSeq, rp, periodic_hb, nack_response, new_ones, old_ones, nextAllAcked,
                may_remove_change_, wpc>>
=============================================================================
