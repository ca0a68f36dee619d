-------------------------- MODULE MCStatefulReader --------------------------
\* StatefulReader for TLC.  Writers are interchangeable in the safety properties.
EXTENDS StatefulReader, TLC

WriterSymmetry == Permutations(Writers)

Seen == hist \cup taken \cup irrelevant \cup lost
Known == {w \in Writers : wp[w].alive \/ w \in gone \/ history_record[w] # 0}
            \cup {x[1] : x \in Seen} \cup {m.writer : m \in net}

\* Bound: while the reader knows more than one writer, two sequence numbers of each, one
\* heartbeat count of one of them and no ACKNACK, which only the timers send; with a single
\* writer, as many as the constants allow.
FewOfMany ==
    Cardinality(Known) > 1 =>
        /\ acknack_count_ = 0
        /\ \A w \in Known : wp[w].max <= 2 /\ wp[w].hbCount <= 1
        /\ Cardinality({w \in Known : wp[w].hbCount > 0}) <= 1
        /\ \A x \in Seen : x[2] <= 2
=============================================================================
