------------------------------ MODULE ShmRing ------------------------------
(***************************************************************************)
(* The ring buffer of a shared-memory port, a queue of descriptors that    *)
(* every registered listener reads for itself                              *)
(* (rtps/transport/shared_mem/MultiProducerConsumerRingBuffer.hpp).  Each  *)
(* operator is one atomic access of the code: what happens between two of  *)
(* them is up to the module that uses the ring.                            *)
(*                                                                         *)
(* A pointer is the index of a cell and a loop flag, which changes at each *)
(* lap and tells a full ring from an empty one.                            *)
(***************************************************************************)
EXTENDS Integers, Sequences

CONSTANT TotalCells     \* total_cells_: port_queue_capacity, 512 by default

ASSUME CellsAssumption == TotalCells \in Nat \ {0}

Cells == 0 .. TotalCells - 1
Pointers == [value : Cells, loop : {0, 1}]

\* init_node() and the counters of the cells: all cells free, no listener.
init_node(noData) ==
    [write_p    |-> [value |-> 0, loop |-> 0],
     free_cells |-> TotalCells,
     registered |-> 0,
     refs       |-> [c \in Cells |-> 0],
     data       |-> [c \in Cells |-> noData]]

\* Faulty variant of inc_pointer, which the properties must reject: the loop flag never
\* changes.
inc_pointer_SameLoop(p) == [p EXCEPT !.value = (p.value + 1) % TotalCells]

inc_pointer(p) ==
    LET value == (p.value + 1) % TotalCells
    IN  [value |-> value, loop |-> IF value = 0 THEN 1 - p.loop ELSE p.loop]

is_buffer_full(ring) == ring.free_cells = 0
is_buffer_empty(ring) == ring.free_cells = TotalCells

\* push(), first access: the cell at write_p is claimed.
claim_cell(ring) ==
    [ring EXCEPT !.write_p = inc_pointer(@), !.free_cells = @ - 1]

\* Faulty variant of store_cell, which the properties must reject: one reader is awaited,
\* whatever the number of listeners.
store_cell_OneReader(ring, c, d) ==
    [ring EXCEPT !.data[c] = d, !.refs[c] = 1]

\* push(), second access: the claimed cell c gets its data and one reference per listener.
store_cell(ring, c, d) ==
    [ring EXCEPT !.data[c] = d, !.refs[c] = ring.registered]

\* Listener::head() is not null.
has_head(ring, read_p) == read_p # ring.write_p /\ ring.refs[read_p.value] # 0

\* Listener::pop(), first access: one reader less; the last one is to free the cell.
fetch_sub(ring, read_p) == [ring EXCEPT !.refs[read_p.value] = @ - 1]
is_last_reader(ring, read_p) == ring.refs[read_p.value] = 1

\* Listener::pop(), second access, of the last reader only.
free_cell(ring) == [ring EXCEPT !.free_cells = @ + 1]

register_listener(ring) == [ring EXCEPT !.registered = @ + 1]
unregister_listener(ring) == [ring EXCEPT !.registered = @ - 1]

\* The cells from read_p up to write_p, oldest first.
Ahead(ring, read_p) ==
    LET lap      == IF read_p.loop = ring.write_p.loop THEN 0 ELSE TotalCells
        distance == lap + ring.write_p.value - read_p.value
    IN  [i \in 1 .. distance |-> (read_p.value + i - 1) % TotalCells]
=============================================================================
