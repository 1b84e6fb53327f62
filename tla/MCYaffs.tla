-------------------------------- MODULE MCYaffs -------------------------------
EXTENDS Yaffs

\* A chip in order; one with a bad first page in a block that cannot be marked;
\* one with a block that cannot be erased and another without a summary.
Fault(pages, erase, mark) == [program |-> pages, erase |-> erase, mark |-> mark, legible |-> FALSE]
MCFaults == {Fault({}, {}, {}), Fault({15}, {}, {5}), Fault({8}, {1}, {})}
MCSetup == <<<<1, 10, <<<<1, 1, 1, 1>>>>>>, <<2, 20, <<<<2, 2, 2, 2>>>>>>>>
MCWrites == {<<0, <<1, 1>>>>, <<2, <<3>>>>}

NoFaults == {Fault({}, {}, {})}

\* One file, to see what truncating it leaves.
OneFile == <<<<1, 10, <<<<1, 1, 1, 1>>>>>>>>
GrowWrites == {<<2, <<3>>>>}
=============================================================================
