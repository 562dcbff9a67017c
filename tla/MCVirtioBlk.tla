----------------------------- MODULE MCVirtioBlk -----------------------------
EXTENDS VirtioBlk

Slot(ids, m) == [ids |-> ids, multi |-> m]
\* The disk as a plain device, as function 3 of a slot behind an empty one, as
\* a function that nobody looks at, and past the end of the table.
Plain == <<Slot(<<7>>, FALSE), Slot(<<1>>, FALSE)>>
Third == <<Slot(<<0, 1>>, TRUE), Slot(<<7, 0, 1>>, TRUE)>>
Hidden == <<Slot(<<7, 1>>, FALSE)>>
Past == <<Slot(<<7, 8>>, TRUE), Slot(<<1>>, FALSE)>>

M(b, i, n, c) == [bus |-> b, io |-> i, num |-> n, cap |-> c]
MCMachines == {M(Plain, TRUE, 8, 1), M(Third, TRUE, 4, 2), M(Plain, TRUE, 2, 1),
               M(Plain, TRUE, 4, 0), M(Plain, TRUE, 0, 2), M(Plain, FALSE, 4, 2),
               M(Hidden, TRUE, 4, 2), M(Past, TRUE, 4, 2)}
=============================================================================
