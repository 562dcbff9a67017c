-------------------------------- MODULE MCVmm --------------------------------
EXTENDS Vmm

Entry(b, l, u) == [base |-> b, len |-> l, usable |-> u]
\* Half a page on both sides of the usable run; a run from address 0; a run
\* as long as the bitmap takes.
Ragged == {Entry(0, 3, FALSE), Entry(3, 18, TRUE), Entry(21, 3, FALSE)}
FromZero == {Entry(0, 5, TRUE), Entry(5, 1, FALSE), Entry(6, 16, TRUE)}
Long == {Entry(0, 6, FALSE), Entry(6, 19, TRUE)}

M(c, b, mm, h) == [cpus |-> c, bsp |-> b, memmap |-> mm, huge |-> h]
MCMachines == {M(3, 0, Ragged, {}), M(2, 1, Ragged, {"hpd"}), M(1, 0, Long, {"hpt"}),
               M(1, 0, FromZero, {}), M(1, 0, FromZero, {"hpd"})}
\* One AP, which Limine lists in front of the BSP or after it.
MCPairs == {M(2, b, Ragged, {}) : b \in 0 .. 1}

\* The heap has one page table, the LAPIC's page another.
MCPath(v) == IF v = 9 THEN <<"hpdp", "hpd", "hpt">>
             ELSE <<"pdp", "pd", "pt">>
MCDevice == [start |-> 40, n |-> 1, boot |-> FALSE]
=============================================================================
