------------------------------- MODULE MCAta --------------------------------
(* Ata on a machine with a drive on each bus and two on the first, and on    *)
(* one with a single drive, whose second bus floats.                         *)
EXTENDS Ata

MCMachines == { {<<0, 0>>, <<0, 1>>, <<1, 0>>}, {<<0, 0>>} }

MCBlockCount == [p \in Places |-> IF p = <<0, 1>> THEN 2 ELSE 1]
=============================================================================
