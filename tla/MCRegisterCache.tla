-------------------------- MODULE MCRegisterCache --------------------------
(* RegisterCache with a few lists of registers, for TLC. *)
EXTENDS RegisterCache

W(reg, bit) == [reg |-> reg, value |-> [p \in PartsOf(reg) |-> bit]]

MCReadLists == {<< "control", "r0" >>, << "primask" >>}
MCWriteLists == {<< W("control", 1), W("primask", 0) >>, << W("r0", 1) >>}
=============================================================================
