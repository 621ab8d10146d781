--------------------------- MODULE MCModbusMeteo ---------------------------
(* ModbusMeteo with the register of one sensor, besides the one that has   *)
(* no flag.                                                                *)
EXTENDS ModbusMeteo

MCRegs == {"T1"}
=============================================================================
