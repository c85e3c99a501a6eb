---------------------------- MODULE MCPartition ----------------------------
(* Partition tables for TLC.                                                *)
EXTENDS StoragePartition

(* Two sectors and a read-only one behind them.                             *)
AlignedTable ==
    <<[base |-> 0, size |-> 4, readonly |-> FALSE], [base |-> 4, size |-> 2, readonly |-> TRUE]>>

(* A read-only sector and a partition that begins between two multiples of  *)
(* the larger erase unit.                                                   *)
SectorAlignedTable ==
    <<[base |-> 0, size |-> 2, readonly |-> TRUE], [base |-> 2, size |-> 6, readonly |-> FALSE]>>
=============================================================================
