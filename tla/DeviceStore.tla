---------------------------- MODULE DeviceStore ----------------------------
(***************************************************************************)
(* The interface's device table as data (src/device_store.rs): a row per   *)
(* device id, None where the table has no row.  The operation marker of a  *)
(* row (`pending') belongs to the window and is not modelled here.         *)
(***************************************************************************)
EXTENDS Coalescer

CONSTANT UnknownTarget      \* Target::Other(u32::MAX), a new row before a delta

Row == [target: Targets, desc: Descriptions]

Table == [Ids -> Row \cup {None}]

\* DeviceStore::clear
EmptyTable == [i \in Ids |-> None]

\* The row a delta starts from: the device's own, or a new one.
RowFor(row) ==
    IF row # None THEN row ELSE [target |-> UnknownTarget, desc |-> None]

\* Mutant: the removal of a batch is skipped.
ApplyDeltaIgnoringRemoval(row, e) ==
    IF e = None THEN row
    ELSE [target |-> IF e.target # None THEN e.target ELSE RowFor(row).target,
          desc   |-> IF e.desc # None THEN e.desc ELSE RowFor(row).desc]

\* One delta of DeviceStore::apply; None is an id the batch does not mention.
ApplyDelta(row, e) ==
    CASE e = None -> row
      [] e # None /\ e.removed -> None
      [] OTHER ->
            [target |-> IF e.target # None THEN e.target ELSE RowFor(row).target,
             desc   |-> IF e.desc # None THEN e.desc ELSE RowFor(row).desc]

\* DeviceStore::apply
ApplyBatch(table, batch) == [i \in Ids |-> ApplyDelta(table[i], batch[i])]
=============================================================================
