------------------------------- MODULE Cells -------------------------------
(***************************************************************************)
(* What a CKB script sees of a cell.  A transaction of this chain consumes *)
(* cells and creates cells; each cell has a lock script, an optional type  *)
(* script, a capacity and data.  Scripts are named by their hashes, which  *)
(* are all the code under c/ ever compares (CKB_CELL_FIELD_LOCK_HASH,      *)
(* CKB_CELL_FIELD_TYPE_HASH), and data is split into what the code tells   *)
(* apart: its length against DATA_SIZE and the u128 in its first 16 bytes. *)
(***************************************************************************)
EXTENDS Naturals, Sequences

CONSTANTS
  LockHashes,   \* hashes of lock scripts
  TypeHashes,   \* hashes of type scripts
  NoType,       \* "no type script": the VM answers CKB_ITEM_MISSING
  U128,         \* how many values an uint128_t has (2^128; small for TLC)
  U64           \* how many values an uint64_t has (2^64; small for TLC)

ASSUME WidthAssumption == U128 \in Nat \ {0} /\ U64 \in Nat \ {0}
ASSUME NoTypeAssumption == NoType \notin TypeHashes

Amounts == 0 .. U128 - 1
Capacities == 0 .. U64 - 1

\* Length of a cell's data against DATA_SIZE (16 bytes).
DataSizes == {"short", "exact", "long"}

Cell == [lock : LockHashes, type : TypeHashes \union {NoType},
         size : DataSizes, amt : Amounts, capacity : Capacities]

\* What ckb_load_cell_data leaves in an uint128_t when the caller does not
\* look at the returned length: the first 16 bytes of the data, or, when the
\* data is shorter, bytes of an uninitialised variable.
ReadAmount(cell) == IF cell.size = "short" THEN Amounts ELSE {cell.amt}

\* The positions of a list (or family) of cells that hold lock hash h.
LockedBy(cells, h) == {k \in DOMAIN cells : cells[k].lock = h}

AtMostOne(S) == \A x, y \in S : x = y
ExactlyOne(S) == S # {} /\ AtMostOne(S)
=============================================================================
