------------------------------ MODULE NorFlash ------------------------------
(***************************************************************************)
(* The FLASH device seen through the block cells that wormvars stores in   *)
(* it.  Erased FLASH reads as all ones, and programming can only clear     *)
(* bits: writing w over a cell that holds c leaves (c & w).  The module    *)
(* has no state of its own; it gives the cells, the effect of the write    *)
(* accesses that wormvars issues on one cell, and what a cell may hold     *)
(* when power fails while it is being programmed.                          *)
(***************************************************************************)
EXTENDS Integers

CONSTANTS Ids,      \* variable identifiers: the pair (name, ext)
          Data,     \* contents of a variable (the 28 data bytes)
          Erased,   \* a field whose bits are all ones
          Garbled,  \* a field whose bits mix those of several writes
          Tears     \* outcomes of an interrupted write that can be found

ASSUME FieldsDistinct == /\ Erased # Garbled
                         /\ {Erased, Garbled} \cap (Ids \cup Data) = {}
ASSUME TearsKnown == Tears \subseteq {"blank", "illegal", "errored", "dirty"}

(* Values of the two-bit size field and of the newer bit of a header. *)
FS_SIZEINVALID == 0
FS_SIZE32 == 1
FS_SIZEERASED == 3
FS_BLOCK_CURRENT == 0
FS_BLOCK_NEWER == 1

Sizes == {FS_SIZEINVALID, FS_SIZE32, FS_SIZEERASED}
Flags == {FS_BLOCK_CURRENT, FS_BLOCK_NEWER}
IdField == Ids \cup {Erased, Garbled}
DataField == Data \cup {Erased, Garbled}

(* struct st_blockHeader.  The hash byte is represented in Cell by the     *)
(* Boolean "the stored hash matches the contents".                         *)
Header == [size : Sizes, newer : Flags, id : IdField]

Cell == [size : Sizes, newer : Flags, id : IdField, data : DataField,
         hash : BOOLEAN]

Blank == [size |-> FS_SIZEERASED, newer |-> FS_BLOCK_NEWER, id |-> Erased,
          data |-> Erased, hash |-> FALSE]

(* The block that fs_write composes in its write buffer. *)
Block(id, data) == [size |-> FS_SIZE32, newer |-> FS_BLOCK_NEWER, id |-> id,
                    data |-> data, hash |-> TRUE]

HeaderOf(c) == [size |-> c.size, newer |-> c.newer, id |-> c.id]

-----------------------------------------------------------------------------
(* AND of two size fields or of two newer bits.  The masks 11, 01 and 00   *)
(* are nested, so their conjunction is the smaller one.                    *)
AndBits(a, b) == IF a <= b THEN a ELSE b

(* AND of two wide fields: erased bits take what is written, equal bits    *)
(* stay, different contents are mixed up.                                  *)
AndField(a, b) == IF a = Erased THEN b
                  ELSE IF b = Erased \/ a = b THEN a
                  ELSE Garbled

(* A 32-byte write on a cell. *)
Program(c, w) ==
  [size  |-> AndBits(c.size, w.size),
   newer |-> AndBits(c.newer, w.newer),
   id    |-> AndField(c.id, w.id),
   data  |-> AndField(c.data, w.data),
   hash  |-> /\ w.hash
             /\ \/ c = Blank
                \/ c.hash /\ c.id = w.id /\ c.data = w.data]

(* A 4-byte write of a header on a cell: the data bytes are left alone. *)
ProgramHeader(c, h) ==
  [c EXCEPT !.size = AndBits(@, h.size),
            !.newer = AndBits(@, h.newer),
            !.id = AndField(@, h.id),
            !.hash = @ /\ c.id = h.id]

(* A 1-byte write of a header on a cell: size and newer only. *)
ProgramFlags(c, h) ==
  [c EXCEPT !.size = AndBits(@, h.size), !.newer = AndBits(@, h.newer)]

(* What a blank cell may hold when power fails during a 32-byte write:     *)
(* nothing was programmed, the size field was not, some bits of the block  *)
(* were not, or some data bits were but no bit of the header.              *)
TornCell == [blank   |-> Blank,
             illegal |-> [Blank EXCEPT !.id = Garbled, !.data = Garbled],
             errored |-> [Blank EXCEPT !.size = FS_SIZE32, !.id = Garbled,
                                       !.data = Garbled],
             dirty   |-> [Blank EXCEPT !.data = Garbled]]

(* The cells an interrupted write of w on c may leave. *)
TornWrites(c) == {Program(c, TornCell[t]) : t \in Tears}

-----------------------------------------------------------------------------
(* checkBlock: the header is looked at first, the hash last. *)
BLOCK_IS_VALID == 0
BLOCK_IS_BLANK == -1
BLOCK_IS_INVALID == -2
BLOCK_IS_ILLEGALSIZE == -3
BLOCK_IS_ERRORED == -4

BlankHeader == HeaderOf(Blank)

checkBlock(c) ==
  IF HeaderOf(c) = BlankHeader THEN BLOCK_IS_BLANK
  ELSE IF c.size = FS_SIZEINVALID THEN BLOCK_IS_INVALID
  ELSE IF c.size # FS_SIZE32 THEN BLOCK_IS_ILLEGALSIZE
  ELSE IF ~c.hash THEN BLOCK_IS_ERRORED
  ELSE BLOCK_IS_VALID
=============================================================================
