----------------------------- MODULE NorMemory ------------------------------
(***************************************************************************)
(* The bytes of a NOR FLASH device: a write can only clear bits, an erase  *)
(* sets all bits of a sector.  A byte is the set of its bits that are 1.   *)
(***************************************************************************)
EXTENDS Integers, Sequences

CONSTANTS Bits, Addresses,
          Sizes,         \* numbers of bytes that are written at once
          SectorOf(_)

VARIABLE mem

Blank == Bits    \* 0xFF
Init == mem = [a \in Addresses |-> Blank]

Write(address, data) ==
  mem' = [a \in Addresses |->
            IF a - address \in 0 .. Len(data) - 1
            THEN mem[a] \cap data[a - address + 1] ELSE mem[a]]

Erase(address) ==
  mem' = [a \in Addresses |->
            IF SectorOf(a) = SectorOf(address) THEN Blank ELSE mem[a]]

Read(address, size) == [k \in 1 .. size |-> mem[address + k - 1]]

Next == \/ \E a \in Addresses, n \in Sizes :
             \E data \in [1 .. n -> SUBSET Bits] : Write(a, data)
        \/ \E a \in Addresses : Erase(a)
Spec == Init /\ [][Next]_mem
=============================================================================
