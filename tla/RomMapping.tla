----------------------------- MODULE RomMapping -----------------------------
(***************************************************************************)
(* rommapping: where a byte of the console's address space is in the file  *)
(* of a game, and back, for the two kinds of cartridges.                   *)
(*                                                                         *)
(* The functions have no state; call is what a caller asks, one question   *)
(* after the other.  An unsigned value of the code that wraps below 0 is a *)
(* negative number here: both are the same int in the end.                 *)
(***************************************************************************)
EXTENDS Integers

CONSTANT Addresses   \* what is asked for
ASSUME AddressesAssumption == \A addr \in Addresses : addr \in Nat /\ addr < 16777216

SnesReserved == -1
Sram == -2
Wram == -3
Errors == {SnesReserved, Sram, Wram}

Bank(snes)   == snes \div 65536
Offset(snes) == snes % 65536

\* Banks 80 to FD are those from 00 on again.
Unmirrored(bank) == IF bank \in 128..253 THEN bank - 128 ELSE bank

LoromSnesToPc(snes) ==
  LET bank == Unmirrored(Bank(snes))
      offset == Offset(snes)
  IN  IF bank \in 0..63 /\ offset < 32768 /\ offset >= 8192 THEN SnesReserved
      ELSE IF bank \in (112..125) \cup {254, 255} /\ offset < 32768 THEN Sram
      ELSE IF bank \in {126, 127} \/ (bank \in 0..63 /\ offset < 8192) THEN Wram
      ELSE IF bank \in 64..111 /\ offset < 32768 THEN bank * 32768 + offset
      ELSE (IF bank \in {254, 255} THEN bank - 128 ELSE bank) * 32768 + (offset - 32768)

\* Bug: the upper half of the bank is forgotten.
LoromPcToSnesLow(pc) == (pc \div 32768) * 65536 + (pc % 32768)
LoromPcToSnes(pc) == (pc \div 32768) * 65536 + ((pc % 32768) + 32768)

HiromBank(bank) == IF bank >= 254 THEN bank - 192
                   ELSE IF bank \in 64..125 THEN bank - 64 ELSE bank
HiromSnesToPc(snes) ==
  LET bank == Unmirrored(Bank(snes))
      offset == Offset(snes)
  IN  IF \/ bank \in 0..31 /\ offset < 32768 /\ offset >= 8192
         \/ bank \in 32..63 /\ offset < 24576 /\ offset >= 8192 THEN SnesReserved
      ELSE IF bank \in 32..63 /\ offset >= 24576 /\ offset < 32768 THEN Sram
      ELSE IF bank \in {126, 127} \/ (bank \in 0..63 /\ offset < 8192) THEN Wram
      ELSE HiromBank(bank) * 65536 + offset

\* rommapping_snes_to_pc and back; the header of a copier is 512 bytes, which
\* are added to an error as well.
Types == {"LoROM", "HiROM", "ExLoROM", "ExHiROM"}
Header(header) == IF header THEN 512 ELSE 0
SnesToPc(snes, type, header) ==
  CASE type = "LoROM" -> LoromSnesToPc(snes) + Header(header)
    [] type = "HiROM" -> HiromSnesToPc(snes) + Header(header)
    [] OTHER -> -1
PcToSnes(pc, type, header) ==
  IF type = "LoROM" THEN LoromPcToSnes(pc - Header(header)) ELSE -1

VARIABLE call
RomCalls == [addr : Addresses, type : Types, header : BOOLEAN]
RomInit == call \in RomCalls
RomNext == call' \in RomCalls
RomSpec == RomInit /\ [][RomNext]_call
-----------------------------------------------------------------------------
\* A place in a LoROM file, mapped to the console and back, is the same place,
\* with a header and without; the last two of the 128 banks of a 4 MB game are
\* where the console has its RAM, and for them there is no way back.
RoundTrip ==
  LET pc == call.addr - Header(call.header) IN
  call.type = "LoROM" /\ pc >= 0 /\ pc < 126 * 32768 =>
    SnesToPc(PcToSnes(call.addr, "LoROM", call.header), "LoROM", call.header) = call.addr

\* A HiROM file of 4 MB lies in banks C0 to FF, in one piece, though the code
\* takes them for mirrors of two other ranges.
HiromLinear ==
  call.type = "HiROM" /\ ~call.header /\ call.addr < 64 * 65536 =>
    HiromSnesToPc(call.addr + 192 * 65536) = call.addr

\* Two addresses that the cartridge does not tell apart are the same place:
\* banks and their mirrors 128 banks on and, in LoROM banks 40 to 6F, halves.
Mirrors ==
  LET pc(snes) == SnesToPc(snes, call.type, call.header) IN
  /\ Bank(call.addr) < 126 => pc(call.addr) = pc(call.addr + 128 * 65536)
  /\ call.type = "LoROM" /\ Bank(call.addr) \in 64..111 /\ Offset(call.addr) < 32768 =>
       pc(call.addr) = pc(call.addr + 32768)

\* Without a header an answer is an error or within 4 MB.
Bounded ==
  call.type \in {"LoROM", "HiROM"} /\ ~call.header =>
    LET pc == SnesToPc(call.addr, call.type, FALSE) IN
    pc \in Errors \/ (pc >= 0 /\ pc < 64 * 65536)
=============================================================================
