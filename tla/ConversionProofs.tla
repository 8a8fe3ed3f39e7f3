-------------------------- MODULE ConversionProofs --------------------------
(***************************************************************************)
(* The parts that only convert: RomMapping for every address, and for      *)
(* every memory, mapping, length, data and heap: memstuff's search finds   *)
(* the first place of its pattern in what it could read.                   *)
(***************************************************************************)
EXTENDS RomMapping, Memstuff, SequenceTheorems, WellFoundedInduction, TLAPS

-----------------------------------------------------------------------------
(* RomMapping.                                                             *)

\* A call is a call, whatever was asked before.
LEMMA CallsAreCalls == RomSpec => [](call \in RomCalls)
  <1>1. RomInit => call \in RomCalls  BY DEF RomInit
  <1>2. call \in RomCalls /\ [RomNext]_call => (call \in RomCalls)'  BY DEF RomNext
  <1> QED  BY <1>1, <1>2, PTL DEF RomSpec

\* The bank and the offset that LoromPcToSnes makes are those it is read by.
LEMMA LoromParts ==
  ASSUME NEW pc \in Nat, pc < 126 * 32768
  PROVE  /\ Bank(LoromPcToSnes(pc)) = pc \div 32768
         /\ Offset(LoromPcToSnes(pc)) = (pc % 32768) + 32768
         /\ pc \div 32768 \in Nat /\ pc \div 32768 < 126
         /\ pc % 32768 \in Nat /\ pc % 32768 < 32768
         /\ pc = (pc \div 32768) * 32768 + (pc % 32768)
  BY SMT DEF Bank, Offset, LoromPcToSnes

\* rommapping.c: a place in a LoROM file below the last two banks is the same
\* place after the way to the console's address and back.
LEMMA LoromInverse ==
  ASSUME NEW pc \in Nat, pc < 126 * 32768
  PROVE  LoromSnesToPc(LoromPcToSnes(pc)) = pc
  <1> DEFINE bank == pc \div 32768
             offset == pc % 32768
  <1>1. /\ Bank(LoromPcToSnes(pc)) = bank /\ Offset(LoromPcToSnes(pc)) = offset + 32768
        /\ bank \in Nat /\ bank < 126 /\ offset \in Nat /\ offset < 32768
        /\ pc = bank * 32768 + offset
    BY LoromParts
  <1>2. Unmirrored(bank) = bank  BY <1>1 DEF Unmirrored
  <1> HIDE DEF bank, offset
  <1> QED  BY <1>1, <1>2, SMT DEF LoromSnesToPc, SnesReserved, Sram, Wram

\* Every LoROM place comes back (RoundTrip).
THEOREM RoundTripHolds == RomSpec => []RoundTrip
  <1>1. call \in RomCalls => RoundTrip
    <2> SUFFICES ASSUME call \in RomCalls, call.type = "LoROM",
                        call.addr - Header(call.header) >= 0,
                        call.addr - Header(call.header) < 126 * 32768
                 PROVE  SnesToPc(PcToSnes(call.addr, "LoROM", call.header), "LoROM", call.header)
                          = call.addr
      BY DEF RoundTrip
    <2> DEFINE pc == call.addr - Header(call.header)
    <2>1. call.addr \in Nat /\ Header(call.header) \in Nat
      BY AddressesAssumption DEF RomCalls, Header
    <2>2. LoromSnesToPc(LoromPcToSnes(pc)) = pc  BY <2>1, LoromInverse
    <2>3. PcToSnes(call.addr, "LoROM", call.header) = LoromPcToSnes(pc)  BY DEF PcToSnes
    <2>4. SnesToPc(LoromPcToSnes(pc), "LoROM", call.header) = pc + Header(call.header)
      BY <2>2 DEF SnesToPc
    <2> QED  BY <2>1, <2>3, <2>4
  <1> QED  BY <1>1, CallsAreCalls, PTL

\* A HiROM file is in one piece in banks C0 to FF (HiromLinear).
THEOREM HiromLinearHolds == RomSpec => []HiromLinear
  <1>1. call \in RomCalls => HiromLinear
    <2> SUFFICES ASSUME call \in RomCalls, call.addr < 64 * 65536
                 PROVE  HiromSnesToPc(call.addr + 192 * 65536) = call.addr
      BY DEF HiromLinear
    <2> DEFINE snes == call.addr + 192 * 65536
               bank == call.addr \div 65536
               offset == call.addr % 65536
    <2>0. call.addr \in Nat  BY AddressesAssumption DEF RomCalls
    <2>1. /\ Bank(snes) = bank + 192 /\ Offset(snes) = offset
          /\ bank \in 0..63 /\ offset \in Nat /\ offset < 65536
          /\ call.addr = bank * 65536 + offset
      BY <2>0, SMT DEF Bank, Offset
    <2>2. Unmirrored(bank + 192) = IF bank \in 0..61 THEN bank + 64 ELSE bank + 192
      BY <2>1, SMT DEF Unmirrored
    <2>3. HiromBank(Unmirrored(bank + 192)) = bank  BY <2>1, <2>2, SMT DEF HiromBank
    <2> HIDE DEF bank, offset
    <2> QED  BY <2>1, <2>2, <2>3, SMT DEF HiromSnesToPc, SnesReserved, Sram, Wram
  <1> QED  BY <1>1, CallsAreCalls, PTL

\* Mirrored banks and halves of banks are the same place (Mirrors).
THEOREM MirrorsHold == RomSpec => []Mirrors
  <1>1. call \in RomCalls => Mirrors
    <2> SUFFICES ASSUME call \in RomCalls PROVE Mirrors  OBVIOUS
    <2> DEFINE snes == call.addr
    <2>0. snes \in Nat  BY AddressesAssumption DEF RomCalls
    <2>1. ASSUME Bank(snes) < 126
          PROVE  SnesToPc(snes, call.type, call.header)
                   = SnesToPc(snes + 128 * 65536, call.type, call.header)
      <3>1. /\ Bank(snes + 128 * 65536) = Bank(snes) + 128
            /\ Offset(snes + 128 * 65536) = Offset(snes) /\ Bank(snes) \in 0..125
        BY <2>0, <2>1, SMT DEF Bank, Offset
      <3>2. Unmirrored(Bank(snes) + 128) = Unmirrored(Bank(snes))
        BY <3>1, SMT DEF Unmirrored
      <3> QED  BY <3>1, <3>2 DEF SnesToPc, LoromSnesToPc, HiromSnesToPc
    <2>2. ASSUME Bank(snes) \in 64..111, Offset(snes) < 32768
          PROVE  LoromSnesToPc(snes) = LoromSnesToPc(snes + 32768)
      <3>1. /\ Bank(snes + 32768) = Bank(snes) /\ Offset(snes + 32768) = Offset(snes) + 32768
            /\ Offset(snes) \in Nat
        BY <2>0, <2>2, SMT DEF Bank, Offset
      <3>2. Unmirrored(Bank(snes)) = Bank(snes)  BY <2>2, SMT DEF Unmirrored
      <3> QED  BY <2>2, <3>1, <3>2, SMT DEF LoromSnesToPc, SnesReserved, Sram, Wram
    <2> QED  BY <2>1, <2>2 DEF Mirrors, SnesToPc
  <1> QED  BY <1>1, CallsAreCalls, PTL

\* An answer is an error or a place in 4 MB (Bounded).
THEOREM BoundedHolds == RomSpec => []Bounded
  <1>1. call \in RomCalls => Bounded
    <2> DEFINE InFile(pc) == pc \in Errors \/ (pc >= 0 /\ pc < 64 * 65536)
    <2> SUFFICES ASSUME call \in RomCalls
                 PROVE  /\ InFile(LoromSnesToPc(call.addr) + 0)
                        /\ InFile(HiromSnesToPc(call.addr) + 0)
      BY DEF Bounded, SnesToPc, Header
    <2> DEFINE bank == Unmirrored(Bank(call.addr))
               offset == Offset(call.addr)
    <2>0. call.addr \in Nat /\ call.addr < 16777216  BY AddressesAssumption DEF RomCalls
    <2>1. Bank(call.addr) \in 0..255 /\ offset \in Nat /\ offset < 65536  BY <2>0, SMT DEF Bank, Offset
    <2>2. bank \in (0..127) \cup {254, 255}  BY <2>1, SMT DEF Unmirrored
    <2> HIDE DEF bank, offset
    <2>3. InFile(LoromSnesToPc(call.addr) + 0)
      BY <2>1, <2>2, SMT DEF bank, offset, LoromSnesToPc, Errors, SnesReserved, Sram, Wram
    <2>4. InFile(HiromSnesToPc(call.addr) + 0)
      BY <2>1, <2>2, SMT DEF bank, offset, HiromSnesToPc, HiromBank, Errors, SnesReserved, Sram, Wram
    <2> QED  BY <2>3, <2>4
  <1> QED  BY <1>1, CallsAreCalls, PTL

-----------------------------------------------------------------------------
(* Memstuff.                                                               *)

\* The process's memory keeps its size, and what is mapped lies within it.
MemTypeOK == memory \in [1..Size -> Bytes] /\ mapped \in 0..Size

\* A search is judged in the memory it read: the process did not go on yet.
MemInv == MemTypeOK /\ SearchRight

-----------------------------------------------------------------------------
(* The least of a set, and what a search compares.                         *)

\* A set of naturals has a least element, and Min is it.
LEMMA LeastIsMin ==
  ASSUME NEW S, S \subseteq Nat, S # {}
  PROVE  Min(S) \in S /\ \A k \in S : Min(S) <= k
<1> DEFINE R == {p \in Nat \X Nat : p[1] < p[2]}
<1>1. R = OpToRel(<, Nat)
  BY DEF OpToRel
<1>2. IsWellFoundedOn(R, Nat)
  BY <1>1, NatLessThanWellFounded
<1>3. PICK m \in S : \A k \in S : <<k, m>> \notin R
  BY <1>2, WFMin
<1>4. ASSUME NEW k \in S PROVE m <= k
  <2>1. k \in Nat /\ m \in Nat
    OBVIOUS
  <2>2. ~(k < m)
    BY <1>3, <2>1
  <2>3. QED
    BY <2>1, <2>2
<1>5. QED
  BY <1>4 DEF Min

\* A pattern is a start of the data.
LEMMA PatternType ==
  ASSUME NEW data \in Seq(Bytes)
  PROVE  ToFind(data) \in Seq(Bytes) /\ Len(ToFind(data)) \in Nat
<1> DEFINE all == Append(data, NUL)
           nuls == {i \in 1..Len(all) : all[i] = NUL}
           k == Min(nuls)
<1>1. /\ all \in Seq(Bytes) /\ Len(all) = Len(data) + 1 /\ all[Len(data) + 1] = NUL
      /\ Len(data) \in Nat
  BY AppendProperties, LenProperties, MemstuffConstants
<1>2. nuls \subseteq Nat /\ Len(data) + 1 \in nuls
  BY <1>1
<1>3. k \in nuls
  BY <1>2, LeastIsMin
<1>4. k \in 1..(Len(data) + 1)
  BY <1>1, <1>3
<1>5. SelectInSeq(Append(data, NUL), LAMBDA b : b = NUL) = k
  BY <1>2 DEF SelectInSeq
<1> HIDE DEF k
<1>6. \A i \in 1..(k - 1) : data[i] \in Bytes
  BY <1>1, <1>4, LenProperties
<1>7. SubSeq(data, 1, k - 1) \in Seq(Bytes)
  BY <1>4, <1>6, SubSeqProperties
<1>8. QED
  BY <1>5, <1>7, LenProperties DEF ToFind

\* What lies at a place of the buffer, wholly within what was read, lies in
\* the memory at that place from where was read.
LEMMA PlaceRead ==
  ASSUME NEW m \in Seq(Bytes), NEW addr \in Nat, NEW n \in Nat, n = 0 \/ addr + n <= Len(m),
         NEW rest \in Seq(Bytes), NEW k \in Nat, NEW i \in Nat, i + k <= n
  PROVE  SubSeq(SubSeq(m, addr + 1, addr + n) \o rest, i + 1, i + k)
           = SubSeq(m, addr + i + 1, addr + i + k)
<1> DEFINE read == SubSeq(m, addr + 1, addr + n)
           content == read \o rest
           left == SubSeq(content, i + 1, i + k)
           right == SubSeq(m, (addr + i) + 1, (addr + i) + k)
<1>1. Len(m) \in Nat /\ Len(rest) \in Nat /\ \A j \in 1..Len(m) : m[j] \in Bytes
  BY LenProperties
<1>2. /\ read \in Seq(Bytes) /\ Len(read) = n
      /\ \A j \in 1..n : read[j] = m[addr + j]
  <2>1. \A j \in (addr + 1)..(addr + n) : m[j] \in Bytes
    BY <1>1
  <2>2. /\ read \in Seq(Bytes)
        /\ Len(read) = IF addr + 1 <= addr + n THEN (addr + n) - (addr + 1) + 1 ELSE 0
        /\ \A j \in 1..((addr + n) - (addr + 1) + 1) : read[j] = m[(addr + 1) + j - 1]
    BY <2>1, SubSeqProperties
  <2>3. QED
    BY <2>2
<1> HIDE DEF read
<1>3. /\ content \in Seq(Bytes) /\ Len(content) = n + Len(rest)
      /\ \A j \in 1..n : content[j] = m[addr + j]
  <2>1. /\ content \in Seq(Bytes) /\ Len(content) = Len(read) + Len(rest)
        /\ \A j \in 1..(Len(read) + Len(rest)) :
             content[j] = IF j <= Len(read) THEN read[j] ELSE rest[j - Len(read)]
    <3>1. read \in Seq(Bytes) /\ rest \in Seq(Bytes)
      BY <1>2
    <3>2. QED
      BY <3>1, ConcatProperties
  <2>2. QED
    BY <1>1, <1>2, <2>1
<1> HIDE DEF content
<1>4. /\ left \in Seq(Bytes) /\ Len(left) = k
      /\ \A j \in 1..k : left[j] = content[i + j]
  <2>1. \A j \in (i + 1)..(i + k) : content[j] \in Bytes
    <3>1. \A j \in 1..Len(content) : content[j] \in Bytes
      BY <1>3, LenProperties
    <3>2. QED
      BY <1>1, <1>3, <3>1
  <2>2. /\ left \in Seq(Bytes)
        /\ Len(left) = IF i + 1 <= i + k THEN (i + k) - (i + 1) + 1 ELSE 0
        /\ \A j \in 1..((i + k) - (i + 1) + 1) : left[j] = content[(i + 1) + j - 1]
    BY <2>1, SubSeqProperties
  <2>3. QED
    BY <2>2
<1>5. /\ right \in Seq(Bytes) /\ Len(right) = k
      /\ \A j \in 1..k : right[j] = m[addr + i + j]
  <2> DEFINE a == addr + i
  <2>1. a \in Nat /\ \A j \in (a + 1)..(a + k) : m[j] \in Bytes
    BY <1>1
  <2> HIDE DEF a
  <2>2. /\ SubSeq(m, a + 1, a + k) \in Seq(Bytes)
        /\ Len(SubSeq(m, a + 1, a + k)) = IF a + 1 <= a + k THEN (a + k) - (a + 1) + 1 ELSE 0
        /\ \A j \in 1..((a + k) - (a + 1) + 1) : SubSeq(m, a + 1, a + k)[j] = m[(a + 1) + j - 1]
    BY <2>1, SubSeqProperties
  <2>3. QED
    BY <2>1, <2>2 DEF a
<1> HIDE DEF left, right
<1>6. \A j \in 1..k : left[j] = right[j]
  <2> TAKE j \in 1..k
  <2>1. i + j \in 1..n /\ addr + (i + j) = addr + i + j
    OBVIOUS
  <2>2. QED
    BY <1>3, <1>4, <1>5, <2>1
<1>7. left = right
  BY <1>4, <1>5, <1>6, SeqEqual
<1>8. QED
  BY <1>7 DEF left, right, content, read

-----------------------------------------------------------------------------
(* Steps.                                                                  *)

\* The memory as a sequence of bytes.
LEMMA MemoryType ==
  ASSUME MemTypeOK
  PROVE  /\ memory \in Seq(Bytes) /\ Len(memory) = Size /\ Size \in Nat
         /\ mapped \in Nat /\ mapped <= Size
BY MemstuffConstants DEF MemTypeOK

\* What a search reports is right in the memory it was run on.
LEMMA SearchStep ==
  ASSUME MemTypeOK, NEW addr \in 0..Size, NEW length \in 0..Size, NEW data \in Data,
         Search(addr, length, data)
  PROVE  MemTypeOK' /\ SearchRight'
<1> DEFINE n == Moves(addr, length)
           pattern == ToFind(data)
           occurs == {i \in 0..(n - Len(pattern)) : i < length /\ Held(addr + i, Len(pattern)) = pattern}
<1>1. /\ memory \in Seq(Bytes) /\ Len(memory) = Size /\ Size \in Nat
      /\ mapped \in Nat /\ mapped <= Size /\ addr \in Nat /\ length \in Nat
  BY MemoryType
<1>2. UNCHANGED <<memory, mapped>> /\ MemTypeOK'
  BY DEF Search, MemTypeOK
<1>3. n = -1 \/ (n \in 0..length /\ (n = 0 \/ addr + n <= Size))
  BY <1>1 DEF Moves, Smaller
<1>4. pattern \in Seq(Bytes) /\ Len(pattern) \in Nat
  BY PatternType, MemstuffConstants
<1>5. CASE n = -1 /\ ran' = Run("search", addr, length, data, 1, <<>>)
  <2>1. ran'.out = <<>>
    BY <1>5 DEF Run
  <2>2. QED
    BY <1>2, <2>1 DEF SearchRight
<1>6. CASE /\ n # -1
           /\ \E rest \in [1..(length - n + Len(pattern)) -> Bytes] :
                LET places == Matches(Held(addr, n) \o rest, pattern, length) IN
                ran' = IF places = {} THEN Run("search", addr, length, data, 1, <<n>>)
                       ELSE Run("search", addr, length, data, 0, <<n, addr + Min(places)>>)
  <2>1. PICK rest \in [1..(length - n + Len(pattern)) -> Bytes] :
          LET places == Matches(Held(addr, n) \o rest, pattern, length) IN
          ran' = IF places = {} THEN Run("search", addr, length, data, 1, <<n>>)
                 ELSE Run("search", addr, length, data, 0, <<n, addr + Min(places)>>)
    BY <1>6
  <2> DEFINE places == Matches(Held(addr, n) \o rest, pattern, length)
  <2>2. n \in Nat /\ n <= length /\ (n = 0 \/ addr + n <= Len(memory))
    BY <1>1, <1>3, <1>6
  <2> HIDE DEF n, pattern
  <2>3. rest \in Seq(Bytes)
    <3>1. length - n + Len(pattern) \in Nat
      BY <1>1, <1>4, <2>2
    <3>2. QED
      BY <3>1
  <2>4. ASSUME NEW i \in Nat, i + Len(pattern) <= n
        PROVE  SubSeq(Held(addr, n) \o rest, i + 1, i + Len(pattern)) = Held(addr + i, Len(pattern))
    BY <1>1, <1>4, <2>2, <2>3, <2>4, PlaceRead DEF Held
  <2>5. \A i \in occurs : i \in places
    <3> SUFFICES ASSUME NEW i \in occurs PROVE i \in places
      OBVIOUS
    <3>1. /\ i \in Nat /\ i + Len(pattern) <= n /\ i \in 0..(length - 1)
          /\ Held(addr + i, Len(pattern)) = pattern
      BY <1>1, <1>4, <2>2
    <3>2. SubSeq(Held(addr, n) \o rest, i + 1, i + Len(pattern)) = pattern
      BY <2>4, <3>1
    <3>3. QED
      BY <3>1, <3>2 DEF Matches
  <2>6. \A i \in places : i \in Nat /\ (i + Len(pattern) <= n => i \in occurs)
    <3> SUFFICES ASSUME NEW i \in places
                 PROVE  i \in Nat /\ (i + Len(pattern) <= n => i \in occurs)
      OBVIOUS
    <3>1. /\ i \in Nat /\ i < length
          /\ SubSeq(Held(addr, n) \o rest, i + 1, i + Len(pattern)) = pattern
      <4>1. /\ i \in 0..(length - 1)
            /\ SubSeq(Held(addr, n) \o rest, i + 1, i + Len(pattern)) = pattern
        BY Zenon DEF Matches
      <4> HIDE DEF places, occurs
      <4>2. i \in Nat /\ i < length
        BY <1>1, <4>1
      <4>3. QED
        BY <4>1, <4>2
    <3>2. ASSUME i + Len(pattern) <= n
          PROVE  i \in 0..(n - Len(pattern)) /\ Held(addr + i, Len(pattern)) = pattern
      <4>1. i \in 0..(n - Len(pattern))
        BY <1>4, <2>2, <3>1, <3>2
      <4>2. SubSeq(Held(addr, n) \o rest, i + 1, i + Len(pattern)) = Held(addr + i, Len(pattern))
        BY <2>4, <3>1, <3>2
      <4>3. QED
        BY <3>1, <4>1, <4>2
    <3>3. QED
      BY <3>1, <3>2
  <2> HIDE DEF places, occurs
  <2>7. CASE places = {}
    <3>1. ran' = Run("search", addr, length, data, 1, <<n>>)
      BY <2>1, <2>7 DEF places
    <3>2. occurs = {}
      BY <2>5, <2>7
    <3>3. ran'.code = 1 /\ ran'.out[1] = n /\ ran'.addr = addr /\ ran'.length = length /\ ran'.data = data
      BY <3>1 DEF Run
    <3>4. QED
      BY <1>2, <3>2, <3>3 DEF SearchRight, Occurs, Held, occurs, pattern
  <2>8. CASE places # {}
    <3> DEFINE at == Min(places)
    <3>1. ran' = Run("search", addr, length, data, 0, <<n, addr + at>>)
      BY <2>1, <2>8 DEF places
    <3>2. at \in places /\ \A i \in places : at <= i
      BY <2>6, <2>8, LeastIsMin
    <3> HIDE DEF at
    <3>3. /\ at \in Nat /\ \A i \in occurs : at <= i
          /\ IF occurs = {} THEN at + Len(pattern) > n ELSE at \in occurs
      <4>1. /\ at \in Nat /\ \A i \in occurs : at <= i
            /\ at \in occurs \/ at + Len(pattern) > n
        BY <1>4, <2>2, <2>5, <2>6, <3>2
      <4>2. \A i \in occurs : i \in Nat /\ i + Len(pattern) <= n
        BY <1>4, <2>2 DEF occurs
      <4>3. QED
        BY <1>4, <2>2, <4>1, <4>2
    <3>4. /\ ran'.code = 0 /\ ran'.out[1] = n /\ ran'.out[2] = addr + at
          /\ ran'.addr = addr /\ ran'.length = length /\ ran'.data = data
      BY <3>1 DEF Run
    <3>5. ran'.out[2] - ran'.addr = at
      BY <1>1, <3>3, <3>4
    <3>6. Occurs(ToFind(ran.data))' = occurs /\ Len(ToFind(ran.data))' = Len(pattern)
      BY <1>2, <3>4 DEF Occurs, Held, occurs, pattern
    <3> HIDE DEF occurs
    <3>7. (ran.code # 1)' /\ (ran.out[2] - ran.addr)' = at /\ ran.out[1]' = n
      BY <3>4, <3>5
    <3>8. SearchRight'
      BY <3>3, <3>6, <3>7 DEF SearchRight
    <3>9. QED
      BY <1>2, <3>8
  <2>9. QED
    BY <1>2, <2>7, <2>8
<1>7. QED
  BY <1>2, <1>5, <1>6 DEF Search

\* What memstuff writes, and what the process does itself, are bytes.
LEMMA MemStep ==
  ASSUME MemInv, [MemNext]_memVars
  PROVE  MemInv'
<1>1. /\ memory \in [1..Size -> Bytes] /\ mapped \in 0..Size /\ Size \in Nat
      /\ Data \subseteq Seq(Bytes)
  BY MemstuffConstants DEF MemInv, MemTypeOK
<1>2. ASSUME ran'.cmd # "search" PROVE SearchRight'
  BY <1>2 DEF SearchRight
<1>3. ASSUME NEW addr \in 0..Size, NEW length \in 0..Size, Read(addr, length)
      PROVE  MemInv'
  BY <1>1, <1>2, <1>3 DEF Read, Run, MemInv, MemTypeOK
<1>4. ASSUME NEW addr \in 0..Size, NEW length \in 0..Size, NEW data \in Data,
             Search(addr, length, data)
      PROVE  MemInv'
  BY <1>4, SearchStep DEF MemInv
<1>5. ASSUME NEW addr \in 0..Size, NEW length \in 0..Size, NEW data \in Data,
             Write(addr, length, data)
      PROVE  MemInv'
  <2>1. mapped' \in 0..Size /\ ran'.cmd # "search"
    BY <1>1, <1>5 DEF Write, Run
  <2>2. CASE UNCHANGED memory
    BY <1>1, <1>2, <2>1, <2>2 DEF MemInv, MemTypeOK
  <2>3. CASE /\ length = Len(data) /\ Moves(addr, length) # -1
             /\ memory' = [i \in 1..Size |-> IF i \in (addr + 1)..(addr + Moves(addr, length))
                                            THEN data[i - addr] ELSE memory[i]]
    <3>1. /\ data \in Seq(Bytes) /\ Moves(addr, length) <= length /\ Moves(addr, length) \in Nat
          /\ addr \in Nat /\ length \in Nat
      BY <1>1, <2>3 DEF Moves, Smaller
    <3>2. \A i \in (addr + 1)..(addr + Moves(addr, length)) : data[i - addr] \in Bytes
      <4> TAKE i \in (addr + 1)..(addr + Moves(addr, length))
      <4>1. i - addr \in 1..Len(data)
        BY <2>3, <3>1
      <4>2. QED
        BY <3>1, <4>1, ElementOfSeq
    <3>3. memory' \in [1..Size -> Bytes]
      BY <1>1, <2>3, <3>2
    <3>4. QED
      BY <1>2, <2>1, <3>3 DEF MemInv, MemTypeOK
  <2>4. QED
    BY <1>5, <2>2, <2>3 DEF Write
<1>6. CASE ProcessRuns
  <2>1. memory' \in [1..Size -> Bytes] /\ mapped' \in 0..Size
    BY <1>1, <1>6 DEF ProcessRuns
  <2>2. ran'.cmd # "search"
    BY <1>6 DEF ProcessRuns, NoRun, Run
  <2>3. QED
    BY <1>2, <2>1, <2>2 DEF MemInv, MemTypeOK
<1>7. CASE UNCHANGED memVars
  BY <1>7 DEF MemInv, MemTypeOK, SearchRight, Occurs, Held, memVars
<1>8. QED
  BY <1>3, <1>4, <1>5, <1>6, <1>7 DEF MemNext

-----------------------------------------------------------------------------
\* Whatever the process does between two runs: a search of memstuff reports the
\* first place of its data in what it could read, if there is one; if there is
\* none, it reports that, or a false place that does not lie within what was read
\* (what malloc returned, and what is behind it, may have the data).
THEOREM SearchesAreRight == MemSpec => []SearchRight
<1>1. MemInit => MemInv
  <2>1. SUFFICES ASSUME MemInit PROVE MemInv
    OBVIOUS
  <2>2. MemTypeOK
    BY <2>1, MemstuffConstants DEF MemInit, MemTypeOK
  <2>3. ran.cmd # "search"
    BY <2>1 DEF MemInit, NoRun, Run
  <2>4. QED
    BY <2>2, <2>3 DEF MemInv, SearchRight
<1>2. MemInv /\ [MemNext]_memVars => MemInv'
  BY MemStep
<1>3. MemInv => SearchRight
  BY DEF MemInv
<1>4. QED
  BY <1>1, <1>2, <1>3, PTL DEF MemSpec
=============================================================================
