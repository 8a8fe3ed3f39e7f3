------------------------------ MODULE Memstuff ------------------------------
(***************************************************************************)
(* memstuff: one run of the tool after the other on the memory of a        *)
(* process that goes on meanwhile.                                         *)
(*                                                                         *)
(* Addresses are counted from the beginning of a mapping.  Data comes as   *)
(* bytes: the last of an odd number of hexadecimal digits is overwritten   *)
(* by the end of the string (hexstr_to_cstr) and counted by nobody.        *)
(***************************************************************************)
EXTENDS Integers, SequencesExt

CONSTANTS
  Bytes,     \* the values of a byte, NUL among them
  Size,      \* bytes of the mapping
  Data       \* what is searched for or written

NUL == 0
High == 128    \* the byte with its sign bit set
ASSUME MemstuffConstants ==
  /\ NUL \in Bytes /\ Bytes \subseteq 0..255 /\ Size \in Nat
  /\ Data \subseteq Seq(Bytes)

VARIABLES
  memory,    \* the process's bytes
  mapped,    \* how many of them are mapped; none once it has ended
  ran        \* what memstuff was asked, and how it ended

memVars == <<memory, mapped, ran>>

Smaller(m, n) == IF m < n THEN m ELSE n
Held(addr, n) == SubSeq(memory, addr + 1, addr + n)
Run(cmd, addr, length, data, code, out) ==
  [cmd |-> cmd, addr |-> addr, length |-> length, data |-> data, code |-> code, out |-> out]
NoRun == Run("none", 0, 0, <<>>, 0, <<>>)

\* process_vm_readv and process_vm_writev: how much there is, -1 if nothing.
Moves(addr, length) == IF length = 0 THEN 0
                       ELSE IF addr >= mapped THEN -1
                       ELSE Smaller(length, mapped - addr)

MemInit == memory \in [1..Size -> Bytes] /\ mapped = Size /\ ran = NoRun

\* printf("%02X") of a char is 8 digits where char is signed and the byte's
\* sign bit set: no byte that could be read back.
Printed(byte, signedChar) == IF signedChar /\ byte >= High THEN byte - 256 ELSE byte

Read(addr, length) ==
  LET n == Moves(addr, length) IN
  /\ \/ n = -1 /\ ran' = Run("read", addr, length, <<>>, 1, <<>>)
     \/ /\ n # -1
        /\ \E signedChar \in BOOLEAN :
             ran' = Run("read", addr, length, <<>>, 0,
                        [i \in 1..n |-> Printed(memory[addr + i], signedChar)])
  /\ UNCHANGED <<memory, mapped>>

\* strlen: a pattern ends at its first NUL.
ToFind(data) == SubSeq(data, 1, SelectInSeq(Append(data, NUL), LAMBDA b : b = NUL) - 1)

\* Bug: the last place of the buffer is not looked at.
MatchesShort(content, pattern, length) ==
  {i \in 0..(length - 2) : SubSeq(content, i + 1, i + Len(pattern)) = pattern}
\* memcmp at every place of content, whose bytes behind those read are those
\* that malloc found, and behind its end anything.
Matches(content, pattern, length) ==
  {i \in 0..(length - 1) : SubSeq(content, i + 1, i + Len(pattern)) = pattern}

Search(addr, length, data) ==
  LET n == Moves(addr, length)
      pattern == ToFind(data)
  IN
  /\ \/ n = -1 /\ ran' = Run("search", addr, length, data, 1, <<>>)
     \/ /\ n # -1
        /\ \E rest \in [1..(length - n + Len(pattern)) -> Bytes] :
             LET places == Matches(Held(addr, n) \o rest, pattern, length) IN
             ran' = IF places = {} THEN Run("search", addr, length, data, 1, <<n>>)
                    ELSE Run("search", addr, length, data, 0, <<n, addr + Min(places)>>)
  /\ UNCHANGED <<memory, mapped>>

\* The length is compared with that of the digits; a write that stops at the end
\* of what is mapped is a success.
Write(addr, length, data) ==
  LET n == Moves(addr, length) IN
  /\ \/ /\ length # Len(data) \/ n = -1
        /\ UNCHANGED memory /\ ran' = Run("write", addr, length, data, 1, <<>>)
     \/ /\ length = Len(data) /\ n # -1
        /\ memory' = [i \in 1..Size |-> IF i \in (addr + 1)..(addr + n)
                                        THEN data[i - addr] ELSE memory[i]]
        /\ ran' = Run("write", addr, length, data, 0, <<>>)
  /\ UNCHANGED mapped

\* The process writes its memory, unmaps the end of it, or ends.
ProcessRuns ==
  /\ \/ \E i \in 1..Size, b \in Bytes : memory' = [memory EXCEPT ![i] = b] /\ UNCHANGED mapped
     \/ \E n \in 0..(mapped - 1) : mapped' = n /\ UNCHANGED memory
  /\ ran' = NoRun

\* The tool is run again after the process went on.
MemNext ==
  \/ /\ ran = NoRun
     /\ \E addr \in 0..Size, length \in 0..Size :
          \/ Read(addr, length)
          \/ \E data \in Data : Search(addr, length, data) \/ Write(addr, length, data)
  \/ ProcessRuns
MemSpec == MemInit /\ [][MemNext]_memVars
-----------------------------------------------------------------------------
\* Where a pattern lies wholly in what was read; searching changes no memory.
Occurs(pattern) ==
  {i \in 0..(ran.out[1] - Len(pattern)) :
     i < ran.length /\ Held(ran.addr + i, Len(pattern)) = pattern}

\* When its data, up to a NUL in it, is in what a search could read, the search
\* reports the first place of it; when it is not, the search reports that, or a
\* false place, which does not lie wholly within what was read: it compares
\* beyond that.
SearchRight == ran.cmd = "search" /\ ran.out # <<>> =>
  LET pattern == ToFind(ran.data) IN
  IF ran.code = 1 THEN Occurs(pattern) = {}
  ELSE LET at == ran.out[2] - ran.addr IN
       IF Occurs(pattern) = {} THEN at + Len(pattern) > ran.out[1]
       ELSE at \in Occurs(pattern) /\ \A i \in Occurs(pattern) : at <= i
=============================================================================
