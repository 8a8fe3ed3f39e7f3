---------------------------- MODULE MCConversions ----------------------------
(* TLC's instances of the parts that only convert: they share nothing, and   *)
(* one of them runs at a time.                                               *)
EXTENDS RomMapping, InputDecoder, Memstuff

VARIABLE part
vars == <<part, call, inputVars, memVars>>

\* The ends of the ranges of banks and of offsets that are told apart.
MCBanks == {0, 31, 32, 62, 63, 64, 111, 112, 125, 126, 127, 128, 191, 192, 253, 254, 255}
MCOffsets == {0, 8191, 8192, 24575, 24576, 32767, 32768, 65535}
MCAddresses == {bank * 65536 + offset : bank \in MCBanks, offset \in MCOffsets}
MCData == {<<>>, <<1, 128>>, <<1, 0>>, <<1, 1>>}

RomIdle == call = [addr |-> 0, type |-> "LoROM", header |-> FALSE]
MemIdle == memory = [i \in 1..Size |-> NUL] /\ mapped = Size /\ ran = NoRun

Init == \/ part = "rom" /\ RomInit /\ InputInit /\ MemIdle
        \/ part = "input" /\ RomIdle /\ InputInit /\ MemIdle
        \/ part = "memory" /\ RomIdle /\ InputInit /\ MemInit
Next == \/ part = "rom" /\ RomNext /\ UNCHANGED <<part, inputVars, memVars>>
        \/ part = "input" /\ InputNext /\ UNCHANGED <<part, call, memVars>>
        \/ part = "memory" /\ MemNext /\ UNCHANGED <<part, call, inputVars>>
Spec == Init /\ [][Next]_vars
=============================================================================
