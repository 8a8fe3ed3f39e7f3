---------------------------- MODULE FramingProofs ----------------------------
(***************************************************************************)
(* For every buffer size, every set of requests and however they are cut:  *)
(* Framing keeps its types, its counts within their bounds, and carries    *)
(* out no request whose payload is not as long as its line announced.      *)
(***************************************************************************)
EXTENDS Framing, SequenceTheorems, TLAPS

-----------------------------------------------------------------------------
(* Cells, lines and buffers.                                               *)

\* The newline and the NUL are cells.
LEMMA Terminators == NL \in Cell /\ NUL \in Cell
BY DEF NL, NUL, Sym, Cell, Symbols, NoSize

\* A line has a size only if it announces one, and then a natural number.
LEMMA SizeType ==
  ASSUME NEW line \in Seq(Cell)
  PROVE  /\ Size(line) \in Int /\ Size(line) >= NoSize
         /\ Size(line) # NoSize => Size(line) \in Nat
<1>1. CASE Len(line) > 0
  <2>1. line[1] \in Cell
    BY <1>1, LenProperties
  <2>2. QED
    BY <1>1, <2>1 DEF Size, Cell, NoSize
<1>2. CASE ~(Len(line) > 0)
  BY <1>2 DEF Size, NoSize
<1>3. QED
  BY <1>1, <1>2

\* What a request is answered with is a reply.
LEMMA RepliesType ==
  ASSUME NEW line, NEW r \in Replies(line)
  PROVE  r \in ReplyKinds
BY DEF Replies, ReplyKinds

\* The pieces a read leaves are sequences of cells.
LEMMA PieceType ==
  ASSUME NEW s \in Seq(Cell), NEW i \in Nat, NEW j \in Nat, j <= Len(s)
  PROVE  /\ SubSeq(s, i + 1, j) \in Seq(Cell)
         /\ i <= j => Len(SubSeq(s, i + 1, j)) = j - i
<1>1. \A k \in (i + 1)..j : s[k] \in Cell
  BY LenProperties
<1>2. QED
  BY <1>1, SubSeqProperties

\* Copying cells into pending_data leaves it a buffer of BUF cells.
LEMMA CopiedType ==
  ASSUME NEW buffer \in [1..BUF -> Cell], NEW at \in Nat, NEW bytes \in Seq(Cell)
  PROVE  Copied(buffer, at, bytes) \in [1..BUF -> Cell]
<1>1. ASSUME NEW i \in 1..BUF, at < i, i <= at + Len(bytes)
      PROVE  bytes[i - at] \in Cell
  BY <1>1, BufAssumption, LenProperties
<1>2. QED
  BY <1>1 DEF Copied

\* The command line a handler sees is a sequence of cells.
LEMMA LineType ==
  ASSUME TypeOK, NEW e, NEW z \in 1..BUF, LineEnds(e)
  PROVE  /\ e \in Nat /\ e > read_pos /\ e <= Len(readed_data)
         /\ Block(e) \in [1..BUF -> Cell]
         /\ Line(e, z) \in Seq(Cell)
<1>1. e \in Nat /\ e > read_pos /\ e <= Len(readed_data)
  BY LenProperties DEF TypeOK, LineEnds
<1>2. SubSeq(readed_data, read_pos + 1, e) \in Seq(Cell)
  BY <1>1, PieceType DEF TypeOK
<1>3. Copied(pending_data, pending_pos, SubSeq(readed_data, read_pos + 1, e))
        \in [1..BUF -> Cell]
  BY <1>2, CopiedType DEF TypeOK
<1>4. Block(e) \in [1..BUF -> Cell]
  BY <1>3, Terminators DEF Block
<1>5. Line(e, z) \in Seq(Cell)
  <2>1. \A k \in 1..(z - 1) : Block(e)[k] \in Cell
    BY <1>4, BufAssumption
  <2>2. QED
    BY <2>1, BufAssumption, SubSeqProperties DEF Line
<1>6. QED
  BY <1>1, <1>4, <1>5

\* The loop's test keeps the read position inside what was read.
LEMMA LoopType ==
  ASSUME TypeOK, NEW pos \in Nat, pos <= Len(readed_data), LoopFrom(pos)
  PROVE  /\ pc' \in {"select", "scan", "spin", "ub"}
         /\ readed_data' \in Seq(Cell)
         /\ read_pos' \in Nat /\ read_pos' <= Len(readed_data')
<1>1. CASE pos = 0 \/ pos < Len(readed_data)
  BY <1>1 DEF TypeOK, LoopFrom
<1>2. CASE ~(pos = 0 \/ pos < Len(readed_data))
  BY <1>2, EmptySeq DEF TypeOK, LoopFrom
<1>3. QED
  BY <1>1, <1>2

\* An entry of the log is added at its end and nowhere else.
LEMMA CarriedType ==
  ASSUME log \in Seq(Entry), NEW line \in Seq(Cell), NEW data \in Seq(Cell),
         NEW reply \in ReplyKinds, Carried(line, data, reply)
  PROVE  /\ log' \in Seq(Entry)
         /\ ExactPayload /\ (Announces(line) => Len(data) = Size(line)) => ExactPayload'
<1> DEFINE entry == [line |-> line, data |-> data, reply |-> reply]
<1>1. entry \in Entry
  BY DEF Entry
<1>2. log' = Append(log, entry)
  BY DEF Carried
<1>3. log' \in Seq(Entry) /\ Len(log') = Len(log) + 1 /\ Len(log) \in Nat
  BY <1>1, <1>2, AppendProperties, LenProperties
<1>4. \A i \in 1..Len(log) : log'[i] = log[i]
  BY <1>1, <1>2, AppendProperties
<1>5. log'[Len(log) + 1] = entry
  BY <1>1, <1>2, AppendProperties
<1>6. ASSUME ExactPayload, Announces(line) => Len(data) = Size(line)
      PROVE  ExactPayload'
  <2>1. SUFFICES ASSUME NEW i \in 1..Len(log'), Announces(log'[i].line)
                 PROVE  Len(log'[i].data) = Size(log'[i].line)
    BY DEF ExactPayload
  <2>2. CASE i \in 1..Len(log)
    BY <1>4, <1>6, <2>1, <2>2 DEF ExactPayload
  <2>3. CASE i = Len(log) + 1
    BY <1>5, <1>6, <2>1, <2>3
  <2>4. QED
    BY <1>3, <2>2, <2>3
<1>7. QED
  BY <1>3, <1>6

-----------------------------------------------------------------------------
(* The inductive invariant.                                                *)

IInv == TypeOK /\ NoOverflow /\ Gathering /\ ExactPayload

\* The zeroed client table satisfies the invariant.
LEMMA InitInv == Init => IInv
<1> SUFFICES ASSUME Init PROVE IInv
  OBVIOUS
<1>1. <<>> \in Seq(Cell) /\ <<>> \in Seq(Entry) /\ Len(<<>>) = 0
  BY EmptySeq
<1>2. TypeOK
  <2>1. streaming \in BOOLEAN /\ in_cmd \in BOOLEAN
    BY DEF Init
  <2>2. pending_data \in [1..BUF -> Cell]
    BY Terminators DEF Init
  <2>3. QED
    BY <1>1, <2>1, <2>2 DEF Init, TypeOK, Verbs
<1>3. NoOverflow /\ Gathering /\ ExactPayload
  BY <1>1, BufAssumption DEF Init, NoOverflow, Gathering, ExactPayload
<1>4. QED
  BY <1>2, <1>3 DEF IInv

\* The client changes nothing of the server's.
LEMMA ClientStep == IInv /\ Client => IInv'
<1> SUFFICES ASSUME IInv, Client PROVE IInv'
  OBVIOUS
<1>1. ASSUME NEW r \in Requests, Send(r) PROVE IInv'
  <2>1. wire' \in Seq(Cell)
    BY <1>1, RequestsAssumption, ConcatProperties DEF IInv, TypeOK, Send
  <2>2. QED
    BY <1>1, <2>1 DEF IInv, TypeOK, NoOverflow, Gathering, ExactPayload, Send,
       scanVars, pendingVars, writeVars, uploadVars, cmdVars
<1>2. ASSUME NEW r \in Requests, NEW k \in 1..(Len(r) - 1), SendPart(r, k) PROVE IInv'
  <2>1. r \in Seq(Cell) /\ k \in Nat /\ k <= Len(r)
    BY RequestsAssumption, LenProperties
  <2>2. SubSeq(r, 0 + 1, k) \in Seq(Cell)
    BY <2>1, PieceType
  <2>3. wire' \in Seq(Cell)
    BY <1>2, <2>2, ConcatProperties DEF IInv, TypeOK, SendPart
  <2>4. QED
    BY <1>2, <2>3 DEF IInv, TypeOK, NoOverflow, Gathering, ExactPayload, SendPart,
       scanVars, pendingVars, writeVars, uploadVars, cmdVars
<1>3. CASE Close
  BY <1>3 DEF IInv, TypeOK, NoOverflow, Gathering, ExactPayload, Close,
     scanVars, pendingVars, writeVars, uploadVars, cmdVars
<1>4. CASE Abort
  BY <1>4, EmptySeq DEF IInv, TypeOK, NoOverflow, Gathering, ExactPayload, Abort,
     scanVars, pendingVars, writeVars, uploadVars, cmdVars
<1>5. QED
  BY <1>1, <1>2, <1>3, <1>4 DEF Client

\* add_to_clients forgets what was being gathered for the client before.
LEMMA AcceptStep == IInv /\ Accept => IInv'
<1> SUFFICES ASSUME IInv, Accept PROVE IInv'
  OBVIOUS
<1>1. <<>> \in Seq(Cell) /\ <<>> \in Seq(Entry) /\ Len(<<>>) = 0
  BY EmptySeq
<1>2. pending_data' \in [1..BUF -> Cell]
  BY Terminators DEF IInv, TypeOK, Accept
<1>3. TypeOK'
  <2>1. streaming' \in BOOLEAN /\ in_cmd' \in BOOLEAN
    BY DEF Accept
  <2>2. QED
    BY <1>1, <1>2, <2>1 DEF IInv, TypeOK, Accept, scanVars
<1>4. NoOverflow' /\ Gathering' /\ ExactPayload'
  BY <1>1 DEF IInv, TypeOK, NoOverflow, Gathering, ExactPayload, Accept
<1>5. QED
  BY <1>3, <1>4 DEF IInv

\* What read() returns goes to readed_data, and off the wire.
LEMMA ReadStep == IInv /\ ReadSome => IInv'
<1> SUFFICES ASSUME IInv, NEW k \in 1..BUF, Read(k) PROVE IInv'
  BY DEF ReadSome
<1>1. /\ k \in Nat /\ k <= Len(wire) /\ wire \in Seq(Cell) /\ Len(wire) \in Nat
  BY BufAssumption, LenProperties DEF IInv, TypeOK, Read
<1>2. SubSeq(wire, 0 + 1, k) \in Seq(Cell) /\ SubSeq(wire, k + 1, Len(wire)) \in Seq(Cell)
  BY <1>1, PieceType
<1>3. readed_data' \in Seq(Cell) /\ wire' \in Seq(Cell)
  BY <1>2 DEF Read
<1>4. read_pos' = 0 /\ Len(readed_data') \in Nat
  BY <1>3, LenProperties DEF Read
<1>5. QED
  BY <1>3, <1>4 DEF IInv, TypeOK, NoOverflow, Gathering, ExactPayload, Read,
     pendingVars, writeVars, uploadVars, cmdVars

\* remove_client leaves the slot's fields, and the log goes with the client.
LEMMA DisconnectStep == IInv /\ Disconnect => IInv'
<1> SUFFICES ASSUME IInv, Disconnect PROVE IInv'
  OBVIOUS
<1>1. log' \in Seq(Entry) /\ Len(log') = 0
  BY EmptySeq DEF Disconnect
<1>2. QED
  BY <1>1 DEF IInv, TypeOK, NoOverflow, Gathering, ExactPayload, Disconnect,
     scanVars, pendingVars, writeVars, uploadVars

-----------------------------------------------------------------------------
(* Command lines.                                                          *)

\* What every handler finds: between two lines nothing is being gathered.
LEMMA BetweenLines ==
  ASSUME IInv, NEW e, LineEnds(e)
  PROVE  write_pointer # "live" /\ upload_file_fd # "open"
BY DEF IInv, Gathering, LineEnds

\* What preprocess_data and process_command do around every handler.
LEMMA DispatchType ==
  ASSUME TypeOK, NEW verb \in Verbs, NEW e, NEW z \in 1..BUF, Dispatch(verb, e, z)
  PROVE  /\ Line(e, z) \in Seq(Cell) /\ request' = Line(e, z)
         /\ Verb(Line(e, z)) = verb /\ current_cmd' = verb
         /\ pending_data' \in [1..BUF -> Cell]
         /\ pending_size' = 0 /\ pending_pos' = 0
         /\ e \in Nat /\ e <= Len(readed_data)
         /\ UNCHANGED clientVars
<1>1. LineEnds(e)
  BY DEF Dispatch
<1>2. /\ e \in Nat /\ e <= Len(readed_data)
      /\ Block(e) \in [1..BUF -> Cell]
      /\ Line(e, z) \in Seq(Cell)
  BY <1>1, LineType
<1>3. QED
  BY <1>2 DEF Dispatch

\* A step that answers a line without payload, or announces none.
LEMMA AnswerStep ==
  ASSUME IInv, NEW verb \in Verbs, NEW e, NEW z \in 1..BUF,
         Dispatch(verb, e, z), Answer(e, z), ~Announces(Line(e, z))
  PROVE  IInv'
<1>1. TypeOK
  BY DEF IInv
<1>2. LineEnds(e)
  BY DEF Dispatch
<1>3. write_pointer # "live" /\ upload_file_fd # "open"
  BY <1>2, BetweenLines
<1>4. PICK r \in Replies(Line(e, z)) : Carried(Line(e, z), <<>>, r)
  BY DEF Answer
<1>5. Line(e, z) \in Seq(Cell) /\ <<>> \in Seq(Cell)
  BY <1>1, DispatchType, EmptySeq
<1>6. log \in Seq(Entry) /\ ExactPayload /\ r \in ReplyKinds
  BY <1>1, RepliesType DEF TypeOK, IInv
<1>7. log' \in Seq(Entry) /\ ExactPayload'
  BY <1>4, <1>5, <1>6, CarriedType
<1>8. in_cmd' \in BOOLEAN /\ ~in_cmd' /\ UNCHANGED <<writeVars, uploadVars>>
  BY DEF Answer
<1>9. /\ pc' \in {"select", "scan", "spin", "ub"}
      /\ readed_data' \in Seq(Cell)
      /\ read_pos' \in Nat /\ read_pos' <= Len(readed_data')
  BY <1>1, LoopType, DispatchType DEF Answer
<1>10. TypeOK'
  BY <1>1, <1>5, <1>7, <1>8, <1>9, DispatchType
     DEF TypeOK, clientVars, writeVars, uploadVars
<1>11. NoOverflow' /\ Gathering'
  BY <1>1, <1>3, <1>8, DispatchType, BufAssumption
     DEF IInv, NoOverflow, Gathering, writeVars, uploadVars
<1>12. QED
  BY <1>7, <1>10, <1>11 DEF IInv

\* The handlers that answer at once gather nothing.
LEMMA ExecCommandStep ==
  ASSUME IInv, NEW e, NEW z \in 1..BUF,
         ExecCommand(e, z) \/ ReadMemory(e, z) \/ DetachedCommand(e, z)
  PROVE  IInv'
<1>1. TypeOK
  BY DEF IInv
<1>2. ASSUME NEW verb \in {"CMD", "READ_MEM", "CMD_DETACHED"},
             Dispatch(verb, e, z), Answer(e, z)
      PROVE  IInv'
  <2>1. verb \in Verbs
    BY DEF Verbs
  <2>2. ~Announces(Line(e, z))
    BY <1>1, <1>2, <2>1, DispatchType DEF Announces
  <2>3. QED
    BY <1>2, <2>1, <2>2, AnswerStep
<1>3. QED
  BY <1>2 DEF ExecCommand, ReadMemory, DetachedCommand

\* GET_FILE answers, or reads for ever with nothing gathered.
LEMMA GetFileStep ==
  ASSUME IInv, NEW e, NEW z \in 1..BUF, GetFile(e, z)
  PROVE  IInv'
<1>1. TypeOK /\ "GET_FILE" \in Verbs /\ Dispatch("GET_FILE", e, z)
  BY DEF IInv, Verbs, GetFile
<1>2. ~Announces(Line(e, z))
  BY <1>1, DispatchType DEF Announces
<1>3. CASE Answer(e, z)
  BY <1>1, <1>2, <1>3, AnswerStep
<1>4. CASE ~Answer(e, z)
  <2>1. /\ pc' = "spin" /\ in_cmd'
        /\ in_cmd' \in BOOLEAN
        /\ UNCHANGED <<readed_data, read_pos, writeVars, uploadVars, log>>
    BY <1>4 DEF GetFile
  <2>2. write_pointer # "live" /\ upload_file_fd # "open"
    BY <1>1, BetweenLines DEF Dispatch
  <2>3. TypeOK'
    BY <1>1, <2>1, DispatchType DEF TypeOK, clientVars, writeVars, uploadVars
  <2>4. NoOverflow' /\ Gathering' /\ ExactPayload'
    BY <1>1, <2>1, <2>2, DispatchType, BufAssumption
       DEF IInv, NoOverflow, Gathering, ExactPayload, writeVars, uploadVars
  <2>5. QED
    BY <2>3, <2>4 DEF IInv
<1>5. QED
  BY <1>3, <1>4

\* WRITE_MEM takes memory for as many bytes as it announced.
LEMMA WriteMemoryStep ==
  ASSUME IInv, NEW e, NEW z \in 1..BUF, WriteMemory(e, z)
  PROVE  IInv'
<1>1. TypeOK /\ "WRITE_MEM" \in Verbs /\ Dispatch("WRITE_MEM", e, z)
  BY DEF IInv, Verbs, WriteMemory
<1>2. CASE Size(Line(e, z)) = NoSize /\ Answer(e, z)
  BY <1>1, <1>2, AnswerStep DEF Announces
<1>3. CASE ~(Size(Line(e, z)) = NoSize /\ Answer(e, z))
  <2>1. /\ Size(Line(e, z)) # NoSize
        /\ in_cmd' /\ in_cmd' \in BOOLEAN
        /\ write_info_size' = Size(Line(e, z))
        /\ write_buffer' = <<>> /\ write_pointer' = "live"
        /\ LoopFrom(e)
        /\ UNCHANGED <<uploadVars, log>>
    BY <1>3 DEF WriteMemory
  <2>2. write_info_size' \in Nat /\ write_buffer' \in Seq(Cell) /\ Len(write_buffer') = 0
    BY <1>1, <2>1, DispatchType, SizeType, EmptySeq
  <2>3. upload_file_fd # "open"
    BY <1>1, BetweenLines DEF Dispatch
  <2>4. /\ pc' \in {"select", "scan", "spin", "ub"}
        /\ readed_data' \in Seq(Cell)
        /\ read_pos' \in Nat /\ read_pos' <= Len(readed_data')
    BY <1>1, <2>1, LoopType, DispatchType
  <2>5. TypeOK'
    BY <1>1, <2>1, <2>2, <2>4, DispatchType DEF TypeOK, clientVars, uploadVars
  <2>6. NoOverflow' /\ Gathering' /\ ExactPayload'
    BY <1>1, <2>1, <2>2, <2>3, DispatchType, BufAssumption
       DEF IInv, NoOverflow, Gathering, ExactPayload, uploadVars
  <2>7. QED
    BY <2>5, <2>6 DEF IInv
<1>4. QED
  BY <1>2, <1>3

\* STREAM_FILE gathers nothing, whatever open() says.
LEMMA StreamFileStep ==
  ASSUME IInv, NEW e, NEW z \in 1..BUF, StreamFile(e, z)
  PROVE  IInv'
<1>1. /\ TypeOK /\ "STREAM_FILE" \in Verbs /\ Dispatch("STREAM_FILE", e, z)
      /\ in_cmd' /\ in_cmd' \in BOOLEAN
      /\ UNCHANGED <<writeVars, uploadVars>>
  BY DEF IInv, Verbs, StreamFile
<1>2. write_pointer # "live" /\ upload_file_fd # "open"
  BY <1>1, BetweenLines DEF Dispatch
<1>3. /\ pc' \in {"select", "scan", "spin", "ub"}
      /\ readed_data' \in Seq(Cell)
      /\ read_pos' \in Nat /\ read_pos' <= Len(readed_data')
  <2>1. CASE Fault
    BY <1>1, <2>1 DEF Fault, TypeOK
  <2>2. CASE LoopFrom(e)
    BY <1>1, <2>2, LoopType, DispatchType
  <2>3. QED
    BY <2>1, <2>2 DEF StreamFile
<1>4. log' \in Seq(Entry) /\ ExactPayload'
  <2>1. CASE UNCHANGED log
    BY <1>1, <2>1 DEF TypeOK, IInv, ExactPayload
  <2>2. CASE \E r \in Replies(Line(e, z)) : Carried(Line(e, z), <<>>, r)
    <3>1. PICK r \in Replies(Line(e, z)) : Carried(Line(e, z), <<>>, r)
      BY <2>2
    <3>2. Line(e, z) \in Seq(Cell) /\ <<>> \in Seq(Cell) /\ ~Announces(Line(e, z))
      BY <1>1, DispatchType, EmptySeq DEF Announces
    <3>3. log \in Seq(Entry) /\ ExactPayload /\ r \in ReplyKinds
      BY RepliesType DEF TypeOK, IInv
    <3>4. QED
      BY <3>1, <3>2, <3>3, CarriedType
  <2>3. QED
    BY <2>1, <2>2 DEF StreamFile
<1>5. TypeOK'
  BY <1>1, <1>3, <1>4, DispatchType, SMTT(60) DEF TypeOK, clientVars, writeVars, uploadVars
<1>6. NoOverflow' /\ Gathering'
  BY <1>1, <1>2, DispatchType, BufAssumption
     DEF IInv, NoOverflow, Gathering, writeVars, uploadVars
<1>7. QED
  BY <1>4, <1>5, <1>6 DEF IInv

\* PUT_FILE opens a file with as many bytes to come as announced, or none.
LEMMA PutFileStep ==
  ASSUME IInv, NEW e, NEW z \in 1..BUF, PutFile(e, z)
  PROVE  IInv'
<1>1. /\ TypeOK /\ "PUT_FILE" \in Verbs /\ Dispatch("PUT_FILE", e, z)
      /\ in_cmd' /\ in_cmd' \in BOOLEAN
      /\ LoopFrom(e)
      /\ UNCHANGED <<writeVars, log>>
  BY DEF IInv, Verbs, PutFile
<1>2. write_pointer # "live" /\ upload_file_fd # "open"
  BY <1>1, BetweenLines DEF Dispatch
<1>3. /\ pc' \in {"select", "scan", "spin", "ub"}
      /\ readed_data' \in Seq(Cell)
      /\ read_pos' \in Nat /\ read_pos' <= Len(readed_data')
  BY <1>1, LoopType, DispatchType
<1>4. /\ upload_file_fd' \in {"none", "open", "closed"}
      /\ uploaded_size' \in Nat /\ uploaded_file_size' \in Nat
      /\ uploaded' \in Seq(Cell)
      /\ uploaded_size' <= uploaded_file_size'
      /\ upload_file_fd' = "open" =>
           /\ uploaded_file_size' = Size(Line(e, z))
           /\ Len(uploaded') = uploaded_size'
  <2>1. Size(Line(e, z)) # NoSize => Size(Line(e, z)) \in Nat
    BY <1>1, DispatchType, SizeType
  <2>2. <<>> \in Seq(Cell) /\ Len(<<>>) = 0
    BY EmptySeq
  <2>3. CASE UNCHANGED uploadVars
    BY <1>1, <1>2, <2>3 DEF IInv, TypeOK, NoOverflow, uploadVars
  <2>4. CASE /\ upload_file_fd' = "none" /\ uploaded' = <<>>
             /\ UNCHANGED <<uploaded_size, uploaded_file_size>>
    BY <1>1, <2>2, <2>4 DEF IInv, TypeOK, NoOverflow
  <2>5. CASE /\ Size(Line(e, z)) # NoSize
             /\ upload_file_fd' = "open" /\ uploaded' = <<>>
             /\ uploaded_file_size' = Size(Line(e, z)) /\ uploaded_size' = 0
    BY <2>1, <2>2, <2>5
  <2>6. QED
    BY <2>3, <2>4, <2>5 DEF PutFile, OpenUpload
<1>5. TypeOK'
  BY <1>1, <1>3, <1>4, DispatchType, SMTT(60) DEF TypeOK, clientVars, writeVars
<1>6. NoOverflow' /\ Gathering' /\ ExactPayload'
  BY <1>1, <1>2, <1>4, DispatchType, BufAssumption
     DEF IInv, NoOverflow, Gathering, ExactPayload, writeVars
<1>7. QED
  BY <1>5, <1>6 DEF IInv

\* A line no handler knows gathers nothing.
LEMMA UnknownLineStep ==
  ASSUME IInv, NEW e, NEW z \in 1..BUF, UnknownLine(e, z)
  PROVE  IInv'
<1>1. /\ TypeOK /\ LineEnds(e)
      /\ in_cmd' /\ in_cmd' \in BOOLEAN
      /\ LoopFrom(e)
      /\ request' = Line(e, z)
      /\ pending_data' = Block(e) /\ pending_size' = 0 /\ pending_pos' = 0
      /\ UNCHANGED <<clientVars, writeVars, uploadVars, current_cmd, log>>
  BY DEF IInv, UnknownLine
<1>2. write_pointer # "live" /\ upload_file_fd # "open"
  BY <1>1, BetweenLines
<1>3. /\ e \in Nat /\ e <= Len(readed_data)
      /\ Block(e) \in [1..BUF -> Cell] /\ Line(e, z) \in Seq(Cell)
  BY <1>1, LineType
<1>4. /\ pc' \in {"select", "scan", "spin", "ub"}
      /\ readed_data' \in Seq(Cell)
      /\ read_pos' \in Nat /\ read_pos' <= Len(readed_data')
  BY <1>1, <1>3, LoopType
<1>5. ~Announces(request')
  BY <1>1 DEF UnknownLine, Announces, Verbs
<1>6. TypeOK'
  BY <1>1, <1>3, <1>4, SMTT(60) DEF TypeOK, clientVars, writeVars, uploadVars
<1>7. NoOverflow' /\ Gathering' /\ ExactPayload'
  BY <1>1, <1>2, <1>5, BufAssumption
     DEF IInv, NoOverflow, Gathering, ExactPayload, writeVars, uploadVars
<1>8. QED
  BY <1>6, <1>7 DEF IInv

\* A line that does not fit changes nothing before the fault.
LEMMA LineTooLongStep ==
  ASSUME IInv, NEW e, LineTooLong(e)
  PROVE  IInv'
BY DEF IInv, TypeOK, NoOverflow, Gathering, ExactPayload, LineTooLong, Fault,
   clientVars, pendingVars, writeVars, uploadVars, cmdVars

\* Whatever the line, the invariant is kept.
LEMMA ProcessLineStep == IInv /\ ProcessLine => IInv'
<1> SUFFICES ASSUME IInv, ProcessLine PROVE IInv'
  OBVIOUS
<1>1. PICK e \in 1..Len(readed_data) :
        \/ LineTooLong(e)
        \/ \E z \in 1..BUF :
             \/ ExecCommand(e, z) \/ ReadMemory(e, z) \/ WriteMemory(e, z)
             \/ StreamFile(e, z)  \/ GetFile(e, z)    \/ PutFile(e, z)
             \/ DetachedCommand(e, z) \/ UnknownLine(e, z)
  BY DEF ProcessLine
<1>2. CASE LineTooLong(e)
  BY <1>2, LineTooLongStep
<1>3. ASSUME NEW z \in 1..BUF,
             \/ ExecCommand(e, z) \/ ReadMemory(e, z) \/ WriteMemory(e, z)
             \/ StreamFile(e, z)  \/ GetFile(e, z)    \/ PutFile(e, z)
             \/ DetachedCommand(e, z) \/ UnknownLine(e, z)
      PROVE  IInv'
  BY <1>3, ExecCommandStep, WriteMemoryStep, StreamFileStep, GetFileStep,
     PutFileStep, UnknownLineStep
<1>4. QED
  BY <1>1, <1>2, <1>3

\* What is kept of a line for the next read fits in pending_data.
LEMMA PartialLineStep == IInv /\ PartialLine => IInv'
<1> SUFFICES ASSUME IInv, PartialLine PROVE IInv'
  OBVIOUS
<1> DEFINE rest == SubSeq(readed_data, read_pos + 1, Len(readed_data))
<1>1. rest \in Seq(Cell) /\ Len(rest) \in Nat
  BY PieceType, LenProperties DEF IInv, TypeOK
<1>2. CASE pending_pos + Len(rest) > BUF
  BY <1>2 DEF IInv, TypeOK, NoOverflow, Gathering, ExactPayload, PartialLine, Fault,
     clientVars, pendingVars, writeVars, uploadVars, cmdVars
<1>3. CASE ~(pending_pos + Len(rest) > BUF)
  <2>1. /\ pending_data' = Copied(pending_data, pending_pos, rest)
        /\ pending_pos' = pending_pos + Len(rest)
        /\ pending_size' = pending_size + Len(rest)
        /\ pc' = "select" /\ read_pos' = 0 /\ readed_data' = <<>>
        /\ UNCHANGED <<clientVars, writeVars, uploadVars, cmdVars>>
    BY <1>3 DEF PartialLine
  <2>2. pending_data' \in [1..BUF -> Cell]
    BY <1>1, <2>1, CopiedType DEF IInv, TypeOK
  <2>3. readed_data' \in Seq(Cell) /\ Len(readed_data') = 0
    BY <2>1, EmptySeq
  <2>4. TypeOK'
    BY <1>1, <2>1, <2>2, <2>3, SMTT(60)
       DEF IInv, TypeOK, clientVars, writeVars, uploadVars, cmdVars
  <2>5. NoOverflow' /\ Gathering' /\ ExactPayload'
    BY <1>1, <1>3, <2>1, BufAssumption
       DEF IInv, TypeOK, NoOverflow, Gathering, ExactPayload, writeVars, uploadVars, cmdVars
  <2>6. QED
    BY <2>4, <2>5 DEF IInv
<1>4. QED
  BY <1>2, <1>3

-----------------------------------------------------------------------------
(* Payload.                                                                *)

\* to_complete_size, by command.
LEMMA ToCompleteValue ==
  /\ current_cmd = "WRITE_MEM" => ToComplete = write_info_size - Len(write_buffer)
  /\ current_cmd = "PUT_FILE" => ToComplete = uploaded_file_size - uploaded_size
  /\ current_cmd \notin {"WRITE_MEM", "PUT_FILE"} => ToComplete = 0
BY Zenon DEF ToComplete

\* A step over payload takes no more than is there and than is wanted.
LEMMA TakenType ==
  ASSUME TypeOK, NoOverflow
  PROVE  /\ ToComplete \in Nat
         /\ Taken \in Nat /\ Taken <= ToComplete
         /\ read_pos + Taken \in Nat /\ read_pos + Taken <= Len(readed_data)
         /\ Chunk \in Seq(Cell) /\ Len(Chunk) = Taken
<1>1. /\ Len(readed_data) \in Nat /\ Len(write_buffer) \in Nat
  BY LenProperties DEF TypeOK
<1>2. ToComplete \in Nat
  BY <1>1, ToCompleteValue DEF TypeOK, NoOverflow
<1>3. /\ Taken \in Nat /\ Taken <= ToComplete
      /\ read_pos + Taken \in Nat /\ read_pos + Taken <= Len(readed_data)
  BY <1>1, <1>2 DEF Taken, Available, TypeOK
<1>4. Chunk \in Seq(Cell) /\ Len(Chunk) = Taken
  BY <1>1, <1>3, PieceType DEF Chunk, TypeOK
<1>5. QED
  BY <1>2, <1>3, <1>4

\* A piece of payload is never more than what is to come.
LEMMA FeedType ==
  ASSUME IInv, NEW command, Feed(command)
  PROVE  /\ in_cmd /\ current_cmd = command
         /\ pending_data' \in [1..BUF -> Cell]
         /\ pending_size' = 0 /\ pending_pos' = 0
         /\ UNCHANGED <<clientVars, current_cmd, request>>
<1>1. pending_data' \in [1..BUF -> Cell]
  BY TakenType, CopiedType DEF IInv, TypeOK, Feed
<1>2. QED
  BY <1>1 DEF Feed

\* A command without payload takes none.
LEMMA FeedNobodyStep == IInv /\ FeedNobody => IInv'
<1> SUFFICES ASSUME IInv, FeedNobody PROVE IInv'
  OBVIOUS
<1>1. PICK c \in Verbs \ {"WRITE_MEM", "PUT_FILE"} : Feed(c)
  BY DEF FeedNobody
<1>2. /\ LoopFrom(read_pos)
      /\ UNCHANGED <<writeVars, uploadVars, in_cmd, log>>
  BY DEF FeedNobody
<1>3. /\ pc' \in {"select", "scan", "spin", "ub"}
      /\ readed_data' \in Seq(Cell)
      /\ read_pos' \in Nat /\ read_pos' <= Len(readed_data')
  BY <1>2, LoopType DEF IInv, TypeOK
<1>4. TypeOK'
  BY <1>1, <1>2, <1>3, FeedType, SMTT(60)
     DEF IInv, TypeOK, clientVars, writeVars, uploadVars
<1>5. NoOverflow' /\ Gathering' /\ ExactPayload'
  BY <1>1, <1>2, FeedType, BufAssumption
     DEF IInv, NoOverflow, Gathering, ExactPayload, writeVars, uploadVars
<1>6. QED
  BY <1>4, <1>5 DEF IInv

\* A piece for WRITE_MEM fits in the memory taken for it.
LEMMA FeedWriteStep == IInv /\ FeedWrite => IInv'
<1> SUFFICES ASSUME IInv, FeedWrite PROVE IInv'
  OBVIOUS
<1>1. /\ TypeOK /\ NoOverflow /\ Gathering /\ ExactPayload
      /\ Feed("WRITE_MEM")
      /\ UNCHANGED <<uploadVars, write_info_size>>
  BY DEF IInv, FeedWrite
<1>2. /\ in_cmd /\ current_cmd = "WRITE_MEM"
      /\ pending_data' \in [1..BUF -> Cell]
      /\ pending_size' = 0 /\ pending_pos' = 0
      /\ UNCHANGED <<clientVars, current_cmd, request>>
  BY <1>1, FeedType
<1>3. /\ ToComplete = write_info_size - Len(write_buffer)
      /\ Taken \in Nat /\ Taken <= ToComplete
      /\ Chunk \in Seq(Cell) /\ Len(Chunk) = Taken
      /\ Len(write_buffer) \in Nat
  BY <1>1, <1>2, ToCompleteValue, TakenType, LenProperties DEF TypeOK
<1>4. /\ write_buffer \o Chunk \in Seq(Cell)
      /\ Len(write_buffer \o Chunk) = Len(write_buffer) + Taken
  BY <1>1, <1>3, ConcatProperties DEF TypeOK
<1>5. CASE Fault /\ UNCHANGED <<write_buffer, write_pointer, in_cmd, log>>
  <2>1. TypeOK'
    BY <1>1, <1>2, <1>5, SMTT(60) DEF TypeOK, Fault, clientVars, uploadVars
  <2>2. NoOverflow' /\ Gathering' /\ ExactPayload'
    BY <1>1, <1>2, <1>5, BufAssumption
       DEF NoOverflow, Gathering, ExactPayload, uploadVars
  <2>3. QED
    BY <2>1, <2>2 DEF IInv
<1>6. CASE /\ LoopFrom(read_pos + Taken)
           /\ Taken < ToComplete
           /\ write_buffer' = write_buffer \o Chunk
           /\ UNCHANGED <<write_pointer, in_cmd, log>>
  <2>1. /\ pc' \in {"select", "scan", "spin", "ub"}
        /\ readed_data' \in Seq(Cell)
        /\ read_pos' \in Nat /\ read_pos' <= Len(readed_data')
    BY <1>1, <1>6, LoopType, TakenType
  <2>2. TypeOK'
    BY <1>1, <1>2, <1>4, <1>6, <2>1, SMTT(60) DEF TypeOK, clientVars, uploadVars
  <2>3. NoOverflow' /\ Gathering' /\ ExactPayload'
    BY <1>1, <1>2, <1>3, <1>4, <1>6, BufAssumption
       DEF TypeOK, NoOverflow, Gathering, ExactPayload, uploadVars
  <2>4. QED
    BY <2>2, <2>3 DEF IInv
<1>7. ASSUME LoopFrom(read_pos + Taken),
             Taken = ToComplete,
             NEW r \in Replies(request), Carried(request, write_buffer \o Chunk, r),
             in_cmd' = FALSE,
             write_buffer' = <<>>, write_pointer' = "freed"
      PROVE  IInv'
  <2>1. /\ pc' \in {"select", "scan", "spin", "ub"}
        /\ readed_data' \in Seq(Cell)
        /\ read_pos' \in Nat /\ read_pos' <= Len(readed_data')
    BY <1>1, <1>7, LoopType, TakenType
  <2>2. Announces(request) => Len(write_buffer \o Chunk) = Size(request)
    BY <1>1, <1>2, <1>3, <1>4, <1>7 DEF Gathering, TypeOK
  <2>3. request \in Seq(Cell) /\ log \in Seq(Entry) /\ r \in ReplyKinds
    BY <1>1, <1>7, RepliesType DEF TypeOK
  <2>4. log' \in Seq(Entry) /\ ExactPayload'
    BY <1>1, <1>4, <1>7, <2>2, <2>3, CarriedType
  <2>5. in_cmd' \in BOOLEAN /\ ~in_cmd'
    BY <1>7
  <2>6. write_buffer' \in Seq(Cell) /\ Len(write_buffer') = 0
    BY <1>7, EmptySeq
  <2>7. TypeOK'
    BY <1>1, <1>2, <1>7, <2>1, <2>4, <2>5, <2>6, SMTT(60) DEF TypeOK, clientVars, uploadVars
  <2>8. NoOverflow'
    BY <1>1, <1>2, <2>6, BufAssumption DEF TypeOK, NoOverflow, uploadVars
  <2>9. Gathering'
    BY <1>1, <1>2, <1>7, <2>5 DEF Gathering, uploadVars
  <2>10. QED
    BY <2>4, <2>7, <2>8, <2>9 DEF IInv
<1>8. QED
  BY <1>5, <1>6, <1>7 DEF FeedWrite

\* A piece for PUT_FILE is counted once, and written if the file is open.
LEMMA FeedPutStep == IInv /\ FeedPut => IInv'
<1> SUFFICES ASSUME IInv, FeedPut PROVE IInv'
  OBVIOUS
<1>1. /\ TypeOK /\ NoOverflow /\ Gathering /\ ExactPayload
      /\ Feed("PUT_FILE")
      /\ LoopFrom(read_pos + Taken)
      /\ uploaded_size' = uploaded_size + Taken
      /\ uploaded' = IF upload_file_fd = "open" THEN uploaded \o Chunk ELSE uploaded
      /\ UNCHANGED <<writeVars, uploaded_file_size>>
  BY DEF IInv, FeedPut
<1>2. /\ in_cmd /\ current_cmd = "PUT_FILE"
      /\ pending_data' \in [1..BUF -> Cell]
      /\ pending_size' = 0 /\ pending_pos' = 0
      /\ UNCHANGED <<clientVars, current_cmd, request>>
  BY <1>1, FeedType
<1>3. /\ ToComplete = uploaded_file_size - uploaded_size
      /\ Taken \in Nat /\ Taken <= ToComplete
      /\ Chunk \in Seq(Cell) /\ Len(Chunk) = Taken
  BY <1>1, <1>2, ToCompleteValue, TakenType
<1>4. /\ uploaded \o Chunk \in Seq(Cell)
      /\ Len(uploaded \o Chunk) = Len(uploaded) + Taken
  BY <1>1, <1>3, ConcatProperties DEF TypeOK
<1>5. /\ pc' \in {"select", "scan", "spin", "ub"}
      /\ readed_data' \in Seq(Cell)
      /\ read_pos' \in Nat /\ read_pos' <= Len(readed_data')
  BY <1>1, LoopType, TakenType
<1>6. /\ uploaded' \in Seq(Cell)
      /\ uploaded_size' \in Nat /\ uploaded_size' <= uploaded_file_size'
      /\ upload_file_fd = "open" => Len(uploaded') = uploaded_size'
  <2>1. /\ uploaded_size' = uploaded_size + Taken
        /\ uploaded_file_size' = uploaded_file_size
        /\ uploaded_size \in Nat /\ uploaded_file_size \in Nat
    BY <1>1 DEF TypeOK
  <2>2. uploaded_size' \in Nat /\ uploaded_size' <= uploaded_file_size'
    BY <1>3, <2>1
  <2>3. CASE upload_file_fd = "open"
    BY <1>1, <1>4, <2>1, <2>2, <2>3 DEF Gathering
  <2>4. CASE upload_file_fd # "open"
    BY <1>1, <2>2, <2>4 DEF TypeOK
  <2>5. QED
    BY <2>3, <2>4
<1>7. CASE UNCHANGED <<upload_file_fd, in_cmd, log>>
  <2>1. TypeOK'
    BY <1>1, <1>2, <1>5, <1>6, <1>7, SMTT(60) DEF TypeOK, clientVars, writeVars
  <2>2. NoOverflow' /\ Gathering' /\ ExactPayload'
    BY <1>1, <1>2, <1>6, <1>7, BufAssumption
       DEF NoOverflow, Gathering, ExactPayload, writeVars
  <2>3. QED
    BY <2>1, <2>2 DEF IInv
<1>8. ASSUME Taken = ToComplete,
             in_cmd' = FALSE,
             upload_file_fd' \in {"none", "closed"},
             \/ upload_file_fd = "open" /\ Carried(request, uploaded', "none")
             \/ UNCHANGED log
      PROVE  IInv'
  <2>1. in_cmd' \in BOOLEAN /\ ~in_cmd'
    BY <1>8
  <2>2. log' \in Seq(Entry) /\ ExactPayload'
    <3>1. CASE UNCHANGED log
      BY <1>1, <3>1 DEF TypeOK, ExactPayload
    <3>2. CASE upload_file_fd = "open" /\ Carried(request, uploaded', "none")
      <4>1. Len(uploaded') = Size(request)
        BY <1>1, <1>3, <1>6, <1>8, <3>2 DEF Gathering, TypeOK
      <4>2. request \in Seq(Cell) /\ log \in Seq(Entry) /\ "none" \in ReplyKinds
        BY <1>1 DEF TypeOK, ReplyKinds
      <4>3. QED
        BY <1>1, <1>6, <3>2, <4>1, <4>2, CarriedType
    <3>3. QED
      BY <1>8, <3>1, <3>2
  <2>3. TypeOK'
    BY <1>1, <1>2, <1>5, <1>6, <1>8, <2>1, <2>2, SMTT(60) DEF TypeOK, clientVars, writeVars
  <2>4. NoOverflow'
    BY <1>1, <1>2, <1>6, BufAssumption DEF NoOverflow, writeVars
  <2>5. Gathering'
    BY <1>1, <1>2, <1>8, <2>1 DEF Gathering, writeVars
  <2>6. QED
    BY <2>2, <2>3, <2>4, <2>5 DEF IInv
<1>9. \/ UNCHANGED <<upload_file_fd, in_cmd, log>>
      \/ /\ Taken = ToComplete /\ in_cmd' = FALSE
         /\ upload_file_fd' \in {"none", "closed"}
         /\ \/ upload_file_fd = "open" /\ Carried(request, uploaded', "none")
            \/ UNCHANGED log
  BY <1>1 DEF FeedPut, TypeOK
<1>10. QED
  BY <1>7, <1>8, <1>9

-----------------------------------------------------------------------------
(* The theorems.                                                           *)

\* Every step of the server and of its clients keeps the invariant.
LEMMA NextInv == IInv /\ [Next]_vars => IInv'
<1> SUFFICES ASSUME IInv, [Next]_vars PROVE IInv'
  OBVIOUS
<1>1. CASE Client
  BY <1>1, ClientStep
<1>2. CASE Accept
  BY <1>2, AcceptStep
<1>3. CASE ReadSome
  BY <1>3, ReadStep
<1>4. CASE Disconnect
  BY <1>4, DisconnectStep
<1>5. CASE Preprocess
  BY <1>5, ProcessLineStep, PartialLineStep, FeedWriteStep, FeedPutStep, FeedNobodyStep
     DEF Preprocess, Feeding
<1>6. CASE UNCHANGED vars
  BY <1>6 DEF vars, clientVars, scanVars, pendingVars, writeVars, uploadVars, cmdVars,
     IInv, TypeOK, NoOverflow, Gathering, ExactPayload
<1>7. QED
  BY <1>1, <1>2, <1>3, <1>4, <1>5, <1>6 DEF Next, Server

\* The invariant holds in every state the slot reaches.
LEMMA InvariantHolds == Spec => []IInv
BY InitInv, NextInv, PTL DEF Spec

\* Every variable of the slot keeps its type, for any BUF and any clients.
THEOREM TypeCorrect == Spec => []TypeOK
<1>1. IInv => TypeOK
  BY DEF IInv
<1>2. QED
  BY <1>1, InvariantHolds, PTL

\* preprocess_data and the payload handlers never gather more than what was
\* announced nor, in pending_data, more than its size (server.c:95-105,
\* 132-134; cmd.c:150-151, 249).
THEOREM NeverOverflows == Spec => []NoOverflow
<1>1. IInv => NoOverflow
  BY DEF IInv
<1>2. QED
  BY <1>1, InvariantHolds, PTL

\* Memory is live and an upload file open only for the line that asked for
\* them (cmd.c:141-142, 239-246 against 168-170, 254-255).
THEOREM GathersForTheRequest == Spec => []Gathering
<1>1. IInv => Gathering
  BY DEF IInv
<1>2. QED
  BY <1>1, InvariantHolds, PTL

\* No WRITE_MEM is performed and no PUT_FILE finished with more or fewer
\* bytes than its line announced, whatever any client sends and wherever the
\* reads cut it (cmd.c:156, 251).
THEOREM PayloadsAreExact == Spec => []ExactPayload
<1>1. IInv => ExactPayload
  BY DEF IInv
<1>2. QED
  BY <1>1, InvariantHolds, PTL
=============================================================================
