---------------------------- MODULE FtpUserProofs ----------------------------
(***************************************************************************)
(* For every user, server and size of files: the types of QFtp's objects,  *)
(* and, until a command is aborted, that an answer is the answer to the    *)
(* line that was sent, that lines are sent in the state Idle only, that    *)
(* state() tells of a connection, and that QFtp keeps the promise of       *)
(* CommandQueue.                                                           *)
(*                                                                         *)
(* The invariant (Core) says of each call on the stack what holds when it  *)
(* runs (On) and when it goes on (Under), which calls may wait for which   *)
(* (Stacked, Pairs), and how the queue, the two connections and the rows   *)
(* under way hang together (Pipe, Text, Modes).  One lemma for each action *)
(* shows that it is kept.                                                  *)
(***************************************************************************)
EXTENDS FtpUser, SequenceTheorems, TLAPS

-----------------------------------------------------------------------------
(* The types, of any run.                                                  *)

SentLines == [verb : Verbs, id : Nat]
LineType  == SentLines \cup {NoLine}
Moved     == [verb : Transfers, id : Nat] \cup {NoLine}
RowType   == [code : Nat, to : LineType, last : BOOLEAN]
NetType ==
  [control : {"unconnected", "lookup", "connecting", "connected"},
   up : Seq(SentLines), down : Seq(RowType), link : {"none", "offered", "invited", "called", "open"},
   data : Seq(Nat), eof : BOOLEAN, transfer : Moved, left : Seq(Nat), stored : Seq(Nat),
   sent : BOOLEAN, bye : BOOLEAN]
DtpType ==
  [socket : {"none", "connecting", "connected", "closing", "unconnected"},
   inbox : Seq(Nat), out : Seq(Nat), bytes : Seq(Nat),
   data : [kind : {"none", "bytes", "device"}, id : Nat], left : Seq(Nat), file : Seq(Nat),
   listening : BOOLEAN, writing : BOOLEAN, err : BOOLEAN]
PiType ==
  [state : {"Begin", "Idle", "Waiting", "Success", "Failure"},
   abort : {"None", "AbortStarted", "WaitForAbortToFinish"}, pending : Seq(SentLines), cmd : LineType,
   waitConnect : BOOLEAN, waitClose : BOOLEAN, extended : BOOLEAN, text : BOOLEAN, code : Nat,
   to : LineType]
States == {"Unconnected", "HostLookup", "Connecting", "Connected", "LoggedIn", "Closing"}
CommandType == [id : Nat, command : Commands, mode : {"Active", "Passive"}]
ReportType == [what : {"started", "finished"}, id : Nat]
FtpType ==
  [pending : Seq(CommandType), state : States, mode : {"Active", "Passive"}, closeWait : BOOLEAN,
   timers : Nat, last : Nat, signals : Seq(ReportType), failed : SUBSET Nat]

Plain == {"abort", "abortConnection", "cleared", "clearError", "clearPendingCommands", "closed",
          "connectToHost", "dtpConnectToHost", "failed", "processed", "processReply",
          "_q_piFinished", "_q_startNextCommand", "react", "readLines", "readyRead",
          "socketBytesWritten", "socketConnectionClosed", "socketReadyRead", "startNextCmd",
          "waitForConnection", "writeData", "written"}
Signals == {"stateChanged", "readyRead", "finished", "failed", "done", "undone"}
Frame == (Plain \X {0})
  \cup ({"slot"} \X [signal : Signals, id : Nat])
  \cup ({"dtpConnectState"} \X {"CsClosed", "CsConnected", "CsConnectionRefused"})
  \cup ({"_q_piError"} \X {"NotConnected", "UnknownError", "ConnectionRefused"})
  \cup ({"_q_piConnectState"} \X States)
  \cup ({"sendCommands"} \X Seq(SentLines))
  \cup ({"replied", "commandFailed"} \X Nat)
  \cup ({"removeFirst"} \X BOOLEAN)

\* What a queue has behind a command, as far as its order goes.
Queued(q, last) ==
  /\ \A i \in 1..Len(q) : q[i].id \in 1..last
  /\ \A i, j \in 1..Len(q) : i < j => q[i].id < q[j].id

TypeInv ==
  /\ net \in NetType /\ dtp \in DtpType /\ pi \in PiType /\ lines \in Seq(RowType)
  /\ ftp \in FtpType /\ calls \in Seq(Frame) /\ aborts \in Nat
  /\ Queued(ftp.pending, ftp.last)
  /\ ftp.timers <= ftp.last /\ ftp.last <= MaxCommands

-----------------------------------------------------------------------------
(* Lines, rows, cells and frames.                                          *)

LEMMA SingleSeq ==
  ASSUME NEW S, NEW a \in S
  PROVE  <<a>> \in Seq(S) /\ Len(<<a>>) = 1 /\ <<a>>[1] = a
OBVIOUS

LEMMA Joined ==
  ASSUME NEW S, NEW a \in S, NEW b \in S
  PROVE  <<a>> \o <<b>> = <<a, b>> /\ <<a>> \o <<>> = <<a>>
<1>1. /\ <<a>> \in Seq(S) /\ <<b>> \in Seq(S) /\ <<a, b>> \in Seq(S)
      /\ Len(<<a>>) = 1 /\ Len(<<b>>) = 1 /\ Len(<<a, b>>) = 2
      /\ <<a>>[1] = a /\ <<b>>[1] = b /\ <<a, b>>[1] = a /\ <<a, b>>[2] = b
  OBVIOUS
<1>2. PICK s : s = <<a>> \o <<b>>
  OBVIOUS
<1>3. s \in Seq(S) /\ Len(s) = 2 /\ s[1] = a /\ s[2] = b
  BY <1>1, <1>2, ConcatProperties
<1>4. \A i \in 1..2 : i = 1 \/ i = 2
  OBVIOUS
<1>5. s = <<a, b>>
  BY <1>1, <1>3, <1>4, SeqEqual
<1>6. <<a>> \o <<>> = <<a>>
  BY <1>1, ConcatEmptySeq
<1>. QED
  BY <1>2, <1>5, <1>6

LEMMA Joined3 ==
  ASSUME NEW S, NEW a \in S, NEW b \in S, NEW c \in S
  PROVE  <<a>> \o <<b, c>> = <<a, b, c>>
<1>1. /\ <<a>> \in Seq(S) /\ <<b, c>> \in Seq(S) /\ <<a, b, c>> \in Seq(S)
      /\ Len(<<a>>) = 1 /\ Len(<<b, c>>) = 2 /\ Len(<<a, b, c>>) = 3
      /\ <<a>>[1] = a /\ <<b, c>>[1] = b /\ <<b, c>>[2] = c
      /\ <<a, b, c>>[1] = a /\ <<a, b, c>>[2] = b /\ <<a, b, c>>[3] = c
  OBVIOUS
<1>2. PICK s : s = <<a>> \o <<b, c>>
  OBVIOUS
<1>3. s \in Seq(S) /\ Len(s) = 3 /\ s[1] = a /\ s[2] = b /\ s[3] = c
  BY <1>1, <1>2, ConcatProperties
<1>4. \A i \in 1..3 : i = 1 \/ i = 2 \/ i = 3
  OBVIOUS
<1>5. s = <<a, b, c>>
  BY <1>1, <1>3, <1>4, SeqEqual
<1>. QED
  BY <1>2, <1>5

LEMMA ConstantSeq ==
  ASSUME NEW S, NEW a \in S, NEW n \in Nat
  PROVE  [i \in 1..n |-> a] \in Seq(S)
<1>1. [i \in 1..n |-> a] \in [1..n -> S]
  OBVIOUS
<1>. QED
  BY <1>1, SeqDef

LEMMA WholeType == ASSUME NEW id \in Nat PROVE Whole(id) \in Seq(Nat)
<1>1. Cells \in Nat
  BY NetworkBounds
<1>. QED
  BY <1>1, ConstantSeq DEF Whole

\* What a field is cleared to.
LEMMA NoCells ==
  /\ <<>> \in Seq(Nat) /\ <<>> \in Seq(SentLines) /\ <<>> \in Seq(RowType)
  /\ Nothing \in [kind : {"none", "bytes", "device"}, id : Nat]
<1>1. Nothing \in [kind : {"none", "bytes", "device"}, id : Nat]
  BY DEF Nothing
<1>. QED
  BY <1>1, EmptySeq

LEMMA LineFacts ==
  /\ NoLine \in LineType /\ NoLine \in Moved /\ NoLine \notin SentLines
  /\ Greeting \in SentLines /\ Abor \in SentLines
  /\ \A v \in Verbs, id \in Nat : Line(v, id) \in SentLines
  /\ "none" \notin Verbs /\ NoLine.verb = "none"
BY DEF NoLine, LineType, Moved, SentLines, Greeting, Abor, Line, Verbs, Transfers

LEMMA AnswerType ==
  ASSUME NEW code \in Nat, NEW line \in LineType
  PROVE  Answer(code, line) \in Seq(RowType)
<1>1. Row(code, line, TRUE) \in RowType /\ Row(code, line, FALSE) \in RowType
  BY DEF Row, RowType
<1>2. \A r, s \in RowType : <<r>> \in Seq(RowType) /\ <<r, s>> \in Seq(RowType)
  OBVIOUS
<1>. QED
  BY <1>1, <1>2 DEF Answer

LEMMA VerbsOfCommand ==
  ASSUME NEW c
  PROVE  \E verbs \in Seq(Verbs) :
            verbs # <<>> /\ LinesOf(c) = [i \in 1..Len(verbs) |-> Line(verbs[i], c.id)]
<1> DEFINE via == IF c.mode = "Passive" THEN "PASV" ELSE "PORT"
           verbs == CASE c.command = "Login"  -> <<"USER", "PASS">>
                 [] c.command = "Close"  -> <<"QUIT">>
                 [] c.command = "List"   -> <<"TYPE", via, "LIST">>
                 [] c.command \in Gets   -> <<"TYPE", "SIZE", via, "RETR">>
                 [] c.command \in Puts   -> <<"TYPE", via, "ALLO", "STOR">>
                 [] c.command = "Rename" -> <<"RNFR", "RNTO">>
                 [] c.command = "RawCommand" -> <<"RAW">>
                 [] OTHER -> <<"CWD">>
<1>1. via \in Verbs
  BY DEF Verbs
<1>2. verbs \in Seq(Verbs)
  <2> HIDE DEF via
  <2>1. /\ <<"USER", "PASS">> \in Seq(Verbs) /\ <<"QUIT">> \in Seq(Verbs)
        /\ <<"RNFR", "RNTO">> \in Seq(Verbs) /\ <<"RAW">> \in Seq(Verbs) /\ <<"CWD">> \in Seq(Verbs)
    BY DEF Verbs
  <2>2. <<"TYPE", via, "LIST">> \in Seq(Verbs)
    BY <1>1 DEF Verbs, Transfers
  <2>3. <<"TYPE", "SIZE", via, "RETR">> \in Seq(Verbs)
    BY <1>1 DEF Verbs, Transfers
  <2>4. <<"TYPE", via, "ALLO", "STOR">> \in Seq(Verbs)
    BY <1>1 DEF Verbs, Transfers
  <2>. QED
    BY <2>1, <2>2, <2>3, <2>4
<1>3. LinesOf(c) = [i \in DOMAIN verbs |-> Line(verbs[i], c.id)]
  BY DEF LinesOf
<1>4. verbs # <<>>
  <2> HIDE DEF via
  <2>1. \A u, v, x, y : <<u>> # <<>> /\ <<u, v>> # <<>> /\ <<u, v, x>> # <<>> /\ <<u, v, x, y>> # <<>>
    OBVIOUS
  <2>. QED
    BY <2>1
<1> HIDE DEF verbs
<1>5. DOMAIN verbs = 1..Len(verbs)
  BY <1>2, LenProperties
<1>. QED
  BY <1>2, <1>3, <1>4, <1>5

LEMMA LinesOfType ==
  ASSUME NEW c, c.id \in Nat
  PROVE  LinesOf(c) \in Seq(SentLines) /\ LinesOf(c) # <<>>
<1>1. PICK verbs \in Seq(Verbs) :
        verbs # <<>> /\ LinesOf(c) = [i \in 1..Len(verbs) |-> Line(verbs[i], c.id)]
  BY VerbsOfCommand
<1>2. \A i \in 1..Len(verbs) : Line(verbs[i], c.id) \in SentLines
  BY ElementOfSeq, LineFacts
<1>3. [i \in 1..Len(verbs) |-> Line(verbs[i], c.id)] \in [1..Len(verbs) -> SentLines]
  BY <1>2
<1>4. Len(verbs) \in Nat \ {0}
  BY <1>1, LenProperties, EmptySeq
<1> DEFINE q == LinesOf(c)
<1> HIDE DEF q
<1>5. q \in Seq(SentLines) /\ DOMAIN q = 1..Len(verbs)
  BY <1>1, <1>3, <1>4, SeqDef DEF q
<1>6. Len(q) = Len(verbs) /\ Len(q) # 0
  BY <1>4, <1>5, LenProperties
<1>7. q # <<>>
  BY <1>6, EmptySeq
<1>. QED
  BY <1>5, <1>7 DEF q

-----------------------------------------------------------------------------
(* Each step keeps the types.                                              *)

LEMMA FrameTypes ==
  /\ \A name \in Plain : Do(name) \in Frame
  /\ \A s \in Signals, id \in Nat : Signal(s, id) \in Frame
  /\ DtpState("CsClosed") \in Frame /\ DtpState("CsConnected") \in Frame
  /\ DtpState("CsConnectionRefused") \in Frame
  /\ PiError("NotConnected") \in Frame /\ PiError("UnknownError") \in Frame
  /\ PiError("ConnectionRefused") \in Frame
  /\ \A s \in States : PiConnectState(s) \in Frame
  /\ \A s \in Seq(SentLines) : Call("sendCommands", s) \in Frame
  /\ \A n \in Nat : Call("replied", n) \in Frame /\ Call("commandFailed", n) \in Frame
  /\ \A b \in BOOLEAN : Call("removeFirst", b) \in Frame
BY DEF Do, Signal, DtpState, PiError, PiConnectState, Call, Frame

\* A frame by its name.
LEMMA FrameArgs ==
  ASSUME NEW f \in Frame
  PROVE  /\ f = Call(f[1], f[2])
         /\ f[1] \in Plain => f = Do(f[1])
         /\ f[1] = "slot" => f[2].signal \in Signals /\ f[2].id \in Nat
         /\ f[1] = "dtpConnectState" => f[2] \in {"CsClosed", "CsConnected", "CsConnectionRefused"}
         /\ f[1] = "_q_piConnectState" => f[2] \in States
         /\ f[1] = "sendCommands" => f[2] \in Seq(SentLines)
         /\ f[1] \in {"replied", "commandFailed"} => f[2] \in Nat
         /\ f[1] = "removeFirst" => f[2] \in BOOLEAN
<1>1. f[1] \in Plain => f \in Plain \X {0}
  BY DEF Frame, Plain
<1>2. f = <<f[1], f[2]>>
  BY DEF Frame
<1>3. f[1] = "slot" => f[2] \in [signal : Signals, id : Nat]
  BY DEF Frame, Plain
<1>4. f[1] = "_q_piConnectState" => f[2] \in States
  BY DEF Frame, Plain
<1>5. f[1] = "dtpConnectState" => f[2] \in {"CsClosed", "CsConnected", "CsConnectionRefused"}
  BY DEF Frame, Plain
<1>6. f[1] = "sendCommands" => f[2] \in Seq(SentLines)
  BY DEF Frame, Plain
<1>7. f[1] \in {"replied", "commandFailed"} => f[2] \in Nat
  BY DEF Frame, Plain
<1>8. f[1] = "removeFirst" => f[2] \in BOOLEAN
  BY DEF Frame, Plain
<1>. QED
  BY <1>1, <1>2, <1>3, <1>4, <1>5, <1>6, <1>7, <1>8 DEF Call, Do

\* The innermost call, and those behind it.
LEMMA Innermost ==
  ASSUME calls \in Seq(Frame), calls # <<>>
  PROVE  Head(calls) \in Frame /\ Tail(calls) \in Seq(Frame)
BY HeadTailProperties

LEMMA ThenType ==
  ASSUME calls \in Seq(Frame), calls # <<>>, NEW next \in Seq(Frame), Then(next)
  PROVE  calls' \in Seq(Frame)
<1>1. Tail(calls) \in Seq(Frame)
  BY Innermost
<1>. QED
  BY <1>1, ConcatProperties DEF Then

LEMMA FrameSeqs ==
  /\ <<>> \in Seq(Frame)
  /\ \A a \in Frame : <<a>> \in Seq(Frame)
  /\ \A a, b \in Frame : <<a, b>> \in Seq(Frame)
  /\ \A a, b, c \in Frame : <<a, b, c>> \in Seq(Frame)
<1> DEFINE F == Frame
<1> HIDE DEF F
<1>1. /\ <<>> \in Seq(F)
      /\ \A a \in F : <<a>> \in Seq(F)
      /\ \A a, b \in F : <<a, b>> \in Seq(F)
      /\ \A a, b, c \in F : <<a, b, c>> \in Seq(F)
  OBVIOUS
<1>. QED
  BY <1>1 DEF F

Objects == /\ net \in NetType /\ dtp \in DtpType /\ pi \in PiType /\ lines \in Seq(RowType)
           /\ calls \in Seq(Frame)

\* What is left of an object in the hands of the code.
LEMMA DtpParts ==
  ASSUME NEW d \in DtpType
  PROVE  /\ Shut(d) \in DtpType /\ ClearData(d) \in DtpType /\ Accepted(d) \in DtpType
         /\ SetupListener(d) \in DtpType /\ ReadAll(d) \in DtpType
         /\ \A b \in BOOLEAN : [d EXCEPT !.writing = b] \in DtpType
         /\ \A id \in Nat : SetData(d, id) \in DtpType
         /\ \A id \in Nat, s \in Seq(Nat) : SetDevice(d, id, s) \in DtpType
         /\ \A s \in Seq(Nat) : Written(d, s) \in DtpType
<1>1. Shut(d) \in DtpType /\ Accepted(d) \in DtpType /\ SetupListener(d) \in DtpType
  BY NoCells DEF Shut, Accepted, SetupListener, DtpType
<1>2. ClearData(d) \in DtpType /\ ReadAll(d) \in DtpType
  BY NoCells DEF ClearData, ReadAll, DtpType
<1>3. \A b \in BOOLEAN : [d EXCEPT !.writing = b] \in DtpType
  BY DEF DtpType
<1>4. \A id \in Nat : SetData(d, id) \in DtpType
  BY DEF DtpType, SetData
<1>5. \A id \in Nat, s \in Seq(Nat) : SetDevice(d, id, s) \in DtpType
  BY NoCells DEF DtpType, SetDevice
<1>6. \A s \in Seq(Nat) : Written(d, s) \in DtpType
  <2> SUFFICES ASSUME NEW s \in Seq(Nat) PROVE Written(d, s) \in DtpType
    OBVIOUS
  <2>1. d.out \o s \in Seq(Nat)
    BY ConcatProperties DEF DtpType
  <2>. QED
    BY <2>1 DEF Written, DtpType
<1>. QED
  BY <1>1, <1>2, <1>3, <1>4, <1>5, <1>6

LEMMA NetParts ==
  ASSUME NEW n \in NetType
  PROVE  /\ Hungup(n) \in NetType /\ [Hungup(n) EXCEPT !.sent = TRUE] \in NetType
         /\ [n EXCEPT !.data = <<>>] \in NetType
         /\ \A l \in SentLines : Wrote(n, l) \in NetType
<1>1. Hungup(n) \in NetType /\ [Hungup(n) EXCEPT !.sent = TRUE] \in NetType
  BY NoCells DEF Hungup, NetType
<1>2. [n EXCEPT !.data = <<>>] \in NetType
  BY NoCells DEF NetType
<1>3. \A l \in SentLines : Wrote(n, l) \in NetType
  <2> SUFFICES ASSUME NEW l \in SentLines PROVE Wrote(n, l) \in NetType
    OBVIOUS
  <2>1. Append(n.up, l) \in Seq(SentLines)
    BY AppendProperties DEF NetType
  <2>. QED
    BY <2>1 DEF Wrote, NetType
<1>. QED
  BY <1>1, <1>2, <1>3

LEMMA TransferTypes ==
  ASSUME Objects, TransferCode, UNCHANGED lines
  PROVE  Objects'
<1> USE DEF Objects
<1>0. calls # <<>>
  BY DEF TransferCode, DtpConnectToHost, AbortConnection, WaitForConnection, WriteData, AfterWrite,
         SocketBytesWritten, SocketReadyRead, SocketConnectionClosed, In
<1>1. /\ Disconnected \in Seq(Frame) /\ <<>> \in Seq(Frame) /\ <<Do("writeData")>> \in Seq(Frame)
      /\ <<Do("written")>> \in Seq(Frame) /\ <<DtpState("CsClosed")>> \in Seq(Frame)
      /\ <<Signal("readyRead", 0)>> \in Seq(Frame)
  BY FrameSeqs, FrameTypes DEF Disconnected, Plain, Signals
<1>2. Disconnected \o <<Do("written")>> \in Seq(Frame) /\ <<>> \o <<Do("written")>> \in Seq(Frame)
      /\ Disconnected \o <<DtpState("CsClosed")>> \in Seq(Frame)
      /\ Disconnected \o calls \in Seq(Frame)
  BY <1>1, ConcatProperties
<1>3. CASE DtpConnectToHost
  <2>1. CASE Usable
    <3>1. dtp' = Shut(dtp) /\ net' = [net EXCEPT !.data = <<>>] /\ calls' = Disconnected \o calls
      BY <1>3, <2>1 DEF DtpConnectToHost
    <3>. QED
      BY <1>2, <1>3, <3>1, DtpParts, NetParts DEF DtpConnectToHost
  <2>2. CASE ~Usable
    <3>1. dtp' \in DtpType
      BY <1>3, <2>2, NoCells, ZenonT(40) DEF DtpConnectToHost, DtpType
    <3>. QED
      BY <1>0, <1>1, <1>3, <2>2, <3>1, ThenType DEF DtpConnectToHost
  <2>. QED
    BY <2>1, <2>2
<1>4. CASE AbortConnection
  <2>1. [ClearData(dtp) EXCEPT !.writing = FALSE] \in DtpType
    BY DtpParts
  <2>2. dtp' \in DtpType
    BY <1>4, <2>1, DtpParts DEF AbortConnection
  <2>3. net' \in NetType
    BY <1>4, NetParts DEF AbortConnection
  <2>. QED
    BY <1>0, <1>1, <1>4, <2>2, <2>3, ThenType DEF AbortConnection
<1>5. CASE WaitForConnection
  <2>1. dtp' \in DtpType
    BY <1>5, DtpParts DEF WaitForConnection
  <2>2. net' \in NetType
    BY <1>5 DEF WaitForConnection, NetType
  <2>. QED
    BY <1>0, <1>1, <1>5, <2>1, <2>2, ThenType DEF WaitForConnection
<1>6. CASE WriteData
  <2>1. CASE dtp.socket = "none" \/ dtp.data.kind = "none"
    BY <1>0, <1>1, <1>6, <2>1, ThenType DEF WriteData
  <2>2. CASE WriteBytes
    <3>1. dtp.data.id \in Nat
      BY DEF DtpType
    <3>2. Written(dtp, Whole(dtp.data.id)) \in DtpType
      BY <3>1, DtpParts, WholeType
    <3> DEFINE d == Written(dtp, Whole(dtp.data.id))
    <3> HIDE DEF d
    <3>3. [d EXCEPT !.socket = IF @ = "connected" THEN "closing" ELSE @] \in DtpType
      BY <3>2 DEF DtpType, d
    <3>4. dtp' \in DtpType
      BY <2>2, <3>3, DtpParts DEF WriteBytes, d
    <3>. QED
      BY <1>0, <1>1, <1>6, <2>2, <3>4, ThenType DEF WriteData, WriteBytes
  <2>3. CASE WriteBlock
    <3>1. Head(dtp.left) \in Nat /\ Tail(dtp.left) \in Seq(Nat) /\ <<Head(dtp.left)>> \in Seq(Nat)
      <4>1. dtp.left \in Seq(Nat) /\ dtp.left # <<>>
        BY <2>3 DEF WriteBlock, DtpType
      <4>. QED
        BY <4>1, HeadTailProperties
    <3>2. Written(dtp, <<Head(dtp.left)>>) \in DtpType
      BY <3>1, DtpParts
    <3>5. Written(dtp, <<Head(dtp.left)>>).left = dtp.left
      <4> DEFINE s == dtp.out \o <<Head(dtp.left)>>
      <4> HIDE DEF s
      <4>1. Written(dtp, <<Head(dtp.left)>>) = IF dtp.socket = "connected" THEN [dtp EXCEPT !.out = s] ELSE dtp
        BY DEF Written, s
      <4>. QED
        BY <4>1 DEF DtpType
    <3> DEFINE d == Written(dtp, <<Head(dtp.left)>>)
    <3> HIDE DEF d
    <3>6. d \in DtpType /\ Tail(d.left) \in Seq(Nat)
      BY <3>1, <3>2, <3>5 DEF d
    <3>3. [d EXCEPT !.left = Tail(@), !.writing = TRUE] \in DtpType
      BY <3>6 DEF DtpType
    <3>4. dtp' \in DtpType
      BY <2>3, <3>3 DEF WriteBlock, d
    <3>. QED
      BY <1>0, <1>1, <1>6, <2>3, <3>4, ThenType DEF WriteData, WriteBlock
  <2>4. CASE WriteEnd
    <3>1. dtp' \in DtpType
      BY <2>4, DtpParts DEF WriteEnd
    <3>2. net' \in NetType
      BY <2>4, NetParts DEF WriteEnd
    <3>3. calls' \in Seq(Frame)
      BY <1>0, <1>2, <2>4, ThenType DEF WriteEnd
    <3>. QED
      BY <1>6, <3>1, <3>2, <3>3 DEF WriteData
  <2>. QED
    BY <1>6, <2>1, <2>2, <2>3, <2>4 DEF WriteData
<1>7. CASE AfterWrite
  BY <1>0, <1>1, <1>7, ThenType, DtpParts DEF AfterWrite
<1>8. CASE SocketBytesWritten
  BY <1>0, <1>1, <1>8, ThenType DEF SocketBytesWritten
<1>9. CASE SocketReadyRead
  <2>1. dtp' \in DtpType
    <3>1. dtp.file \o dtp.inbox \in Seq(Nat)
      BY ConcatProperties DEF DtpType
    <3> DEFINE err == dtp.err \/ Contains(dtp.inbox, NoSuchFile)
    <3>2. err \in BOOLEAN
      OBVIOUS
    <3>3. \/ dtp' = Shut(dtp)
          \/ dtp' = [dtp EXCEPT !.inbox = <<>>]
          \/ dtp' = [dtp EXCEPT !.inbox = <<>>, !.err = err]
          \/ dtp' = [dtp EXCEPT !.inbox = <<>>, !.file = dtp.file \o dtp.inbox]
          \/ dtp' = dtp
      BY <1>9 DEF SocketReadyRead
    <3> HIDE DEF err
    <3>4. [dtp EXCEPT !.inbox = <<>>, !.err = err] \in DtpType
      BY <3>2, NoCells DEF DtpType
    <3>5. [dtp EXCEPT !.inbox = <<>>, !.file = dtp.file \o dtp.inbox] \in DtpType
      BY <3>1, NoCells DEF DtpType
    <3>6. [dtp EXCEPT !.inbox = <<>>] \in DtpType
      BY NoCells DEF DtpType
    <3>. QED
      BY <3>3, <3>4, <3>5, <3>6, DtpParts
  <2>2. net' \in NetType
    BY <1>9, NetParts DEF SocketReadyRead
  <2>3. calls' \in Seq(Frame)
    BY <1>0, <1>1, <1>2, <1>9, ThenType DEF SocketReadyRead
  <2>. QED
    BY <1>9, <2>1, <2>2, <2>3 DEF SocketReadyRead
<1>10. CASE SocketConnectionClosed
  <2>1. ClearData(dtp) \in DtpType
    BY DtpParts
  <2>2. dtp' \in DtpType
    BY <1>10, <2>1, NoCells DEF SocketConnectionClosed, DtpType
  <2>. QED
    BY <1>0, <1>1, <1>10, <2>2, ThenType DEF SocketConnectionClosed
<1>. QED
  BY <1>3, <1>4, <1>5, <1>6, <1>7, <1>8, <1>9, <1>10 DEF TransferCode

LEMMA PiParts ==
  /\ \A l \in SentLines : Edited(l) \in SentLines
  /\ \A v \in DOMAIN Fallback, id \in Nat : Line(Fallback[v], id) \in SentLines
  /\ \A code \in Nat : Table(code) \in {"Idle", "Waiting", "Success", "Failure"}
<1>1. \A l \in SentLines : Edited(l) \in SentLines
  BY DEF Edited, SentLines, Line, Verbs, Transfers
<1>2. \A v \in DOMAIN Fallback, id \in Nat : Line(Fallback[v], id) \in SentLines
  BY DEF Fallback, SentLines, Line, Verbs, Transfers
<1>3. \A code \in Nat : Table(code) \in {"Idle", "Waiting", "Success", "Failure"}
  BY DEF Table
<1>. QED
  BY <1>1, <1>2, <1>3

\* A verb of the fallbacks is that of a line that was sent.
LEMMA FallbackVerbs == DOMAIN Fallback = {"EPSV", "EPRT"}
BY DEF Fallback

LEMMA PiFrames ==
  /\ PiFinished \in Frame /\ StartNextCmdCall \in Frame
  /\ Do("abortConnection") \in Frame /\ Do("cleared") \in Frame /\ Do("readLines") \in Frame
  /\ Do("processReply") \in Frame /\ Do("processed") \in Frame /\ Do("react") \in Frame
  /\ Do("failed") \in Frame /\ Do("clearError") \in Frame /\ Do("closed") \in Frame
  /\ Do("readyRead") \in Frame
BY FrameTypes DEF PiFinished, StartNextCmdCall, Plain

\* A row that is read.
LEMMA ReadRowTypes ==
  ASSUME Objects, calls # <<>>, NEW row \in RowType, ReadRow(row)
  PROVE  pi' \in PiType /\ calls' \in Seq(Frame)
<1> USE DEF Objects
<1> DEFINE code == IF pi.text THEN pi.code ELSE row.code
           to   == IF pi.text THEN pi.to ELSE row.to
           last == row.last /\ row.code = code
           wait == last /\ EndsTransfer(code) /\ ~DtpClosed
           close == pi.waitClose \/ wait
<1>1. code \in Nat /\ to \in LineType /\ close \in BOOLEAN
  BY DEF PiType, RowType
<1>2. pi' = [pi EXCEPT !.text = TRUE, !.code = code, !.to = to, !.waitClose = close]
  BY DEF ReadRow
<1>3. \/ Then(<<Do("processReply"), Do("processed"), Do("readLines")>>)
      \/ Then(<<Do("readLines")>>)
  BY DEF ReadRow
<1> HIDE DEF code, to, close
<1>4. pi' \in PiType
  BY <1>1, <1>2 DEF PiType
<1>. QED
  BY <1>3, <1>4, ThenType, FrameSeqs, PiFrames

LEMMA ReadingTypes ==
  ASSUME Objects, ReadyRead \/ ReadLines \/ Processed
  PROVE  Objects'
<1> USE DEF Objects
<1>0. calls # <<>>
  BY DEF ReadyRead, ReadLines, Processed, In
<1>1. CASE ReadyRead
  BY <1>0, <1>1, ThenType, FrameSeqs, PiFrames DEF ReadyRead
<1>2. CASE ReadLines
  <2>1. CASE lines = <<>>
    BY <1>0, <1>2, <2>1, ThenType, FrameSeqs DEF ReadLines
  <2>2. CASE lines # <<>>
    <3>1. Head(lines) \in RowType /\ Tail(lines) \in Seq(RowType)
      BY <2>2, HeadTailProperties
    <3>2. ReadRow(Head(lines)) /\ lines' = Tail(lines) /\ UNCHANGED <<dtp, net>>
      BY <1>2, <2>2 DEF ReadLines
    <3>. QED
      BY <1>0, <3>1, <3>2, ReadRowTypes
  <2>. QED
    BY <2>1, <2>2
<1>3. CASE Processed
  <2>1. pi' \in PiType
    BY <1>3 DEF Processed, PiType
  <2>. QED
    BY <1>0, <1>3, <2>1, ThenType, FrameSeqs DEF Processed
<1>. QED
  BY <1>1, <1>2, <1>3

LEMMA ReplyTypes ==
  ASSUME Objects, ProcessReply \/ React \/ ClearError \/ Failed
  PROVE  Objects'
<1> USE DEF Objects
<1>0. calls # <<>>
  BY DEF ProcessReply, React, ClearError, Failed, In
<1>1. CASE ProcessReply
  <2> DEFINE abort == IF pi.abort = "AbortStarted" THEN "WaitForAbortToFinish" ELSE "None"
  <2>1. \E state \in {"Begin", "Idle", "Waiting", "Success", "Failure"},
          frames \in {<<>>, <<PiFinished, Replied, Do("react")>>, <<Replied, Do("react")>>} :
          pi' = [pi EXCEPT !.abort = abort, !.state = state] /\ Then(frames)
    <3>1. pi.state \in {"Begin", "Idle", "Waiting", "Success", "Failure"}
      BY DEF PiType
    <3>2. Table(pi.code) \in {"Begin", "Idle", "Waiting", "Success", "Failure"}
      BY PiParts DEF PiType
    <3>. QED
      BY <1>1, <3>1, <3>2 DEF ProcessReply
  <2>2. PICK state \in {"Begin", "Idle", "Waiting", "Success", "Failure"},
          frames \in {<<>>, <<PiFinished, Replied, Do("react")>>, <<Replied, Do("react")>>} :
          pi' = [pi EXCEPT !.abort = abort, !.state = state] /\ Then(frames)
    BY <2>1
  <2>3. pi' \in PiType
    BY <2>2 DEF PiType
  <2>4. Replied \in Frame
    BY FrameTypes DEF Replied, PiType
  <2>. QED
    BY <1>0, <1>1, <2>2, <2>3, <2>4, ThenType, FrameSeqs, PiFrames DEF ProcessReply
<1>2. CASE React
  <2>1. pi' \in PiType
    <3>1. CASE pi.cmd.verb \in DOMAIN Fallback
      <4>1. pi.cmd.id \in Nat
        BY DEF PiType, LineType, SentLines, NoLine, Line
      <4> DEFINE l == Line(Fallback[pi.cmd.verb], pi.cmd.id)
      <4>2. l \in SentLines
        BY <3>1, <4>1, PiParts
      <4> HIDE DEF l
      <4>3. <<l>> \o pi.pending \in Seq(SentLines)
        BY <4>2, ConcatProperties, SingleSeq DEF PiType
      <4>4. \/ pi' = [pi EXCEPT !.state = "Idle"] \/ pi' = pi
            \/ pi' = [pi EXCEPT !.extended = FALSE, !.pending = <<l>> \o pi.pending]
        BY <1>2 DEF React, l
      <4>. QED
        BY <4>3, <4>4 DEF PiType
    <3>2. CASE pi.cmd.verb \notin DOMAIN Fallback
      BY <1>2, <3>2 DEF React, PiType
    <3>. QED
      BY <3>1, <3>2
  <2>2. calls' \in Seq(Frame)
    <3>1. \/ Then(<<PiError("UnknownError"), Do("clearError"), StartNextCmdCall>>)
          \/ Then(<<StartNextCmdCall>>) \/ Then(<<>>) \/ Then(<<Do("failed")>>)
          \/ Then(<<PiError("UnknownError"), Do("failed")>>)
      BY <1>2 DEF React
    <3>. QED
      BY <1>0, <3>1, ThenType, FrameSeqs, PiFrames, FrameTypes
  <2>. QED
    BY <1>2, <2>1, <2>2 DEF React
<1>3. CASE ClearError
  <2>1. dtp' \in DtpType
    BY <1>3 DEF ClearError, DtpType
  <2>. QED
    BY <1>0, <1>3, <2>1, ThenType, FrameSeqs DEF ClearError
<1>4. CASE Failed
  <2>1. pi' \in PiType
    BY <1>4 DEF Failed, PiType
  <2>. QED
    BY <1>0, <1>4, <2>1, ThenType, FrameSeqs, PiFrames DEF Failed
<1>. QED
  BY <1>1, <1>2, <1>3, <1>4

LEMMA SendingTypes ==
  ASSUME Objects, StartNextCmd \/ SendCommands \/ PiConnectToHost
  PROVE  Objects'
<1> USE DEF Objects
<1>0. calls # <<>>
  BY DEF StartNextCmd, SendCommands, PiConnectToHost, In
<1>1. CASE StartNextCmd
  <2>1. CASE pi.waitConnect \/ pi.pending = <<>>
    <3>1. pi' \in PiType
      BY <1>1, <2>1, LineFacts DEF StartNextCmd, PiType
    <3>2. UNCHANGED <<dtp, net, lines>> /\ (Then(<<>>) \/ Then(<<PiFinished>>))
      BY <1>1, <2>1 DEF StartNextCmd
    <3>. QED
      BY <1>0, <3>1, <3>2, ThenType, FrameSeqs, PiFrames
  <2>2. CASE ~pi.waitConnect /\ pi.pending # <<>>
    <3> DEFINE line == Edited(Head(pi.pending))
    <3>1. line \in SentLines /\ line \in LineType /\ Tail(pi.pending) \in Seq(SentLines)
      <4>1. pi.pending \in Seq(SentLines)
        BY DEF PiType
      <4>2. Head(pi.pending) \in SentLines /\ Tail(pi.pending) \in Seq(SentLines)
        BY <2>2, <4>1, HeadTailProperties
      <4>. QED
        BY <4>2, PiParts DEF LineType
    <3>2. \/ pi' = [pi EXCEPT !.cmd = line] /\ UNCHANGED <<dtp, net>>
          \/ /\ pi' = [pi EXCEPT !.cmd = line, !.pending = Tail(@), !.state = "Waiting"]
             /\ dtp' = dtp \/ dtp' = SetupListener(dtp)
             /\ net' = Wrote(net, line)
      BY <1>1, <2>2 DEF StartNextCmd
    <3>3. Then(<<>>) /\ UNCHANGED lines
      BY <1>1, <2>2 DEF StartNextCmd
    <3> HIDE DEF line
    <3>4. pi' \in PiType
      BY <3>1, <3>2 DEF PiType
    <3>5. net' \in NetType /\ dtp' \in DtpType
      BY <3>1, <3>2, NetParts, DtpParts, ZenonT(40)
    <3>. QED
      BY <1>0, <3>3, <3>4, <3>5, ThenType, FrameSeqs
  <2>. QED
    BY <2>1, <2>2
<1>2. CASE SendCommands
  <2>1. Arg \in Seq(SentLines)
    <3>1. Head(calls) \in Frame /\ Head(calls)[1] = "sendCommands"
      BY <1>0, <1>2, Innermost DEF SendCommands, In
    <3>. QED
      BY <3>1, FrameArgs DEF Arg
  <2>2. pi' \in PiType
    BY <1>2, <2>1 DEF SendCommands, PiType
  <2>3. Then(<<>>) \/ Then(<<PiError("NotConnected")>>) \/ Then(<<StartNextCmdCall>>)
    BY <1>2 DEF SendCommands
  <2>. QED
    BY <1>0, <1>2, <2>2, <2>3, ThenType, FrameSeqs, PiFrames, FrameTypes DEF SendCommands
<1>3. CASE PiConnectToHost
  <2>1. net' \in NetType
    BY <1>3 DEF PiConnectToHost, NetType
  <2>. QED
    BY <1>0, <1>3, <2>1, ThenType, FrameSeqs DEF PiConnectToHost
<1>. QED
  BY <1>1, <1>2, <1>3

LEMMA ClearingTypes ==
  ASSUME Objects, PiClear \/ PiCleared \/ PiAbort \/ DtpConnectState \/ DtpConnectionClosed
  PROVE  Objects'
<1> USE DEF Objects
<1>0. calls # <<>>
  BY DEF PiClear, PiCleared, PiAbort, DtpConnectState, DtpConnectionClosed, In
<1>1. CASE PiClear
  <2>1. pi' \in PiType
    BY <1>1, NoCells DEF PiClear, PiType
  <2>. QED
    BY <1>0, <1>1, <2>1, ThenType, FrameSeqs, PiFrames DEF PiClear
<1>2. CASE PiCleared
  <2>1. pi' \in PiType
    BY <1>2, LineFacts DEF PiCleared, PiType
  <2>. QED
    BY <1>0, <1>2, <2>1, ThenType, FrameSeqs, PiFrames DEF PiCleared
<1>3. CASE PiAbort
  <2>1. pi' \in PiType
    <3>1. [pi EXCEPT !.pending = <<>>] \in PiType
      BY NoCells DEF PiType
    <3>2. [pi EXCEPT !.pending = <<>>, !.abort = "AbortStarted"] \in PiType
      BY NoCells DEF PiType
    <3>. QED
      BY <1>3, <3>1, <3>2 DEF PiAbort
  <2>2. net' \in NetType
    BY <1>3, NetParts, LineFacts DEF PiAbort
  <2>3. Then(<<>>) \/ Then(<<Do("abortConnection")>>)
    BY <1>3 DEF PiAbort
  <2>. QED
    BY <1>0, <1>3, <2>1, <2>2, <2>3, ThenType, FrameSeqs, PiFrames DEF PiAbort
<1>4. CASE DtpConnectState
  <2>1. pi' \in PiType
    BY <1>4 DEF DtpConnectState, PiType
  <2>2. \/ Then(<<>>) \/ Then(<<Do("processReply"), Do("processed"), Do("closed")>>)
        \/ Then(<<Do("closed")>>) \/ Then(<<StartNextCmdCall>>)
        \/ Then(<<PiError("ConnectionRefused"), StartNextCmdCall>>)
    BY <1>4 DEF DtpConnectState
  <2>. QED
    BY <1>0, <1>4, <2>1, <2>2, ThenType, FrameSeqs, PiFrames, FrameTypes DEF DtpConnectState
<1>5. CASE DtpConnectionClosed
  <2>1. pi' \in PiType
    BY <1>5 DEF DtpConnectionClosed, PiType
  <2>. QED
    BY <1>0, <1>5, <2>1, ThenType, FrameSeqs, PiFrames DEF DtpConnectionClosed
<1>. QED
  BY <1>1, <1>2, <1>3, <1>4, <1>5

LEMMA ControlTypes == ASSUME Objects, ControlCode PROVE Objects'
BY ReadingTypes, ReplyTypes, SendingTypes, ClearingTypes, TransferTypes DEF ControlCode

QueueTypes ==
  /\ ftp \in FtpType /\ Queued(ftp.pending, ftp.last)
  /\ ftp.timers <= ftp.last /\ ftp.last <= MaxCommands

\* What a step may do to the queue.
Unqueued == /\ ftp'.pending = ftp.pending /\ ftp'.last = ftp.last
            /\ ftp'.timers = ftp.timers /\ ftp' \in FtpType

LEMMA Unchanged ==
  ASSUME QueueTypes, UNCHANGED ftp
  PROVE  QueueTypes'
BY DEF QueueTypes, Queued

LEMMA UnqueuedTypes == ASSUME QueueTypes, Unqueued PROVE QueueTypes'
BY DEF QueueTypes, Unqueued, FtpType

LEMMA FirstType ==
  ASSUME ftp \in FtpType, ~Empty
  PROVE  First \in CommandType /\ First = Head(ftp.pending) /\ Len(ftp.pending) \in Nat \ {0}
<1>1. ftp.pending \in Seq(CommandType) /\ ftp.pending # <<>>
  BY DEF FtpType, Empty
<1>. QED
  BY <1>1, EmptySeq, ElementOfSeq DEF First

\* The queue without its first command, and with its first command only.
LEMMA QueueParts ==
  ASSUME QueueTypes, ~Empty
  PROVE  /\ Tail(ftp.pending) \in Seq(CommandType) /\ Queued(Tail(ftp.pending), ftp.last)
         /\ <<First>> \in Seq(CommandType) /\ Queued(<<First>>, ftp.last)
<1>1. ftp.pending \in Seq(CommandType) /\ ftp.pending # <<>> /\ First \in CommandType
      /\ Len(ftp.pending) \in Nat \ {0} /\ First = ftp.pending[1]
  BY FirstType DEF QueueTypes, FtpType, Empty, First
<1> DEFINE t == Tail(ftp.pending)
<1>2. /\ t \in Seq(CommandType) /\ Len(t) = Len(ftp.pending) - 1
      /\ \A i \in 1..Len(t) : t[i] = ftp.pending[i + 1]
  BY <1>1, HeadTailProperties
<1>3. /\ \A i \in 1..Len(ftp.pending) : ftp.pending[i].id \in 1..ftp.last
      /\ \A i, j \in 1..Len(ftp.pending) : i < j => ftp.pending[i].id < ftp.pending[j].id
  BY DEF QueueTypes, Queued
<1> HIDE DEF t
<1>4. Queued(t, ftp.last)
  <2>1. \A i \in 1..Len(t) : t[i].id \in 1..ftp.last
    <3> SUFFICES ASSUME NEW i \in 1..Len(t) PROVE t[i].id \in 1..ftp.last
      OBVIOUS
    <3>1. i + 1 \in 1..Len(ftp.pending)
      BY <1>1, <1>2
    <3>. QED
      BY <1>2, <1>3, <3>1
  <2>2. \A i, j \in 1..Len(t) : i < j => t[i].id < t[j].id
    <3> SUFFICES ASSUME NEW i \in 1..Len(t), NEW j \in 1..Len(t), i < j PROVE t[i].id < t[j].id
      OBVIOUS
    <3>1. i + 1 \in 1..Len(ftp.pending) /\ j + 1 \in 1..Len(ftp.pending) /\ i + 1 < j + 1
      BY <1>1, <1>2
    <3>2. t[i] = ftp.pending[i + 1] /\ t[j] = ftp.pending[j + 1]
      BY <1>2
    <3>. QED
      BY <1>3, <3>1, <3>2
  <2>. QED
    BY <2>1, <2>2 DEF Queued
<1>5. <<First>> \in Seq(CommandType) /\ Queued(<<First>>, ftp.last)
  <2>1. First.id \in 1..ftp.last
    BY <1>1, <1>3
  <2>. QED
    BY <1>1, <2>1, SingleSeq DEF Queued
<1>. QED
  BY <1>2, <1>4, <1>5 DEF t

LEMMA AddTypes ==
  ASSUME QueueTypes, NEW c \in Commands, ftp.last < MaxCommands, ftp' = Add(ftp, c)
  PROVE  QueueTypes'
<1> DEFINE new == [id |-> ftp.last + 1, command |-> c, mode |-> ftp.mode]
           timers == IF ftp.pending = <<>> THEN ftp.timers + 1 ELSE ftp.timers
           mode == IF c \in {"Active", "Passive"} THEN c ELSE ftp.mode
           q == Append(ftp.pending, new)
<1>1. new \in CommandType /\ new.id = ftp.last + 1 /\ timers \in Nat /\ timers <= ftp.last + 1
      /\ mode \in {"Active", "Passive"} /\ ftp.pending \in Seq(CommandType) /\ ftp.last \in Nat
  BY DEF QueueTypes, FtpType, CommandType
<1>2. ftp' = [ftp EXCEPT !.pending = q, !.last = ftp.last + 1, !.timers = timers, !.mode = mode]
  BY DEF Add
<1>3. Queued(ftp.pending, ftp.last) /\ ftp.last + 1 <= MaxCommands
  BY UserBounds DEF QueueTypes, FtpType
<1> HIDE DEF new, timers, mode
<1>4. /\ q \in Seq(CommandType) /\ Len(q) = Len(ftp.pending) + 1
      /\ \A i \in 1..Len(ftp.pending) : q[i] = ftp.pending[i]
      /\ q[Len(ftp.pending) + 1] = new
  BY <1>1, AppendProperties
<1> HIDE DEF q
<1>5. PICK n \in Nat : n = Len(ftp.pending)
  BY <1>1, LenProperties
<1>6. Queued(q, ftp.last + 1)
  <2>1. \A i \in 1..n : q[i].id \in 1..ftp.last
    BY <1>3, <1>4, <1>5 DEF Queued
  <2>2. \A i \in 1..Len(q) : q[i].id \in 1..(ftp.last + 1)
    BY <1>1, <1>4, <1>5, <2>1, SMTT(30)
  <2>3. \A i, j \in 1..Len(q) : i < j => q[i].id < q[j].id
    <3> SUFFICES ASSUME NEW i \in 1..Len(q), NEW j \in 1..Len(q), i < j PROVE q[i].id < q[j].id
      OBVIOUS
    <3>1. i \in 1..n
      BY <1>4, <1>5
    <3>2. CASE j \in 1..n
      BY <1>3, <1>4, <1>5, <3>1, <3>2 DEF Queued
    <3>3. CASE j = n + 1
      BY <1>1, <1>4, <1>5, <2>1, <3>1, <3>3, SMTT(30)
    <3>. QED
      BY <1>4, <1>5, <3>2, <3>3
  <2>. QED
    BY <2>2, <2>3 DEF Queued
<1>7. ftp' \in FtpType
  <2>1. ftp \in FtpType /\ ftp.last + 1 \in Nat
    BY <1>1 DEF QueueTypes
  <2> DEFINE last == ftp.last + 1
  <2> HIDE DEF last
  <2>2. last \in Nat /\ ftp' = [ftp EXCEPT !.pending = q, !.last = last, !.timers = timers, !.mode = mode]
    BY <1>2, <2>1 DEF last
  <2>. QED
    BY <1>1, <1>4, <2>1, <2>2 DEF FtpType
<1>8. ftp'.pending = q /\ ftp'.last = ftp.last + 1 /\ ftp'.timers = timers
  BY <1>2 DEF QueueTypes, FtpType
<1>. QED
  BY <1>1, <1>3, <1>6, <1>7, <1>8 DEF QueueTypes

LEMMA KeepFirstTypes ==
  ASSUME QueueTypes, ~Empty
  PROVE  KeepFirst(ftp) = [ftp EXCEPT !.pending = <<First>>] /\ KeepFirst(ftp) \in FtpType
<1>1. First = Head(ftp.pending) /\ <<First>> \in Seq(CommandType)
  BY FirstType, QueueParts DEF QueueTypes
<1>2. KeepFirst(ftp) = [ftp EXCEPT !.pending = <<First>>]
  BY <1>1 DEF KeepFirst, Empty
<1>. QED
  BY <1>1, <1>2 DEF QueueTypes, FtpType

-----------------------------------------------------------------------------

\* The steps of QFtp itself.
LEMMA LoadedType ==
  ASSUME NEW c \in CommandType, NEW d \in DtpType
  PROVE  Loaded(c, d) \in DtpType
<1>1. c.id \in Nat
  BY DEF CommandType
<1>2. SetData(d, c.id) \in DtpType /\ SetDevice(d, c.id, Whole(c.id)) \in DtpType
      /\ SetDevice(d, c.id, <<>>) \in DtpType
  BY <1>1, DtpParts, WholeType, NoCells
<1>. QED
  BY <1>2 DEF Loaded

LEMMA RunType ==
  ASSUME NEW c \in CommandType
  PROVE  Run(c) \in Seq(Frame)
<1>1. c.id \in Nat
  BY DEF CommandType
<1>2. Call("sendCommands", LinesOf(c)) \in Frame
  BY <1>1, LinesOfType, FrameTypes
<1>3. /\ PiFinished \in Frame /\ PiConnectState("HostLookup") \in Frame
      /\ Do("connectToHost") \in Frame /\ Signal("stateChanged", 0) \in Frame
  BY FrameTypes, PiFrames DEF States, Plain, Signals
<1>. QED
  BY <1>2, <1>3, FrameSeqs DEF Run

LEMMA TellType ==
  ASSUME NEW id \in Nat, NEW error \in BOOLEAN
  PROVE  Tell(id, error) \in Seq(Frame)
<1>1. /\ Signal("failed", id) \in Frame /\ Signal("finished", id) \in Frame
      /\ Call("removeFirst", error) \in Frame
  BY FrameTypes DEF Signals
<1>. QED
  BY <1>1, FrameSeqs DEF Tell

LEMMA ToldType ==
  ASSUME ftp \in FtpType, NEW id \in Nat
  PROVE  /\ Append(ftp.signals, Told("started", id)) \in Seq(ReportType)
         /\ Append(ftp.signals, Told("finished", id)) \in Seq(ReportType)
         /\ ftp.failed \cup {id} \in SUBSET Nat
<1>1. Told("started", id) \in ReportType /\ Told("finished", id) \in ReportType
  BY DEF Told, ReportType
<1>2. ftp.signals \in Seq(ReportType) /\ ftp.failed \in SUBSET Nat
  BY DEF FtpType
<1>. QED
  BY <1>1, <1>2, AppendProperties

LEMMA CodeTypes ==
  ASSUME Objects, QueueTypes, Code
  PROVE  Objects' /\ QueueTypes'
<1>. USE DEF Objects
<1>0. ftp \in FtpType
  BY DEF QueueTypes
<1>1. CASE ControlCode /\ UNCHANGED ftp
  BY <1>1, ControlTypes, Unchanged
<1>2. CASE StartNextCommand
  <2>0. calls # <<>>
    BY <1>2 DEF StartNextCommand, In
  <2>1. CASE Empty
    BY <1>2, <2>0, <2>1, ThenType, FrameSeqs, Unchanged DEF StartNextCommand
  <2>2. CASE ~Empty
    <3>1. First \in CommandType /\ First.id \in Nat
      BY <1>0, <2>2, FirstType DEF CommandType
    <3> DEFINE s == Append(ftp.signals, Told("started", First.id))
               state == IF First.command = "Close" THEN "Closing" ELSE ftp.state
    <3>2. s \in Seq(ReportType) /\ state \in States
      BY <1>0, <3>1, ToldType DEF FtpType, States
    <3>3. ftp' = [ftp EXCEPT !.signals = s, !.state = state]
      BY <1>2, <2>2 DEF StartNextCommand
    <3> HIDE DEF s, state
    <3>4. Unqueued
      BY <1>0, <3>2, <3>3 DEF Unqueued, FtpType
    <3>5. dtp' \in DtpType
      BY <1>2, <2>2, <3>1, LoadedType, DtpParts DEF StartNextCommand
    <3>6. calls' \in Seq(Frame)
      BY <1>2, <2>0, <2>2, <3>1, RunType, ThenType DEF StartNextCommand
    <3>. QED
      BY <1>2, <3>4, <3>5, <3>6, UnqueuedTypes DEF StartNextCommand
  <2>. QED
    BY <2>1, <2>2
<1>3. CASE QPiFinished
  <2>0. calls # <<>>
    BY <1>3 DEF QPiFinished, In
  <2>1. CASE Empty \/ (First.command = "Close" /\ ftp.state # "Unconnected")
    <3>1. Then(<<>>) /\ (UNCHANGED ftp \/ ftp' = [ftp EXCEPT !.closeWait = TRUE])
      BY <1>3, <2>1 DEF QPiFinished
    <3>2. Unqueued
      BY <1>0, <3>1 DEF Unqueued, FtpType
    <3>. QED
      BY <1>3, <2>0, <3>1, <3>2, ThenType, FrameSeqs, UnqueuedTypes DEF QPiFinished
  <2>2. CASE ~(Empty \/ (First.command = "Close" /\ ftp.state # "Unconnected"))
    <3>1. First.id \in Nat
      BY <1>0, <2>2, FirstType DEF CommandType
    <3> DEFINE s == Append(ftp.signals, Told("finished", First.id))
    <3>2. s \in Seq(ReportType)
      BY <1>0, <3>1, ToldType
    <3>3. ftp' = [ftp EXCEPT !.signals = s, !.failed = ftp.failed] /\ Then(Tell(First.id, FALSE))
      BY <1>3, <2>2 DEF QPiFinished, Finish
    <3> HIDE DEF s
    <3>4. Unqueued
      BY <1>0, <3>2, <3>3 DEF Unqueued, FtpType
    <3>5. calls' \in Seq(Frame)
      BY <2>0, <3>1, <3>3, TellType, ThenType
    <3>. QED
      BY <1>3, <3>4, <3>5, UnqueuedTypes DEF QPiFinished
  <2>. QED
    BY <2>1, <2>2
<1>4. CASE QPiError
  <2>0. calls # <<>>
    BY <1>4 DEF QPiError, In
  <2>1. Do("clearPendingCommands") \in Frame
    BY FrameTypes DEF Plain
  <2>2. \/ Then(<<>>)
        \/ ~Empty /\ Then(<<Do("clearPendingCommands"), Call("commandFailed", First.id)>>)
    BY <1>4 DEF QPiError
  <2>3. ~Empty => Call("commandFailed", First.id) \in Frame
    BY <1>0, FirstType, FrameTypes DEF CommandType
  <2>4. calls' \in Seq(Frame)
    BY <2>0, <2>1, <2>2, <2>3, FrameSeqs, ThenType
  <2>. QED
    BY <1>4, <2>4, Unchanged DEF QPiError
<1>5. CASE CommandFailed
  <2>0. calls # <<>>
    BY <1>5 DEF CommandFailed, In
  <2>1. Arg \in Nat
    BY <1>5, <2>0, Innermost, FrameArgs DEF CommandFailed, In, Arg
  <2> DEFINE s == Append(ftp.signals, Told("finished", Arg))
             failed == ftp.failed \cup {Arg}
  <2>2. s \in Seq(ReportType) /\ failed \in SUBSET Nat
    BY <1>0, <2>1, ToldType
  <2>3. ftp' = [KeepFirst(ftp) EXCEPT !.signals = s, !.failed = failed]
    <3>1. KeepFirst(ftp).signals = ftp.signals /\ KeepFirst(ftp).failed = ftp.failed
      BY <1>0 DEF KeepFirst, FtpType
    <3>. QED
      BY <1>5, <3>1 DEF CommandFailed
  <2>4. calls' \in Seq(Frame)
    BY <1>5, <2>0, <2>1, TellType, ThenType DEF CommandFailed
  <2> HIDE DEF s, failed
  <2>5. CASE Empty
    <3>1. KeepFirst(ftp) = ftp
      BY <1>0, <2>5 DEF KeepFirst, Empty, FtpType
    <3>2. Unqueued
      BY <1>0, <2>2, <2>3, <3>1 DEF Unqueued, FtpType
    <3>. QED
      BY <1>5, <2>4, <3>2, UnqueuedTypes DEF CommandFailed
  <2>6. CASE ~Empty
    <3>1. KeepFirst(ftp) = [ftp EXCEPT !.pending = <<First>>] /\ KeepFirst(ftp) \in FtpType
      BY <2>6, KeepFirstTypes
    <3>2. /\ ftp' \in FtpType /\ ftp'.pending = <<First>> /\ ftp'.last = ftp.last
          /\ ftp'.timers = ftp.timers
      BY <1>0, <2>2, <2>3, <3>1 DEF FtpType
    <3>. QED
      BY <1>5, <2>4, <2>6, <3>2, QueueParts DEF CommandFailed, QueueTypes
  <2>. QED
    BY <2>5, <2>6
<1>6. CASE RemoveFirstCommand
  <2>0. calls # <<>>
    BY <1>6 DEF RemoveFirstCommand, In
  <2>1. calls' \in Seq(Frame)
    <3>1. Signal("undone", 0) \in Frame /\ Signal("done", 0) \in Frame /\ Do("_q_startNextCommand") \in Frame
      BY FrameTypes DEF Signals, Plain
    <3>2. \/ Then(<<Signal("undone", 0)>>) \/ Then(<<Signal("done", 0)>>)
          \/ Then(<<Do("_q_startNextCommand")>>)
      BY <1>6 DEF RemoveFirstCommand
    <3>. QED
      BY <2>0, <3>1, <3>2, FrameSeqs, ThenType
  <2>2. ftp' = [ftp EXCEPT !.pending = Tail(@)]
    BY <1>6 DEF RemoveFirstCommand
  <2>3. CASE Empty
    <3>1. Tail(ftp.pending) = <<>>
      BY <2>3 DEF Empty
    <3>2. Unqueued
      BY <1>0, <2>2, <2>3, <3>1 DEF Unqueued, FtpType, Empty
    <3>. QED
      BY <1>6, <2>1, <3>2, UnqueuedTypes DEF RemoveFirstCommand
  <2>4. CASE ~Empty
    <3>1. Tail(ftp.pending) \in Seq(CommandType) /\ Queued(Tail(ftp.pending), ftp.last)
      BY <2>4, QueueParts
    <3>2. /\ ftp' \in FtpType /\ ftp'.pending = Tail(ftp.pending) /\ ftp'.last = ftp.last
          /\ ftp'.timers = ftp.timers
      BY <1>0, <2>2, <3>1 DEF FtpType
    <3>. QED
      BY <1>6, <2>1, <3>1, <3>2 DEF RemoveFirstCommand, QueueTypes
  <2>. QED
    BY <2>3, <2>4
<1>7. CASE QPiConnectState
  <2>0. calls # <<>>
    BY <1>7 DEF QPiConnectState, In
  <2>1. Arg \in States
    BY <1>7, <2>0, Innermost, FrameArgs DEF QPiConnectState, In, Arg
  <2>2. Unqueued
    BY <1>0, <1>7, <2>1 DEF QPiConnectState, Unqueued, FtpType
  <2>3. Signal("stateChanged", 0) \in Frame
    BY FrameTypes DEF Signals
  <2>4. <<Signal("stateChanged", 0)>> \o <<PiFinished>> \in Seq(Frame)
        /\ <<Signal("stateChanged", 0)>> \o <<>> \in Seq(Frame)
    BY <2>3, PiFrames, FrameSeqs, ConcatProperties
  <2>5. calls' \in Seq(Frame)
    BY <1>7, <2>0, <2>4, ThenType DEF QPiConnectState
  <2>. QED
    BY <1>7, <2>2, <2>5, UnqueuedTypes DEF QPiConnectState
<1>8. CASE QPiFtpReply
  <2>0. calls # <<>>
    BY <1>8 DEF QPiFtpReply, Special, In
  <2>1. calls' \in Seq(Frame)
    <3>1. /\ Do("dtpConnectToHost") \in Frame /\ PiConnectState("LoggedIn") \in Frame
          /\ Do("waitForConnection") \in Frame /\ Do("writeData") \in Frame
      BY FrameTypes DEF Plain, States
    <3>2. \/ Then(<<>>) \/ Then(<<Do("dtpConnectToHost")>>) \/ Then(<<PiConnectState("LoggedIn")>>)
          \/ Then(<<Do("waitForConnection"), Do("writeData")>>)
      BY <1>8 DEF QPiFtpReply, Special
    <3>. QED
      BY <2>0, <3>1, <3>2, FrameSeqs, ThenType
  <2>2. pi' \in PiType
    <3>1. pi.pending \in Seq(SentLines)
      BY DEF PiType
    <3>2. pi.pending # <<>> => Tail(pi.pending) \in Seq(SentLines)
      BY <3>1, HeadTailProperties
    <3> DEFINE p == IF pi.cmd.verb = "USER" /\ pi.pending # <<>> /\ Head(pi.pending).verb = "PASS"
                    THEN Tail(pi.pending) ELSE pi.pending
    <3>3. p \in Seq(SentLines)
      BY <3>1, <3>2
    <3>4. pi' = pi \/ pi' = [pi EXCEPT !.waitConnect = TRUE] \/ pi' = [pi EXCEPT !.pending = p]
      BY <1>8 DEF QPiFtpReply, Special
    <3> HIDE DEF p
    <3>. QED
      BY <3>3, <3>4 DEF PiType
  <2>. QED
    BY <1>8, <2>1, <2>2, Unchanged DEF QPiFtpReply, Special
<1>. QED
  BY <1>1, <1>2, <1>3, <1>4, <1>5, <1>6, <1>7, <1>8 DEF Code

LEMMA CodesType ==
  /\ \A v \in Verbs : \A code \in Replies[v] : code \in Nat
  /\ \A v \in Transfers : \A code \in Finals[v] : code \in Nat
<1>1. \A v \in Verbs : Replies[v] \in SUBSET (100..559)
  BY RepliesAssumption
<1>2. \A v \in Transfers : Finals[v] \in SUBSET (200..559)
  BY RepliesAssumption
<1>3. \A code \in 100..559 : code \in Nat
  OBVIOUS
<1>4. \A code \in 200..559 : code \in Nat
  OBVIOUS
<1>. QED
  BY <1>1, <1>2, <1>3, <1>4, SMTT(30)

LEMMA ServerTypes ==
  ASSUME net \in NetType, Server
  PROVE  net' \in NetType
<1>1. CASE ServeLine
  <2>1. net.up # <<>> /\ net.up \in Seq(SentLines)
    BY <1>1 DEF ServeLine, NetType
  <2> DEFINE line == Head(net.up)
  <2>2. line \in SentLines /\ Tail(net.up) \in Seq(SentLines)
    BY <2>1, HeadTailProperties
  <2>3. PICK code \in Replies[line.verb] : AnswerLine(line, code) \/ BeginTransfer(line, code)
    BY <1>1 DEF ServeLine
  <2>4. code \in Nat /\ line \in LineType /\ line.id \in Nat
    BY <2>2, CodesType DEF SentLines, LineType
  <2> HIDE DEF line
  <2> DEFINE down == net.down \o Answer(code, line)
  <2>5. down \in Seq(RowType)
    BY <2>4, AnswerType, ConcatProperties DEF NetType
  <2> DEFINE up == Tail(net.up)
  <2>6. CASE AnswerLine(line, code)
    <3> DEFINE link == CASE code \in {227, 229} -> "offered"
                  [] line.verb \in {"PORT", "EPRT"} /\ Class(code) = 2 -> "invited"
                  [] OTHER -> net.link
               bye == net.bye \/ line.verb = "QUIT"
    <3>1. bye \in BOOLEAN
      OBVIOUS
    <3>2. link \in {"none", "offered", "invited", "called", "open"}
      BY DEF NetType
    <3>3. net' = [net EXCEPT !.up = up, !.down = down, !.link = link, !.bye = bye]
      BY <2>6 DEF AnswerLine
    <3> HIDE DEF up, down, link, bye
    <3>. QED
      BY <2>2, <2>5, <3>1, <3>2, <3>3 DEF NetType, up
  <2>7. CASE BeginTransfer(line, code)
    <3> DEFINE transfer == IF Class(code) = 1 THEN line ELSE NoLine
               link == IF Class(code) = 1 /\ net.link = "invited" THEN "called" ELSE net.link
               left == IF line.verb = "STOR" THEN <<>> ELSE Whole(line.id)
    <3>1. transfer \in Moved
      BY <2>2, <2>7, LineFacts DEF BeginTransfer, Moved, SentLines
    <3>2. link \in {"none", "offered", "invited", "called", "open"}
      BY DEF NetType
    <3>3. left \in Seq(Nat)
      BY <2>4, WholeType, NoCells
    <3>4. net' = [net EXCEPT !.up = up, !.down = down, !.transfer = transfer, !.link = link,
                             !.left = left, !.stored = <<>>, !.sent = FALSE]
      BY <2>7 DEF BeginTransfer
    <3> HIDE DEF up, down, link, transfer, left
    <3>. QED
      BY <2>2, <2>5, <3>1, <3>2, <3>3, <3>4, NoCells DEF NetType, up
  <2>. QED
    BY <2>3, <2>6, <2>7
<1>2. CASE SendCell
  <2>1. net.left \in Seq(Nat) /\ net.left # <<>> /\ net.data \in Seq(Nat)
    BY <1>2 DEF SendCell, NetType
  <2>2. Append(net.data, Head(net.left)) \in Seq(Nat) /\ Tail(net.left) \in Seq(Nat)
    BY <2>1, HeadTailProperties, AppendProperties
  <2>. QED
    BY <1>2, <2>2 DEF SendCell, NetType
<1>3. CASE SendText
  <2>1. Append(net.data, NoSuchFile) \in Seq(Nat)
    BY AppendProperties DEF NetType, NoSuchFile
  <2>. QED
    BY <1>3, <2>1, NoCells DEF SendText, NetType
<1>4. CASE EndTransfer
  <2>1. net.transfer \in LineType /\ net.transfer.verb \in Transfers /\ Reached \in BOOLEAN
    BY <1>4 DEF EndTransfer, Busy, NetType, Moved, LineType, SentLines, Verbs, Reached
  <2>2. PICK code \in Finals[net.transfer.verb] :
          net' = [net EXCEPT !.down = @ \o Answer(code, net.transfer), !.transfer = NoLine,
                             !.eof = Reached, !.left = <<>>]
    BY <1>4 DEF EndTransfer
  <2>3. code \in Nat
    BY <2>1, CodesType
  <2> DEFINE down == net.down \o Answer(code, net.transfer)
  <2>4. down \in Seq(RowType)
    BY <2>1, <2>3, AnswerType, ConcatProperties DEF NetType
  <2> HIDE DEF down
  <2>5. net' = [net EXCEPT !.down = down, !.transfer = NoLine, !.eof = Reached, !.left = <<>>]
    BY <2>2 DEF down
  <2>. QED
    BY <2>1, <2>4, <2>5, NoCells, LineFacts DEF NetType
<1>5. CASE ServeAbort
  <2>1. /\ net.up # <<>> /\ net.up \in Seq(SentLines) /\ net.down \in Seq(RowType)
        /\ net.transfer \in LineType /\ Reached \in BOOLEAN
    BY <1>5 DEF ServeAbort, NetType, Moved, LineType, SentLines, Verbs, Reached
  <2>2. Tail(net.up) \in Seq(SentLines)
    BY <2>1, HeadTailProperties
  <2> DEFINE down == net.down \o Answer(426, net.transfer) \o Answer(226, Abor)
  <2>3. Answer(426, net.transfer) \in Seq(RowType) /\ Answer(226, Abor) \in Seq(RowType)
    <3>1. 426 \in Nat /\ 226 \in Nat /\ Abor \in LineType
      BY LineFacts DEF LineType
    <3>. QED
      BY <2>1, <3>1, AnswerType
  <2>4. down \in Seq(RowType)
    BY <2>1, <2>3, ConcatProperties
  <2>5. net' = [net EXCEPT !.up = Tail(@), !.transfer = NoLine, !.left = <<>>, !.eof = Reached,
                        !.down = down]
    BY <1>5 DEF ServeAbort
  <2> HIDE DEF down
  <2>. QED
    BY <2>1, <2>2, <2>4, <2>5, NoCells, LineFacts DEF NetType
<1>6. CASE GiveUp
  <2>1. Reached \in BOOLEAN
    BY DEF Reached
  <2>. QED
    BY <1>6, <2>1, NoCells, LineFacts DEF GiveUp, NetType
<1>. QED
  BY <1>1, <1>2, <1>3, <1>4, <1>5, <1>6 DEF Server

LEMMA EventType ==
  ASSUME NEW next \in Seq(Frame), Event(next)
  PROVE  calls' \in Seq(Frame)
BY DEF Event

LEMMA TransferEventTypes ==
  ASSUME Objects, TransferEvents, UNCHANGED lines
  PROVE  Objects'
<1> USE DEF Objects
<1>1. /\ Disconnected \in Seq(Frame) /\ <<>> \in Seq(Frame) /\ <<Do("socketReadyRead")>> \in Seq(Frame)
      /\ <<DtpState("CsConnected")>> \in Seq(Frame) /\ <<DtpState("CsConnectionRefused")>> \in Seq(Frame)
      /\ <<Do("socketBytesWritten")>> \in Seq(Frame)
  BY FrameSeqs, FrameTypes DEF Disconnected, Plain
<1>2. <<Do("socketBytesWritten")>> \o Disconnected \in Seq(Frame)
  BY <1>1, ConcatProperties
<1>3. CASE SocketConnected
  <2>1. dtp' \in DtpType /\ net' \in NetType
    BY <1>3 DEF SocketConnected, DtpType, NetType
  <2>. QED
    BY <1>1, <1>3, <2>1, EventType DEF SocketConnected
<1>4. CASE SocketError
  <2>1. dtp' \in DtpType /\ net' \in NetType
    BY <1>4 DEF SocketError, DtpType, NetType
  <2>. QED
    BY <1>1, <1>4, <2>1, EventType DEF SocketError
<1>5. CASE SetupSocket
  <2>1. dtp' \in DtpType
    BY <1>5, DtpParts DEF SetupSocket
  <2>2. net' \in NetType
    BY <1>5 DEF SetupSocket, NetType
  <2>. QED
    BY <1>1, <1>5, <2>1, <2>2, EventType DEF SetupSocket
<1>6. CASE DataArrives
  <2>1. dtp.inbox \o net.data \in Seq(Nat)
    BY ConcatProperties DEF DtpType, NetType
  <2>2. dtp' \in DtpType
    BY <1>6, <2>1 DEF DataArrives, DtpType
  <2>3. net' \in NetType
    BY <1>6, NetParts DEF DataArrives
  <2>. QED
    BY <1>1, <1>6, <2>2, <2>3, EventType DEF DataArrives
<1>7. CASE DataEnds
  <2>1. dtp' \in DtpType
    BY <1>7, NoCells DEF DataEnds, DtpType
  <2>2. net' \in NetType
    BY <1>7, NetParts DEF DataEnds
  <2>. QED
    BY <1>1, <1>7, <2>1, <2>2, EventType DEF DataEnds
<1>8. CASE DataSent
  <2>1. net.stored \o dtp.out \in Seq(Nat)
    BY ConcatProperties DEF DtpType, NetType
  <2>2. Hungup(net).stored = net.stored
    BY DEF Hungup, NetType
  <2> DEFINE stored == net.stored \o dtp.out
             n == Hungup(net)
  <2>3. \/ net' = [n EXCEPT !.stored = stored, !.sent = TRUE] \/ net' = [net EXCEPT !.stored = stored]
    BY <1>8, <2>2 DEF DataSent
  <2>4. dtp' \in DtpType
    <3>1. [dtp EXCEPT !.out = <<>>] \in DtpType
      BY NoCells DEF DtpType
    <3>. QED
      BY <1>8, <3>1, DtpParts DEF DataSent
  <2>5. n \in NetType /\ stored \in Seq(Nat)
    BY <2>1, NetParts
  <2>6. calls' \in Seq(Frame)
    BY <1>1, <1>2, <1>8, EventType DEF DataSent
  <2> HIDE DEF stored, n
  <2>7. net' \in NetType
    BY <2>3, <2>5 DEF NetType
  <2>. QED
    BY <1>8, <2>4, <2>6, <2>7 DEF DataSent
<1>. QED
  BY <1>3, <1>4, <1>5, <1>6, <1>7, <1>8 DEF TransferEvents

LEMMA ControlEventTypes ==
  ASSUME Objects, ControlEvents
  PROVE  Objects'
<1> USE DEF Objects
<1>1. /\ PiConnectState("Connecting") \in Frame /\ PiConnectState("Connected") \in Frame
      /\ PiConnectState("Unconnected") \in Frame
  BY FrameTypes DEF States
<1>2. CASE HostFound
  <2>1. net' \in NetType
    BY <1>2 DEF HostFound, NetType
  <2>. QED
    BY <1>1, <1>2, <2>1, FrameSeqs, EventType DEF HostFound
<1>3. CASE PiConnected
  <2>1. <<Greeting>> \in Seq(SentLines)
    BY LineFacts, SingleSeq
  <2>2. net' \in NetType
    BY <1>3, <2>1 DEF PiConnected, NetType
  <2>3. pi' \in PiType
    BY <1>3 DEF PiConnected, PiType
  <2>. QED
    BY <1>1, <1>3, <2>2, <2>3, FrameSeqs, EventType DEF PiConnected
<1>4. CASE ControlError
  <2>1. net' \in NetType
    BY <1>4 DEF ControlError, NetType
  <2>. QED
    BY <1>1, <1>4, <2>1, FrameSeqs, FrameTypes, EventType DEF ControlError
<1>5. CASE RowsArrive
  <2>0. net.down \in Seq(RowType) /\ Len(net.down) \in Nat
    BY LenProperties DEF NetType
  <2>1. PICK n \in 1..Len(net.down) :
          /\ lines' = lines \o SubSeq(net.down, 1, n)
          /\ net' = [net EXCEPT !.down = SubSeq(@, n + 1, Len(@))]
    BY <1>5 DEF RowsArrive
  <2>2. SubSeq(net.down, 1, n) \in Seq(RowType) /\ SubSeq(net.down, n + 1, Len(net.down)) \in Seq(RowType)
    <3>1. \A i \in 1..n : net.down[i] \in RowType
      BY <2>0, ElementOfSeq
    <3>2. \A i \in (n + 1)..Len(net.down) : net.down[i] \in RowType
      BY <2>0, ElementOfSeq
    <3>. QED
      BY <2>0, <3>1, <3>2, SubSeqProperties
  <2>3. lines' \in Seq(RowType)
    BY <2>1, <2>2, ConcatProperties
  <2>4. net' \in NetType
    BY <2>1, <2>2 DEF NetType
  <2>5. calls' \in Seq(Frame)
    BY <1>5, PiFrames, FrameSeqs, EventType DEF RowsArrive
  <2>. QED
    BY <1>5, <2>3, <2>4, <2>5 DEF RowsArrive
<1>6. CASE ConnectionClosed
  <2>1. net' \in NetType
    BY <1>6, NoCells DEF ConnectionClosed, NetType
  <2>. QED
    BY <1>1, <1>6, <2>1, NoCells, FrameSeqs, EventType DEF ConnectionClosed
<1>7. CASE TransferEvents /\ UNCHANGED lines
  BY <1>7, TransferEventTypes
<1>. QED
  BY <1>2, <1>3, <1>4, <1>5, <1>6, <1>7 DEF ControlEvents

LEMMA LibraryTypes ==
  ASSUME TypeInv, Library, UNCHANGED aborts
  PROVE  TypeInv'
<1>0. Objects /\ QueueTypes
  BY DEF TypeInv, Objects, QueueTypes
<1>1. CASE Code
  BY <1>0, <1>1, CodeTypes DEF TypeInv, Objects, QueueTypes
<1>2. CASE ControlEvents /\ UNCHANGED ftp
  BY <1>0, <1>2, ControlEventTypes, Unchanged DEF TypeInv, Objects, QueueTypes
<1>3. CASE Timer
  <2>1. <<Do("_q_startNextCommand")>> \in Seq(Frame)
    BY FrameTypes, FrameSeqs DEF Plain
  <2>2. calls' \in Seq(Frame)
    BY <1>3, <2>1, EventType DEF Timer
  <2>3. ftp.timers \in Nat /\ ftp.timers > 0 /\ ftp' = [ftp EXCEPT !.timers = @ - 1] /\ ftp \in FtpType
    BY <1>0, <1>3 DEF Timer, QueueTypes, FtpType
  <2> DEFINE timers == ftp.timers - 1
  <2>4. timers \in Nat /\ timers <= ftp.timers /\ ftp' = [ftp EXCEPT !.timers = timers]
    BY <2>3
  <2> HIDE DEF timers
  <2>5. /\ ftp' \in FtpType /\ ftp'.pending = ftp.pending /\ ftp'.last = ftp.last
        /\ ftp'.timers = timers
    BY <2>3, <2>4 DEF FtpType
  <2>6. timers <= ftp.last
    BY <1>0, <2>3, <2>4 DEF QueueTypes, FtpType
  <2>. QED
    BY <1>0, <1>3, <2>2, <2>5, <2>6 DEF TypeInv, Objects, QueueTypes, Timer
<1>4. CASE World
  <2>1. net' \in NetType
    BY <1>0, <1>4, ServerTypes DEF World, Objects
  <2>. QED
    BY <1>4, <2>1, Unchanged, <1>0 DEF World, TypeInv, Objects, QueueTypes
<1>. QED
  BY <1>1, <1>2, <1>3, <1>4 DEF Library, Events

LEMMA AskTypes ==
  ASSUME TypeInv, NEW c \in Commands, Ask(c), calls' \in Seq(Frame)
  PROVE  TypeInv'
<1>1. QueueTypes'
  BY AddTypes DEF Ask, TypeInv, QueueTypes
<1>2. pi' \in PiType
  BY DEF Ask, Extended, TypeInv, PiType
<1>. QED
  BY <1>1, <1>2 DEF Ask, TypeInv, QueueTypes

LEMMA UserTypes ==
  ASSUME TypeInv, [UserNext]_userVars
  PROVE  TypeInv'
<1>0. calls \in Seq(Frame) /\ QueueTypes /\ ftp \in FtpType
  BY DEF TypeInv, QueueTypes
<1>1. CASE AskLater
  BY <1>0, <1>1, AskTypes DEF AskLater
<1>2. CASE AskInSlot
  <2>1. calls' \in Seq(Frame)
    BY <1>0, <1>2, ThenType, FrameSeqs DEF AskInSlot, Returned, In
  <2>. QED
    BY <1>2, <2>1, AskTypes DEF AskInSlot
<1>3. CASE Return
  <2>1. calls' \in Seq(Frame)
    BY <1>0, <1>3, ThenType, FrameSeqs DEF Return, In
  <2>. QED
    BY <1>0, <1>3, <2>1, Unchanged DEF Return, TypeInv, QueueTypes
<1>4. CASE AskAbort
  <2>1. aborts' \in Nat
    BY <1>4 DEF AskAbort, TypeInv
  <2>2. CASE Empty
    BY <1>0, <1>4, <2>1, <2>2, Unchanged DEF AskAbort, Abort, TypeInv, QueueTypes
  <2>3. CASE ~Empty
    <3>1. ftp' = [ftp EXCEPT !.pending = <<First>>] /\ ftp' \in FtpType
      BY <1>0, <1>4, <2>3, KeepFirstTypes DEF AskAbort, Abort
    <3>2. ftp'.pending = <<First>> /\ ftp'.last = ftp.last /\ ftp'.timers = ftp.timers
      BY <1>0, <3>1 DEF FtpType
    <3>3. Queued(<<First>>, ftp.last)
      BY <1>0, <2>3, QueueParts
    <3>4. calls' \in Seq(Frame)
      <4>1. <<Do("abort")>> \in Seq(Frame)
        BY FrameTypes, FrameSeqs DEF Plain
      <4>2. calls' = <<Do("abort")>> \o calls
        BY <1>4, <2>3 DEF AskAbort, Abort
      <4>. QED
        BY <1>0, <4>1, <4>2, ConcatProperties
    <3>. QED
      BY <1>0, <1>4, <2>1, <3>1, <3>2, <3>3, <3>4 DEF AskAbort, Abort, TypeInv, QueueTypes
  <2>. QED
    BY <2>2, <2>3
<1>5. CASE Library /\ UNCHANGED aborts
  BY <1>5, LibraryTypes
<1>6. CASE UNCHANGED userVars
  BY <1>0, <1>6, Unchanged DEF userVars, vars, TypeInv, QueueTypes
<1>. QED
  BY <1>1, <1>2, <1>3, <1>4, <1>5, <1>6 DEF UserNext

LEMMA InitTypes == ASSUME UserInit PROVE TypeInv
<1>1. net \in NetType
  BY NoCells, LineFacts DEF UserInit, LibraryInit, NetInit, Closed, NetType
<1>2. dtp \in DtpType
  BY NoCells DEF UserInit, LibraryInit, DtpInit, DtpType
<1>3. pi \in PiType /\ lines \in Seq(RowType)
  BY NoCells, LineFacts DEF UserInit, LibraryInit, PiInit, PiType, LineType
<1>4. /\ ftp \in FtpType /\ ftp.pending = <<>> /\ ftp.last = 0 /\ ftp.timers = 0
  <2>1. <<>> \in Seq(CommandType) /\ <<>> \in Seq(ReportType)
    BY EmptySeq
  <2>. QED
    BY <2>1 DEF UserInit, LibraryInit, FtpInit, FtpType, States
<1>5. Queued(<<>>, 0)
  <2>1. 1..Len(<<>>) = {}
    BY EmptySeq
  <2>. QED
    BY <2>1 DEF Queued
<1>. QED
  BY <1>1, <1>2, <1>3, <1>4, <1>5, FrameSeqs, UserBounds DEF UserInit, LibraryInit, TypeInv

LEMMA AlwaysTypes == UserSpec => []TypeInv
<1>1. UserInit => TypeInv
  BY InitTypes
<1>2. TypeInv /\ [UserNext]_userVars => TypeInv'
  BY UserTypes
<1>. QED
  BY <1>1, <1>2, PTL DEF UserSpec

\* Whatever the user, the server and the network do the fields keep their
\* types, no more timers run than commands were added, and the identifiers of
\* the queue are in the order they were given, each once.
THEOREM FtpTypes == UserSpec => []FtpTypeOK
<1>1. ASSUME TypeInv PROVE FtpTypeOK
  <2>1. /\ dtp.socket \in {"none", "connecting", "connected", "closing", "unconnected"}
        /\ dtp.data.kind \in {"none", "bytes", "device"}
    BY <1>1 DEF TypeInv, DtpType
  <2>2. /\ pi.state \in {"Begin", "Idle", "Waiting", "Success", "Failure"}
        /\ pi.abort \in {"None", "AbortStarted", "WaitForAbortToFinish"}
    BY <1>1 DEF TypeInv, PiType
  <2>3. pi.cmd.verb \in Verbs \cup {"none"}
    BY <1>1 DEF TypeInv, PiType, LineType, SentLines, NoLine, Line
  <2>4. /\ ftp.state \in {"Unconnected", "HostLookup", "Connecting", "Connected", "LoggedIn", "Closing"}
        /\ ftp.timers \in 0..MaxCommands
    BY <1>1, UserBounds DEF TypeInv, FtpType, States
  <2>5. DOMAIN Ids = 1..Len(ftp.pending)
    BY <1>1, LenProperties DEF TypeInv, FtpType, Ids
  <2>6. Increasing(Ids) /\ \A i \in DOMAIN Ids : Ids[i] \in 1..ftp.last
    BY <1>1, <2>5 DEF TypeInv, Queued, Increasing, Ids
  <2>. QED
    BY <2>1, <2>2, <2>3, <2>4, <2>6 DEF FtpTypeOK
<1>. QED
  BY <1>1, AlwaysTypes, PTL

-----------------------------------------------------------------------------
(* The command in front of the queue, and what was last said of it.        *)

Said(what) == ~Empty /\ ftp.signals # <<>> /\ ftp.signals[Len(ftp.signals)] = Told(what, First.id)
Running == Said("started")
Over    == Said("finished")
Fresh   == ~Empty /\ ~Running /\ ~Over
Connects == Running /\ First.command = "ConnectToHost"
Looking == net.control \in {"lookup", "connecting"}
\* Since PiInit: no connection, no greeting and no data connection.
Virgin == /\ pi.state = "Begin" /\ ~Online /\ dtp.socket = "none" /\ ~dtp.listening
          /\ ~pi.waitClose /\ ~pi.text
Rested == /\ pi.pending = <<>> /\ pi.cmd = NoLine /\ dtp.socket # "connecting"
          /\ (pi.state = "Idle" \/ Virgin)
Settled == ~Looking /\ ~ftp.closeWait
Halted == pi.state \in {"Idle", "Failure"} \/ Virgin

-----------------------------------------------------------------------------
(* The stack of calls.                                                     *)

Wait(q)  == {q[i] : i \in 2..Len(q)}
Names(w) == {f[1] : f \in w}
Waiting == Wait(calls)
Tags == IF Quiet THEN {} ELSE {Head(calls)[1]} \cup Names(Waiting)
Has(name) == name \in Tags

\* What may wait for a call to return.
Reading  == {"closed", "readLines", "written"}
Replying == Reading \cup {"processed"}
Reacting == Replying \cup {"replied", "react"}
Starting == Reacting \cup {"failed", "clearError", "startNextCmd"}
Drained  == Starting \cup {"commandFailed", "cleared", "dtpConnectToHost", "dtpConnectState"}
Beneath(name) ==
  CASE name \in {"socketConnectionClosed", "dtpConnectState", "closed", "readyRead", "readLines"} -> Drained
    [] name = "slot" -> {"removeFirst", "sendCommands", "_q_piFinished", "connectToHost", "_q_piError"} \cup Starting
    [] name = "_q_piConnectState" -> {"connectToHost", "_q_piError"} \cup Reacting
    [] name = "abortConnection" -> {"cleared", "commandFailed"} \cup Starting
    [] name \in {"clearPendingCommands", "cleared"} -> {"commandFailed"} \cup Starting
    [] name \in {"_q_piError", "commandFailed", "removeFirst"} -> Starting
    [] name = "clearError" -> {"startNextCmd"} \cup Replying
    [] name \in {"_q_piFinished", "_q_startNextCommand", "connectToHost", "sendCommands", "startNextCmd"} -> Reacting
    [] name \in {"dtpConnectToHost", "replied"} -> {"react"} \cup Replying
    [] name = "waitForConnection" -> {"react", "writeData"} \cup Replying
    [] name \in {"writeData", "written"} -> {"react", "socketConnectionClosed"} \cup Replying
    [] name \in {"react", "failed", "processReply"} -> Replying
    [] name = "processed" -> Reading
    [] name = "socketBytesWritten" -> {"socketConnectionClosed"}
    [] OTHER -> {}
\* The rest of the two loops that read rows waits for a reply to be processed,
\* the rest of processReply for the reply to be told.
Attached == {"processed", "replied"}
Adjacent(a, b) == /\ a[1] = "processed" <=> b[1] \in {"closed", "readLines"}
                  /\ a[1] = "replied" => b[1] = "react"
Stacked(q) == /\ \A i, j \in 1..Len(q) : i < j => q[j][1] \in Beneath(q[i][1])
              /\ \A i \in 2..Len(q) : Adjacent(q[i - 1], q[i])
              /\ q # <<>> => q[Len(q)][1] \notin Attached

-----------------------------------------------------------------------------
(* The rows and the answer that is being read.                             *)

Silent  == net.up = <<>> /\ net.transfer = NoLine /\ net.down = <<>> /\ lines = <<>>
Current == IF pi.state = "Begin" THEN Greeting ELSE pi.cmd
Stream  == lines \o net.down
Codes(line) == Replies[line.verb] \cup (IF line.verb \in Transfers THEN Finals[line.verb] ELSE {})
Prelim(code) == Class(code) = 1
\* The answer that ends a transfer waits for the data connection.
Ended == /\ pi.state = "Waiting" /\ pi.text /\ pi.to = pi.cmd /\ pi.code \in {226, 250}
         /\ Silent /\ ~Has("processed")

Pipe ==
  /\ ~Online => Silent
  /\ net.bye => net.transfer = NoLine
  /\ pi.state \notin {"Waiting", "Begin"} => Silent
  /\ pi.state = "Waiting" => pi.cmd.verb \in Verbs
  /\ net.up # <<>> => net.up = <<Current>> /\ net.transfer = NoLine /\ Stream = <<>>
  /\ net.transfer # NoLine => /\ net.transfer = Current /\ Current.verb \in Transfers
                              /\ \A k \in 1..Len(Stream) : Prelim(Stream[k].code)
  /\ \A k \in 1..Len(Stream) : Stream[k].to = Current /\ Stream[k].code \in Codes(Current)
  /\ \A i, j \in 1..Len(Stream) :
       i < j /\ Stream[i].last => Prelim(Stream[i].code) /\ ~Prelim(Stream[j].code)
Text ==
  /\ pi.text /\ ~Has("processed") =>
       /\ pi.state \in {"Waiting", "Begin"} /\ pi.to = Current /\ pi.code \in Codes(Current)
       /\ net.up = <<>>
  /\ pi.waitClose => Ended \/ (DtpClosed /\ Has("closed") /\ lines = <<>>)
  /\ Has("processed") =>
       /\ pi.text
       /\ lines # <<>> => Prelim(pi.code) /\ \A k \in 1..Len(lines) : ~Prelim(lines[k].code)
  /\ lines # <<>> => pi.waitClose \/ Has("processed") \/ In("readyRead") \/ In("readLines")
                    \/ In("closed")

-----------------------------------------------------------------------------
(* What QFtp and its two objects know of each other.                       *)

Harmless == {"socketReadyRead", "socketConnectionClosed", "dtpConnectState", "closed", "readyRead",
             "readLines", "slot", "socketBytesWritten", "writeData", "written", "_q_piConnectState"}
Modes ==
  /\ ~Running => Rested /\ Settled
  /\ Connects => /\ pi.pending = <<>> /\ pi.cmd = NoLine /\ dtp.socket # "connecting"
                 /\ pi.state \in {"Idle", "Begin"} /\ ~ftp.closeWait
  /\ Looking => Connects /\ (pi.state = "Idle" \/ Virgin)
  /\ pi.state = "Begin" => Virgin \/ (Connects /\ ~Looking)
  /\ ftp.closeWait => Running /\ First.command = "Close" /\ Rested /\ ftp.state # "Unconnected"
  /\ dtp.socket = "connecting" => pi.waitConnect /\ Running /\ pi.state \in {"Success", "Idle"}
  /\ pi.state = "Success" => Has("react")
  /\ pi.state = "Failure" => Has("react") \/ Has("failed")
  /\ ftp.timers \in {0, 1}
  /\ ftp.timers = 1 => Fresh /\ ~pi.waitClose /\ Tags \subseteq Harmless
  /\ Fresh => ftp.timers = 1 \/ In("_q_startNextCommand")
  /\ Over => Has("removeFirst")
  /\ ftp.state \in {"Connected", "LoggedIn"} => Online \/ In("_q_piConnectState")
NoAbort == pi.abort = "None" /\ ~Has("abort")

-----------------------------------------------------------------------------
(* What holds when a call that waits goes on, and when it is innermost.    *)

Under(f) ==
  /\ f[1] = "removeFirst" => Over /\ (f[2] => Len(ftp.pending) = 1)
  /\ f[1] = "sendCommands" => /\ Running /\ First.command \notin Immediate \cup {"ConnectToHost"}
                              /\ Rested /\ ~ftp.closeWait /\ f[2] = LinesOf(First)
  /\ f[1] = "_q_piFinished" => Running /\ Rested /\ Settled /\ First.command = "Close"
  /\ f[1] = "connectToHost" => Connects /\ Rested
  /\ f[1] = "_q_piError" => Connects /\ ~Looking /\ (pi.state = "Idle" \/ Virgin)
  /\ f[1] = "commandFailed" => Running /\ f[2] = First.id /\ Settled /\ Halted
  /\ f[1] = "cleared" => pi.pending = <<>> /\ Settled /\ Halted
  /\ f[1] = "failed" => Settled /\ pi.state \in {"Failure", "Idle"}
  /\ f[1] \in {"clearError", "startNextCmd"} => Settled /\ pi.state = "Idle"
  /\ f[1] = "replied" => Class(f[2]) = 2 /\ f[2] \notin {227, 229, 230}
  /\ f[1] = "react" => Settled
  /\ f[1] = "dtpConnectToHost" => pi.state = "Success" /\ pi.waitConnect /\ Running /\ ~pi.waitClose
  /\ f[1] = "dtpConnectState" => f[2] = "CsClosed" /\ DtpClosed /\ ~pi.waitClose /\ lines = <<>>
  /\ f[1] = "socketConnectionClosed" => DtpClosed /\ (pi.waitClose => Ended)
  /\ f[1] = "writeData" => (pi.waitClose => Ended)

OnReply ==
  /\ pi.state \in {"Waiting", "Begin"} /\ ~Virgin /\ pi.text /\ pi.to = Current
  /\ pi.code \in Codes(Current) /\ (~Prelim(pi.code) => Silent)
  /\ (Online \/ pi.code \in {226, 250}) /\ (pi.state = "Begin" => Online)
  /\ (pi.waitClose => pi.code \in {226, 250})
OnSlot(a) ==
  /\ a.signal \in {"stateChanged", "readyRead"} => Running \/ Waiting = {}
  /\ a.signal = "finished" => Over /\ Call("removeFirst", FALSE) \in Waiting
OnConnectState(s) ==
  /\ Running \/ Waiting = {}
  /\ s \in {"Connected", "LoggedIn"} => Online
OnDtpState(s) ==
  /\ s = "CsClosed" => DtpClosed /\ (pi.waitClose => Ended)
  /\ s # "CsClosed" => /\ Waiting = {} /\ Running /\ pi.state = "Idle" /\ ~pi.waitClose
                       /\ dtp.socket # "connecting" /\ Settled
OnReplied(code) ==
  /\ code \in {227, 229} => Running /\ pi.state = "Success" /\ ~pi.waitClose /\ Settled
  /\ code = 230 => Running /\ Online
  /\ Prelim(code) => ~pi.waitClose
On(f) ==
  /\ f[1] \in {"removeFirst", "sendCommands", "connectToHost", "cleared", "failed", "clearError",
               "startNextCmd", "react", "dtpConnectToHost", "socketConnectionClosed", "writeData"} => Under(f)
  /\ f[1] = "commandFailed" => Under(f) /\ Rested
  /\ f[1] = "_q_piFinished" => Empty \/ (Running /\ Rested /\ Settled)
  /\ f[1] = "_q_piError" => (Empty \/ Running) /\ Settled /\ Halted
  /\ f[1] = "_q_startNextCommand" => Fresh /\ ftp.timers = 0
  /\ f[1] = "replied" => OnReplied(f[2])
  /\ f[1] = "dtpConnectState" => OnDtpState(f[2])
  /\ f[1] = "processReply" => OnReply
  /\ f[1] = "slot" => OnSlot(f[2])
  /\ f[1] = "_q_piConnectState" => OnConnectState(f[2])
  /\ f[1] = "waitForConnection" => ~pi.waitClose
  /\ f[1] = "socketReadyRead" => dtp.socket = "connected"
  /\ f[1] = "cleared" => DtpClosed

\* Of the innermost call and those that wait for it.
Failing == {"failed", "clearError", "startNextCmd"}
Pairs(f, w) ==
  /\ "cleared" \in Names(w) => f[1] = "abortConnection" \/ DtpClosed
  /\ "react" \in Names(w) => Online \/ (f[1] = "replied" /\ f[2] \in {226, 250})
  /\ "commandFailed" \in Names(w) => f[1] \in {"clearPendingCommands", "cleared"} \/ "cleared" \in Names(w)
  /\ ({f[1]} \cup Names(w)) \cap {"processReply", "replied", "react"} # {} => "processed" \in Names(w)
  /\ Names(w) \cap {"startNextCmd", "clearError", "failed", "_q_piFinished"} # {} => "react" \notin Names(w)
  /\ f[1] = "startNextCmd" /\ "react" \in Names(w) => Running /\ pi.pending # <<>>
  /\ f[1] = "_q_piFinished" /\ "react" \in Names(w) => Running /\ First.command # "Close"
  /\ f[1] = "clearPendingCommands" => "commandFailed" \in Names(w)
  /\ f[1] = "slot" /\ Call("removeFirst", FALSE) \in w => Names(w) \cap Failing = {}
  /\ f[1] = "removeFirst" /\ ~f[2] => Names(w) \cap Failing = {}

Stack ==
  /\ Stacked(calls)
  /\ ~Quiet => /\ On(Head(calls)) /\ Pairs(Head(calls), Waiting)
               /\ \A f \in Waiting : Under(f)

Core == NoAbort /\ Pipe /\ Text /\ Modes /\ Stack

-----------------------------------------------------------------------------
(* What a step does to the stack.                                          *)

\* All the frames of a stack.
FramesOf(q) == {q[i] : i \in 1..Len(q)}
Fits(a, w) == \A g \in w : g[1] \in Beneath(a[1])
Piled(q, w) == q \in Seq(Frame) /\ Stacked(q) /\ FramesOf(q) = w
Shape(q, f, w) ==
  q \in Seq(Frame) /\ q # <<>> /\ Stacked(q) /\ Head(q) = f /\ Wait(q) = w

LEMMA NoFrames == Piled(<<>>, {})
<1>1. Len(<<>>) = 0 /\ <<>> \in Seq(Frame)
  BY FrameSeqs, EmptySeq
<1>2. 1..0 = {} /\ 2..0 = {}
  OBVIOUS
<1>. QED
  BY <1>1, <1>2 DEF Piled, Stacked, FramesOf

\* A frame is put on others.
Lies(a, q) == IF q = <<>> THEN a[1] \notin Attached ELSE Adjacent(a, Head(q))
LEMMA Put ==
  ASSUME NEW q, NEW w, Piled(q, w), NEW a \in Frame, Fits(a, w), Lies(a, q)
  PROVE  Shape(<<a>> \o q, a, w)
<1> DEFINE F == Frame
           p == <<a>> \o q
<1>1. q \in Seq(F) /\ a \in F
  BY DEF Piled
<1> HIDE DEF F
<1>2. PICK n \in Nat : n = Len(q)
  BY <1>1, LenProperties
<1>3. /\ p \in Seq(F) /\ Len(p) = n + 1 /\ p[1] = a
      /\ \A i \in 1..n : p[i + 1] = q[i]
  BY <1>1, <1>2, ConcatProperties, SingleSeq
<1>4. p # <<>> /\ Head(p) = a
  BY <1>2, <1>3, EmptySeq
<1>5. \A i \in 2..(n + 1) : i - 1 \in 1..n /\ p[i] = q[i - 1]
  BY <1>2, <1>3
<1> HIDE DEF p
<1>6. FramesOf(q) = w /\ \A i, j \in 1..n : i < j => q[j][1] \in Beneath(q[i][1])
  BY <1>2 DEF Piled, Stacked
<1>7. \A i \in 2..n : Adjacent(q[i - 1], q[i])
  BY <1>2 DEF Piled, Stacked
<1>8. Wait(p) = w
  <2>1. \A x \in Wait(p) : x \in w
    BY <1>2, <1>3, <1>5, <1>6 DEF Wait, FramesOf
  <2>2. \A x \in w : x \in Wait(p)
    <3> SUFFICES ASSUME NEW x \in w PROVE x \in Wait(p)
      OBVIOUS
    <3>1. PICK i \in 1..n : x = q[i]
      BY <1>2, <1>6 DEF FramesOf
    <3>2. i + 1 \in 2..Len(p) /\ x = p[i + 1]
      BY <1>2, <1>3, <3>1
    <3>. QED
      BY <3>2 DEF Wait
  <2>. QED
    BY <2>1, <2>2
<1>9. \A i, j \in 1..Len(p) : i < j => p[j][1] \in Beneath(p[i][1])
  <2> SUFFICES ASSUME NEW i \in 1..Len(p), NEW j \in 1..Len(p), i < j
               PROVE  p[j][1] \in Beneath(p[i][1])
    OBVIOUS
  <2>1. j \in 2..(n + 1) /\ j - 1 \in 1..n /\ p[j] = q[j - 1]
    BY <1>2, <1>3, <1>5
  <2>2. CASE i = 1
    <3>1. p[j] \in w
      BY <1>2, <1>6, <2>1 DEF FramesOf
    <3>. QED
      BY <1>3, <2>2, <3>1 DEF Fits
  <2>3. CASE i # 1
    <3>1. i \in 2..(n + 1) /\ i - 1 \in 1..n /\ p[i] = q[i - 1] /\ i - 1 < j - 1
      BY <1>2, <1>3, <1>5, <2>1, <2>3
    <3>. QED
      BY <1>6, <2>1, <3>1
  <2>. QED
    BY <2>2, <2>3
<1>10. \A i \in 2..Len(p) : Adjacent(p[i - 1], p[i])
  <2> SUFFICES ASSUME NEW i \in 2..Len(p) PROVE Adjacent(p[i - 1], p[i])
    OBVIOUS
  <2>1. i - 1 \in 1..n /\ p[i] = q[i - 1]
    BY <1>2, <1>3, <1>5
  <2>2. CASE i = 2
    <3>1. q # <<>> /\ Head(q) = q[1]
      BY <1>1, <1>2, <2>1, EmptySeq
    <3>. QED
      BY <1>3, <2>1, <2>2, <3>1 DEF Lies
  <2>3. CASE i # 2
    <3>1. i - 1 \in 2..n /\ p[i - 1] = q[(i - 1) - 1]
      BY <1>2, <1>3, <1>5, <2>1, <2>3
    <3>. QED
      BY <1>7, <2>1, <3>1
  <2>. QED
    BY <2>2, <2>3
<1>11. p[Len(p)][1] \notin Attached
  <2>1. CASE q = <<>>
    <3>1. n = 0
      BY <1>2, <2>1, EmptySeq
    <3>. QED
      BY <1>3, <2>1, <3>1 DEF Lies
  <2>2. CASE q # <<>>
    <3>1. n \in 1..n /\ q[n][1] \notin Attached
      BY <1>1, <1>2, <2>2, EmptySeq DEF Piled, Stacked
    <3>. QED
      BY <1>3, <3>1
  <2>. QED
    BY <2>1, <2>2
<1>. QED
  BY <1>3, <1>4, <1>8, <1>9, <1>10, <1>11 DEF Shape, Stacked, p, F

\* The frames below the innermost one.
LEMMA Rest ==
  ASSUME NEW q, NEW f, NEW w, Shape(q, f, w)
  PROVE  /\ f \in Frame /\ Fits(f, w) /\ Piled(Tail(q), w) /\ FramesOf(q) = {f} \cup w
         /\ Lies(f, Tail(q))
<1> DEFINE F == Frame
           t == Tail(q)
<1>0. q \in Seq(F) /\ q # <<>>
  BY DEF Shape
<1> HIDE DEF F
<1>1. /\ f \in F /\ t \in Seq(F) /\ f = q[1]
      /\ Len(t) = Len(q) - 1 /\ \A i \in 1..Len(t) : t[i] = q[i + 1]
  BY <1>0, HeadTailProperties DEF Shape
<1>2. PICK n \in Nat : n = Len(t)
  BY <1>1, LenProperties
<1>3. Len(q) = n + 1 /\ \A i \in 1..n : i + 1 \in 2..(n + 1) /\ t[i] = q[i + 1]
  BY <1>0, <1>1, <1>2, LenProperties
<1>4. \A i \in 2..(n + 1) : i - 1 \in 1..n /\ t[i - 1] = q[i]
  BY <1>2, <1>3
<1>5. Wait(q) = w /\ Stacked(q)
  BY DEF Shape
<1>6. FramesOf(t) = w
  <2>1. \A x \in FramesOf(t) : x \in w
    BY <1>2, <1>3, <1>5 DEF FramesOf, Wait
  <2>2. \A x \in w : x \in FramesOf(t)
    <3> SUFFICES ASSUME NEW x \in w PROVE x \in FramesOf(t)
      OBVIOUS
    <3>1. PICK i \in 2..(n + 1) : x = q[i]
      BY <1>3, <1>5 DEF Wait
    <3>. QED
      BY <1>2, <1>4, <3>1 DEF FramesOf
  <2>. QED
    BY <2>1, <2>2
<1>7. Fits(f, w)
  <2> SUFFICES ASSUME NEW g \in w PROVE g[1] \in Beneath(f[1])
    BY DEF Fits
  <2>1. PICK i \in 2..(n + 1) : g = q[i]
    BY <1>3, <1>5 DEF Wait
  <2>2. 1 \in 1..Len(q) /\ i \in 1..Len(q) /\ 1 < i
    BY <1>2, <1>3
  <2>. QED
    BY <1>1, <1>5, <2>1, <2>2 DEF Stacked
<1>8. Stacked(t)
  <2>1. \A i, j \in 1..n : i < j => t[j][1] \in Beneath(t[i][1])
    <3> SUFFICES ASSUME NEW i \in 1..n, NEW j \in 1..n, i < j PROVE t[j][1] \in Beneath(t[i][1])
      OBVIOUS
    <3>1. i + 1 \in 1..Len(q) /\ j + 1 \in 1..Len(q) /\ i + 1 < j + 1
      BY <1>2, <1>3
    <3>. QED
      BY <1>3, <1>5, <3>1 DEF Stacked
  <2>2. \A i \in 2..n : Adjacent(t[i - 1], t[i])
    <3> SUFFICES ASSUME NEW i \in 2..n PROVE Adjacent(t[i - 1], t[i])
      OBVIOUS
    <3>1. i + 1 \in 2..Len(q) /\ i - 1 \in 1..n /\ i \in 1..n /\ (i - 1) + 1 = (i + 1) - 1
      BY <1>2, <1>3
    <3>2. t[i] = q[i + 1] /\ t[i - 1] = q[(i + 1) - 1]
      BY <1>3, <3>1
    <3>. QED
      BY <1>5, <3>1, <3>2 DEF Stacked
  <2>3. t # <<>> => t[Len(t)][1] \notin Attached
    <3> SUFFICES ASSUME t # <<>> PROVE t[n][1] \notin Attached
      BY <1>2
    <3>1. n \in 1..n
      BY <1>1, <1>2, EmptySeq
    <3>. QED
      BY <1>0, <1>3, <1>5, <3>1 DEF Stacked
  <2>. QED
    BY <1>2, <2>1, <2>2, <2>3 DEF Stacked
<1>11. t = <<>> => f[1] \notin Attached
  <2> SUFFICES ASSUME t = <<>> PROVE f[1] \notin Attached
    OBVIOUS
  <2>1. n = 0
    BY <1>2, EmptySeq
  <2>. QED
    BY <1>0, <1>1, <1>3, <1>5, <2>1 DEF Stacked
<1>9. t # <<>> => Adjacent(f, Head(t))
  <2> SUFFICES ASSUME t # <<>> PROVE Adjacent(f, Head(t))
    OBVIOUS
  <2>1. Len(t) \in Nat \ {0} /\ Head(t) = t[1]
    BY <1>1, EmptySeq
  <2>2. 2 \in 2..Len(q) /\ t[1] = q[2] /\ 2 - 1 = 1
    BY <1>2, <1>3, <2>1
  <2>. QED
    BY <1>1, <1>5, <2>1, <2>2 DEF Stacked
<1>10. FramesOf(q) = {f} \cup w
  <2>1. \A x \in FramesOf(q) : x \in {f} \cup w
    <3> SUFFICES ASSUME NEW i \in 1..(n + 1) PROVE q[i] \in {f} \cup w
      BY <1>3 DEF FramesOf
    <3>1. i = 1 \/ i \in 2..(n + 1)
      BY <1>2
    <3>. QED
      BY <1>1, <1>3, <1>5, <3>1 DEF Wait
  <2>2. \A x \in {f} \cup w : x \in FramesOf(q)
    <3>1. 1 \in 1..Len(q) /\ \A i \in 2..(n + 1) : i \in 1..Len(q)
      BY <1>2, <1>3
    <3>. QED
      BY <1>1, <1>3, <1>5, <3>1 DEF FramesOf, Wait
  <2>. QED
    BY <2>1, <2>2
<1>. QED
  BY <1>1, <1>6, <1>7, <1>8, <1>9, <1>10, <1>11 DEF Piled, F, Lies

LEMMA NamesOf ==
  /\ Names({}) = {}
  /\ \A a, w : Names({a} \cup w) = {a[1]} \cup Names(w)
  /\ \A w : \A g \in w : g[1] \in Names(w)
  /\ \A w, name : name \in Names(w) => \E g \in w : g[1] = name
BY DEF Names

LEMMA ShapeTags ==
  ASSUME NEW f, NEW w, Shape(calls, f, w)
  PROVE  /\ ~Quiet /\ Head(calls) = f /\ Waiting = w
         /\ Tags = {f[1]} \cup Names(w)
         /\ \A name : In(name) <=> f[1] = name
         /\ Arg = f[2]
BY DEF Shape, Quiet, Waiting, Tags, In, Arg

LEMMA ShapePrime ==
  ASSUME NEW f, NEW w, Shape(calls, f, w)'
  PROVE  /\ ~Quiet' /\ Head(calls') = f /\ Waiting' = w
         /\ Tags' = {f[1]} \cup Names(w)
         /\ \A name : In(name)' <=> f[1] = name
BY DEF Shape, Quiet, Waiting, Tags, In

LEMMA ShapeNow ==
  ASSUME TypeInv, Stack, ~Quiet
  PROVE  /\ Shape(calls, Head(calls), Waiting) /\ On(Head(calls)) /\ Pairs(Head(calls), Waiting)
         /\ \A g \in Waiting : Under(g)
BY DEF TypeInv, Stack, Shape, Waiting, Quiet

LEMMA StackBy ==
  ASSUME NEW f, NEW w, Shape(calls, f, w)', On(f)', Pairs(f, w)', \A g \in w : Under(g)'
  PROVE  Stack'
BY DEF Shape, Stack, Waiting, Quiet

LEMMA Piled1 ==
  ASSUME NEW q, NEW w, Piled(q, w), NEW a \in Frame, Fits(a, w), Lies(a, q)
  PROVE  Shape(<<a>> \o q, a, w) /\ Piled(<<a>> \o q, {a} \cup w)
<1>1. Shape(<<a>> \o q, a, w)
  BY Put
<1> DEFINE p == <<a>> \o q
<1> HIDE DEF p
<1>2. Shape(p, a, w)
  BY <1>1 DEF p
<1>3. FramesOf(p) = {a} \cup w
  BY <1>2, Rest
<1>4. Piled(p, {a} \cup w)
  BY <1>2, <1>3 DEF Piled, Shape
<1>. QED
  BY <1>1, <1>4 DEF p

LEMMA Pushed1 ==
  ASSUME NEW f, NEW w, Shape(calls, f, w), f[1] # "processed",
         NEW a \in Frame, a[1] \notin Attached, Then(<<a>>), Fits(a, w)
  PROVE  Shape(calls, a, w)'
<1>1. Piled(Tail(calls), w) /\ Lies(f, Tail(calls))
  BY Rest
<1>2. Lies(a, Tail(calls))
  BY <1>1 DEF Adjacent, Lies, Attached
<1>3. Shape(<<a>> \o Tail(calls), a, w)
  BY <1>1, <1>2, Put
<1>. QED
  BY <1>3 DEF Then

LEMMA Pushed2 ==
  ASSUME NEW f, NEW w, Shape(calls, f, w), f[1] # "processed",
         NEW a \in Frame, NEW b \in Frame, Then(<<a, b>>), b[1] \notin Attached,
         Fits(b, w), Fits(a, {b} \cup w), Adjacent(a, b)
  PROVE  Shape(calls, a, {b} \cup w)'
<1> DEFINE t == Tail(calls)
           q == <<b>> \o t
<1>1. Piled(t, w) /\ Lies(f, t)
  BY Rest
<1>2. Lies(b, t)
  BY <1>1 DEF Adjacent, Lies, Attached
<1>3. Shape(q, b, w) /\ Piled(q, {b} \cup w)
  BY <1>1, <1>2, Piled1
<1>4. Lies(a, q)
  BY <1>3 DEF Shape, Lies
<1>5. Shape(<<a>> \o q, a, {b} \cup w)
  <2> HIDE DEF q
  <2>. QED
    BY <1>3, <1>4, Put
<1>6. calls' = <<a>> \o q
  <2>1. t \in Seq(Frame)
    BY <1>1 DEF Piled
  <2>2. <<a>> \in Seq(Frame) /\ <<b>> \in Seq(Frame)
    BY FrameSeqs
  <2>3. (<<a>> \o <<b>>) \o t = <<a>> \o (<<b>> \o t)
    <3> DEFINE F == Frame
    <3> HIDE DEF F, t
    <3>1. t \in Seq(F) /\ <<a>> \in Seq(F) /\ <<b>> \in Seq(F)
      BY <2>1, <2>2 DEF F
    <3>. QED
      BY <3>1, ConcatAssociative
  <2>4. <<a>> \o <<b>> = <<a, b>>
    BY Joined
  <2>. QED
    BY <2>3, <2>4 DEF Then
<1>. QED
  BY <1>5, <1>6

LEMMA Pushed3 ==
  ASSUME NEW f, NEW w, Shape(calls, f, w), f[1] # "processed",
         NEW a \in Frame, NEW b \in Frame, NEW c \in Frame, Then(<<a, b, c>>),
         c[1] \notin Attached,
         Fits(c, w), Fits(b, {c} \cup w), Fits(a, {b} \cup ({c} \cup w)),
         Adjacent(b, c), Adjacent(a, b)
  PROVE  Shape(calls, a, {b} \cup ({c} \cup w))'
<1> DEFINE t == Tail(calls)
           p == <<c>> \o t
           q == <<b>> \o p
<1>1. Piled(t, w) /\ Lies(f, t)
  BY Rest
<1>2. Lies(c, t)
  BY <1>1 DEF Adjacent, Lies, Attached
<1>3. Shape(p, c, w) /\ Piled(p, {c} \cup w)
  BY <1>1, <1>2, Piled1
<1>4. Lies(b, p)
  BY <1>3 DEF Shape, Lies
<1>5. Shape(q, b, {c} \cup w) /\ Piled(q, {b} \cup ({c} \cup w))
  <2> HIDE DEF p
  <2>. QED
    BY <1>3, <1>4, Piled1
<1>6. Lies(a, q)
  BY <1>5 DEF Shape, Lies
<1>7. Shape(<<a>> \o q, a, {b} \cup ({c} \cup w))
  <2> HIDE DEF q
  <2>. QED
    BY <1>5, <1>6, Put
<1>8. calls' = <<a>> \o q
  <2>1. t \in Seq(Frame)
    BY <1>1 DEF Piled
  <2>2. <<a>> \in Seq(Frame) /\ <<b>> \in Seq(Frame) /\ <<c>> \in Seq(Frame) /\ <<b, c>> \in Seq(Frame)
    BY FrameSeqs
  <2>3. (<<a>> \o <<b, c>>) \o t = <<a>> \o (<<b, c>> \o t) /\ (<<b>> \o <<c>>) \o t = <<b>> \o (<<c>> \o t)
    <3> DEFINE F == Frame
    <3> HIDE DEF F, t
    <3>1. t \in Seq(F) /\ <<a>> \in Seq(F) /\ <<b>> \in Seq(F) /\ <<c>> \in Seq(F) /\ <<b, c>> \in Seq(F)
      BY <2>1, <2>2 DEF F
    <3>. QED
      BY <3>1, ConcatAssociative
  <2>4. <<a>> \o <<b, c>> = <<a, b, c>> /\ <<b>> \o <<c>> = <<b, c>>
    BY Joined, Joined3
  <2>. QED
    BY <2>3, <2>4 DEF Then
<1>. QED
  BY <1>7, <1>8

\* A frame is put on the one that runs.
LEMMA PushedOn ==
  ASSUME NEW f, NEW w, Shape(calls, f, w), f[1] \notin {"closed", "readLines"},
         NEW a \in Frame, a[1] \notin Attached, calls' = <<a>> \o calls,
         Fits(a, {f} \cup w)
  PROVE  Shape(calls, a, {f} \cup w)'
<1>1. Piled(calls, {f} \cup w)
  BY Rest DEF Piled, Shape
<1>2. Lies(a, calls)
  BY DEF Adjacent, Shape, Lies, Attached
<1>3. Shape(<<a>> \o calls, a, {f} \cup w)
  BY <1>1, <1>2, Put
<1>. QED
  BY <1>3

\* The innermost frame has returned.
LEMMA Popped ==
  ASSUME NEW f, NEW w, Shape(calls, f, w), Then(<<>>)
  PROVE  \/ calls' = <<>> /\ w = {} /\ f[1] \notin Attached
         \/ \E h \in w : \E v \in SUBSET w :
              /\ Shape(calls, h, v)' /\ {h} \cup v = w /\ Fits(f, w) /\ Fits(h, v)
              /\ h[1] \in {"closed", "readLines"} <=> f[1] = "processed"
              /\ f[1] = "replied" => h[1] = "react"
<1> DEFINE t == Tail(calls)
<1>1. Piled(t, w) /\ Lies(f, t) /\ Fits(f, w)
  BY Rest
<1>2. calls' = t
  <2> DEFINE F == Frame
  <2> HIDE DEF F, t
  <2>1. t \in Seq(F)
    BY <1>1 DEF Piled, F
  <2>2. <<>> \o t = t
    BY <2>1, ConcatEmptySeq
  <2>. QED
    BY <2>2 DEF Then, t
<1> HIDE DEF t
<1>3. CASE t = <<>>
  <2>1. FramesOf(<<>>) = {}
    BY NoFrames DEF Piled
  <2>. QED
    BY <1>1, <1>2, <1>3, <2>1 DEF Piled, Lies
<1>4. CASE t # <<>>
  <2>1. PICK h, v : Shape(t, h, v) /\ h = Head(t)
    BY <1>1, <1>4 DEF Piled, Shape
  <2>2. FramesOf(t) = {h} \cup v /\ Fits(h, v)
    BY <2>1, Rest
  <2>3. {h} \cup v = w
    BY <1>1, <2>2 DEF Piled
  <2>4. Shape(calls, h, v)'
    BY <1>2, <2>1
  <2>5. /\ h[1] \in {"closed", "readLines"} <=> f[1] = "processed"
        /\ f[1] = "replied" => h[1] = "react"
    BY <1>1, <1>4, <2>1 DEF Adjacent, Lies, Attached
  <2>. QED
    BY <1>1, <2>2, <2>3, <2>4, <2>5
<1>. QED
  BY <1>3, <1>4

\* An event that nothing waits for.
LEMMA Called1 ==
  ASSUME NEW a \in Frame, a[1] \notin Attached, calls' = <<a>>
  PROVE  Shape(calls, a, {})'
<1>1. Fits(a, {})
  BY DEF Fits
<1>2. Shape(<<a>> \o <<>>, a, {})
  BY <1>1, NoFrames, Put DEF Lies
<1>3. <<a>> \o <<>> = <<a>>
  BY Joined
<1>. QED
  BY <1>2, <1>3

LEMMA Called2 ==
  ASSUME NEW a \in Frame, NEW b \in Frame, calls' = <<a, b>>, b[1] \in Beneath(a[1]), Adjacent(a, b),
         b[1] \notin Attached
  PROVE  Shape(calls, a, {b})'
<1>1. Fits(b, {}) /\ Fits(a, {b} \cup {})
  BY DEF Fits
<1>2. Shape(<<b>> \o <<>>, b, {}) /\ Piled(<<b>> \o <<>>, {b} \cup {})
  BY <1>1, NoFrames, Piled1 DEF Lies
<1>3. <<b>> \o <<>> = <<b>> /\ <<a>> \o <<b>> = <<a, b>> /\ {b} \cup {} = {b} /\ Head(<<b>>) = b
  BY Joined
<1>4. Piled(<<b>>, {b}) /\ Fits(a, {b}) /\ Lies(a, <<b>>)
  BY <1>1, <1>2, <1>3 DEF Lies
<1>5. Shape(<<a>> \o <<b>>, a, {b})
  BY <1>4, Put
<1>. QED
  BY <1>3, <1>5

-----------------------------------------------------------------------------
(* What every step starts from: the frame that runs, and those below it.   *)

Facing(f, w) ==
  /\ TypeInv /\ TypeInv' /\ NoAbort /\ Pipe /\ Text /\ Modes
  /\ f \in Frame /\ w \in SUBSET Frame /\ Shape(calls, f, w) /\ Fits(f, w)
  /\ On(f) /\ Pairs(f, w) /\ \A g \in w : Under(g)

LEMMA Faced ==
  ASSUME TypeInv, TypeInv', Core, ~Quiet
  PROVE  \E f, w : Facing(f, w)
<1>1. Shape(calls, Head(calls), Waiting) /\ On(Head(calls)) /\ Pairs(Head(calls), Waiting)
      /\ \A g \in Waiting : Under(g)
  BY ShapeNow DEF Core
<1>2. PICK f, w : f = Head(calls) /\ w = Waiting
  OBVIOUS
<1>3. f \in Frame /\ Fits(f, w) /\ FramesOf(calls) = {f} \cup w
  BY <1>1, <1>2, Rest
<1>4. w \in SUBSET Frame
  <2> DEFINE F == Frame
  <2> HIDE DEF F
  <2>1. calls \in Seq(F)
    BY DEF TypeInv, F
  <2>2. \A i \in 1..Len(calls) : calls[i] \in F
    BY <2>1, ElementOfSeq
  <2>. QED
    BY <1>3, <2>2 DEF FramesOf, F
<1>. QED
  BY <1>1, <1>2, <1>3, <1>4 DEF Facing, Core

\* The command in front is fresh, running or over.
LEMMA Phases ==
  /\ Running => ~Empty /\ ~Over /\ ~Fresh
  /\ Over => ~Empty /\ ~Fresh
  /\ Fresh => ~Empty
  /\ ~Empty => Running \/ Over \/ Fresh
  /\ Connects <=> Running /\ First.command = "ConnectToHost"
<1>1. \A id : Told("started", id) # Told("finished", id)
  BY DEF Told
<1>. QED
  BY <1>1 DEF Running, Over, Fresh, Said, Connects

SameQueue ==
  /\ (Running' <=> Running) /\ (Over' <=> Over) /\ (Fresh' <=> Fresh) /\ (Connects' <=> Connects)
  /\ (Empty' <=> Empty) /\ First' = First
LEMMA KeptQueue ==
  ASSUME ftp'.pending = ftp.pending, ftp'.signals = ftp.signals
  PROVE  SameQueue
<1>1. First' = First /\ (Empty' <=> Empty)
  BY DEF First, Empty
<1>2. (Running' <=> Running) /\ (Over' <=> Over)
  BY <1>1 DEF Running, Over, Said
<1>. QED
  BY <1>1, <1>2 DEF Fresh, Connects, SameQueue

\* Neither the server nor the reading of its rows has moved.
SamePipe ==
  /\ net'.control = net.control /\ net'.up = net.up /\ net'.down = net.down
  /\ net'.transfer = net.transfer /\ net'.bye = net.bye
  /\ lines' = lines /\ pi'.state = pi.state /\ pi'.cmd = pi.cmd
LEMMA KeptPipe ==
  ASSUME Pipe, SamePipe
  PROVE  /\ Pipe' /\ (Silent' <=> Silent) /\ Current' = Current /\ Stream' = Stream
         /\ (Online' <=> Online)
<1>1. (Silent' <=> Silent) /\ Current' = Current /\ Stream' = Stream /\ (Online' <=> Online)
  BY DEF SamePipe, Silent, Current, Stream, Online
<1>. QED
  BY <1>1 DEF Pipe, SamePipe
\* When the server has nothing to say and nothing to do.
LEMMA SilentPipe ==
  ASSUME Silent, pi.state = "Waiting" => pi.cmd.verb \in Verbs
  PROVE  Pipe
<1>1. Stream = <<>> /\ Len(Stream) = 0 /\ net.up = <<>> /\ net.transfer = NoLine
  BY EmptySeq DEF Silent, Stream
<1>2. \A k \in 1..Len(Stream) : FALSE
  BY <1>1
<1>. QED
  BY <1>1, <1>2 DEF Pipe
\* What may wait below a frame, name by name.
LEMMA Orders ==
  /\ \A name \in {"socketConnectionClosed", "dtpConnectState", "closed", "readyRead", "readLines"} :
       Beneath(name) = Drained
  /\ Beneath("slot") = {"removeFirst", "sendCommands", "_q_piFinished", "connectToHost", "_q_piError"} \cup Starting
  /\ Beneath("_q_piConnectState") = {"connectToHost", "_q_piError"} \cup Reacting
  /\ Beneath("abortConnection") = {"cleared", "commandFailed"} \cup Starting
  /\ \A name \in {"clearPendingCommands", "cleared"} : Beneath(name) = {"commandFailed"} \cup Starting
  /\ \A name \in {"_q_piError", "commandFailed", "removeFirst"} : Beneath(name) = Starting
  /\ Beneath("clearError") = {"startNextCmd"} \cup Replying
  /\ \A name \in {"_q_piFinished", "_q_startNextCommand", "connectToHost", "sendCommands", "startNextCmd"} :
       Beneath(name) = Reacting
  /\ \A name \in {"dtpConnectToHost", "replied"} : Beneath(name) = {"react"} \cup Replying
  /\ Beneath("waitForConnection") = {"react", "writeData"} \cup Replying
  /\ \A name \in {"writeData", "written"} : Beneath(name) = {"react", "socketConnectionClosed"} \cup Replying
  /\ \A name \in {"react", "failed", "processReply"} : Beneath(name) = Replying
  /\ Beneath("processed") = Reading
  /\ Beneath("socketBytesWritten") = {"socketConnectionClosed"}
  /\ Beneath("socketReadyRead") = {} /\ Beneath("abort") = {}
BY DEF Beneath

LEMMA BelowNames ==
  ASSUME NEW f, NEW w, Fits(f, w)
  PROVE  Names(w) \subseteq Beneath(f[1])
BY DEF Names, Fits

\* The names of the frames once the innermost one has returned.
LEMMA PoppedTags ==
  ASSUME NEW f, NEW w, Shape(calls, f, w), Then(<<>>)
  PROVE  /\ Tags' = Names(w) /\ Waiting' \subseteq w
         /\ \A name : In(name)' => name \in Names(w)
<1>1. CASE calls' = <<>> /\ w = {}
  BY <1>1, NamesOf, NoFrames, EmptySeq DEF Tags, Quiet, In, Waiting, Wait
<1>2. CASE \E h \in w : \E v \in SUBSET w : Shape(calls, h, v)' /\ {h} \cup v = w
  <2>1. PICK h \in w, v \in SUBSET w : Shape(calls, h, v)' /\ {h} \cup v = w
    BY <1>2
  <2>2. Tags' = {h[1]} \cup Names(v) /\ Waiting' = v /\ \A name : In(name)' <=> h[1] = name
    BY <2>1, ShapePrime
  <2>. QED
    BY <2>1, <2>2, NamesOf
<1>. QED
  BY <1>1, <1>2, Popped

\* A frame that has waited goes on as it was left.
Wakes == Drained \cup {"removeFirst", "sendCommands", "_q_piFinished",
                        "connectToHost", "_q_piError", "socketConnectionClosed", "writeData"}
Wakeful(h) == /\ h[1] \in Wakes /\ Under(h)
              /\ (h[1] = "commandFailed" => Rested)
              /\ (h[1] = "cleared" => DtpClosed)
Woken == \A h : Wakeful(h) => On(h)
LEMMA WokenOn == Modes => Woken
<1> SUFFICES ASSUME Modes, NEW h, h[1] \in Wakes, Under(h), h[1] = "commandFailed" => Rested,
                    h[1] = "cleared" => DtpClosed
             PROVE  On(h)
  BY DEF Woken, Wakeful
<1>1. CASE h[1] \in {"removeFirst", "sendCommands", "connectToHost", "cleared", "failed", "clearError",
               "startNextCmd", "react", "dtpConnectToHost", "socketConnectionClosed", "writeData", "commandFailed"}
  BY <1>1 DEF On
<1>2. CASE h[1] = "_q_piFinished"
  BY <1>2 DEF On, Under
<1>3. CASE h[1] = "_q_piError"
  <2>1. Running /\ Settled /\ Halted
    BY <1>3 DEF Under, Modes, Connects, Settled, Halted
  <2>. QED
    BY <1>3, <2>1 DEF On
<1>4. CASE h[1] = "replied"
  <2>1. Class(h[2]) = 2 /\ h[2] \notin {227, 229, 230}
    BY <1>4 DEF Under
  <2>. QED
    BY <1>4, <2>1 DEF On, OnReplied, Prelim
<1>5. CASE h[1] = "dtpConnectState"
  <2>1. h[2] = "CsClosed" /\ DtpClosed /\ ~pi.waitClose
    BY <1>5 DEF Under
  <2>. QED
    BY <1>5, <2>1 DEF On, OnDtpState
<1>6. CASE h[1] \in {"closed", "readLines", "written", "processed"}
  BY <1>6 DEF On
<1>. QED
  BY <1>1, <1>2, <1>3, <1>4, <1>5, <1>6 DEF Wakes, Drained, Starting, Reacting, Replying, Reading

LEMMA Resumed ==
  ASSUME NEW f, NEW w, Facing(f, w), Then(<<>>), f[1] # "clearPendingCommands", Modes',
         \A g \in w : Under(g)',
         "cleared" \in Names(w) => DtpClosed',
         "react" \in Names(w) => Online' \/ f[1] = "replied",
         f[1] = "cleared" => Rested'
  PROVE  Stack'
<1>1. CASE calls' = <<>>
  <2>1. Len(calls') = 0
    BY <1>1, EmptySeq
  <2>2. 1..0 = {} /\ 2..0 = {}
    OBVIOUS
  <2>. QED
    BY <1>1, <2>1, <2>2 DEF Stack, Stacked, Quiet
<1>2. ASSUME NEW h \in w, NEW v \in SUBSET w, Shape(calls, h, v)', {h} \cup v = w, Fits(f, w), Fits(h, v),
             h[1] \in {"closed", "readLines"} <=> f[1] = "processed", f[1] = "replied" => h[1] = "react"
      PROVE  Stack'
  <2>0. h \in Frame /\ w \subseteq Frame /\ Pairs(f, w)
    BY <1>2 DEF Facing
  <2>1. Names(w) = {h[1]} \cup Names(v)
    BY <1>2, NamesOf
  <2>2. Names(w) \subseteq Beneath(f[1]) /\ Names(v) \subseteq Beneath(h[1])
    BY <1>2, BelowNames
  <2>a. f[1] \in Plain \cup {"slot", "dtpConnectState", "_q_piError", "_q_piConnectState", "sendCommands",
                            "replied", "commandFailed", "removeFirst"}
    BY DEF Facing, Frame
  <2>3. h[1] \in Wakes
    BY <2>a, <2>1, <2>2, Orders DEF Plain, Wakes, Drained, Starting, Reacting, Replying, Reading
  <2>4. h[1] = "commandFailed" => Rested'
    <3> SUFFICES ASSUME h[1] = "commandFailed" PROVE f[1] = "cleared"
      OBVIOUS
    <3>1. "cleared" \notin Names(v)
      BY <2>2, Orders DEF Starting, Reacting, Replying, Reading
    <3>. QED
      BY <2>0, <2>1, <3>1 DEF Pairs
  <2>5. On(h)'
    <3>1. Under(h)'
      BY <1>2
    <3>2. Woken'
      BY WokenOn, PTL
    <3>3. h[1] = "cleared" => DtpClosed'
      BY <2>1
    <3>. QED
      BY <2>3, <2>4, <3>1, <3>2, <3>3 DEF Woken, Wakeful
  <2>6. Pairs(h, v)'
    <3>1. "cleared" \in Names(v) => DtpClosed'
      BY <2>1
    <3>2. "react" \in Names(v) => Online'
      <4> SUFFICES ASSUME "react" \in Names(v) PROVE f[1] # "replied"
        BY <2>1
      <4>1. h[1] # "react"
        BY <2>2, Orders DEF Replying, Reading
      <4>. QED
        BY <1>2, <4>1
    <3>3. "commandFailed" \in Names(v) => h[1] \in {"clearPendingCommands", "cleared"} \/ "cleared" \in Names(v)
      <4> SUFFICES ASSUME "commandFailed" \in Names(v), "cleared" \notin Names(w) PROVE FALSE
        BY <2>1
      <4>1. f[1] = "cleared"
        BY <2>0, <2>1 DEF Pairs
      <4>2. h[1] \in {"commandFailed"} \cup Starting /\ h[1] \notin {"closed", "readLines"}
        BY <1>2, <2>1, <2>2, <4>1, Orders
      <4>3. "commandFailed" \notin Beneath(h[1])
        BY <4>2, Orders DEF Starting, Reacting, Replying, Reading
      <4>. QED
        BY <2>2, <4>3
    <3>4. ({h[1]} \cup Names(v)) \cap {"processReply", "replied", "react"} # {} => "processed" \in Names(v)
      <4> SUFFICES ASSUME Names(w) \cap {"processReply", "replied", "react"} # {} PROVE "processed" \in Names(v)
        BY <2>1
      <4>1. "processed" \in Names(w)
        BY <2>0 DEF Pairs
      <4>2. h[1] # "processed"
        BY <2>1, <2>2, Orders DEF Reading
      <4>. QED
        BY <2>1, <4>1, <4>2
    <3>5. /\ Names(v) \cap {"startNextCmd", "clearError", "failed", "_q_piFinished"} # {} => "react" \notin Names(v)
          /\ h[1] \in {"startNextCmd", "_q_piFinished"} => "react" \notin Names(v)
      BY <2>0, <2>1 DEF Pairs
    <3>6. h[1] # "clearPendingCommands"
      BY <2>3 DEF Wakes, Drained, Starting, Reacting, Replying, Reading
    <3>7. h[1] # "slot"
      BY <2>3 DEF Wakes, Drained, Starting, Reacting, Replying, Reading
    <3>8. h[1] = "removeFirst" /\ ~h[2] => Names(v) \cap Failing = {}
      <4> SUFFICES ASSUME h[1] = "removeFirst", ~h[2] PROVE Names(v) \cap Failing = {}
        OBVIOUS
      <4>1. h = Call("removeFirst", FALSE)
        BY <2>0, FrameArgs
      <4>2. f[1] = "slot"
        BY <2>a, <2>1, <2>2, Orders, SMTT(30) DEF Plain, Drained, Starting, Reacting, Replying, Reading
      <4>. QED
        BY <1>2, <2>0, <2>1, <4>1, <4>2 DEF Pairs
    <3>. QED
      BY <3>1, <3>2, <3>3, <3>4, <3>5, <3>6, <3>7, <3>8 DEF Pairs
  <2>. QED
    BY <1>2, <2>5, <2>6, StackBy
<1>3. Shape(calls, f, w)
  BY DEF Facing
<1>. QED
  BY <1>1, <1>2, <1>3, Popped

\* The frames a step leaves, for what the state has to say of them.
SameTags ==
  /\ ~Has("abort")' /\ (Has("processed")' <=> Has("processed")) /\ (pi'.waitClose /\ Has("closed") => Has("closed")')
  /\ lines # <<>> => pi'.waitClose \/ Has("processed") \/ In("readyRead")' \/ In("readLines")' \/ In("closed")'
  /\ pi.state = "Success" => Has("react")'
  /\ pi.state = "Failure" => Has("react")' \/ Has("failed")'
  /\ ftp.timers = 1 => Tags' \subseteq Harmless
  /\ Fresh => ftp.timers = 1 \/ In("_q_startNextCommand")'
  /\ Over => Has("removeFirst")'
  /\ ftp.state \in {"Connected", "LoggedIn"} => Online \/ In("_q_piConnectState")'
\* What a step leaves alone; QFtpDTP may have closed its socket.
SameState ==
  /\ SamePipe /\ SameQueue /\ Len(ftp'.pending) = Len(ftp.pending)
  /\ pi'.text = pi.text /\ pi'.code = pi.code /\ pi'.to = pi.to /\ pi'.abort = pi.abort
  /\ (pi.pending = <<>> => pi'.pending = <<>>) /\ (pi.waitConnect => pi'.waitConnect)
  /\ (pi'.waitClose => pi.waitClose)
  /\ (Virgin => Virgin') /\ (DtpClosed => DtpClosed')
  /\ (dtp'.socket = "connecting" => dtp.socket = "connecting")
  /\ ftp'.closeWait = ftp.closeWait /\ ftp'.timers = ftp.timers /\ ftp'.state = ftp.state

LEMMA Steady ==
  ASSUME NoAbort, Pipe, Text, Modes, SameState, SameTags
  PROVE  /\ NoAbort' /\ Pipe' /\ Text' /\ Modes' /\ \A g : Under(g) => Under(g)'
         /\ (Rested => Rested') /\ (Settled' <=> Settled) /\ (Halted => Halted') /\ (Ended' <=> Ended)
         /\ (Online' <=> Online) /\ (Looking' <=> Looking) /\ (Silent' <=> Silent) /\ Current' = Current
<1>1. /\ Pipe' /\ (Silent' <=> Silent) /\ Current' = Current /\ Stream' = Stream
      /\ (Online' <=> Online)
  BY KeptPipe DEF SameState
<1>2. (Looking' <=> Looking) /\ (Rested => Rested') /\ (Settled' <=> Settled) /\ (Halted => Halted')
  BY DEF SameState, SamePipe, Looking, Rested, Settled, Halted
<1>3. Ended' <=> Ended
  BY <1>1 DEF SameState, SamePipe, Ended, SameTags
<1>4. NoAbort'
  BY DEF NoAbort, SameState, SameTags
<1>5. Text'
  BY <1>1, <1>3 DEF Text, SameState, SamePipe, SameTags
<1>6. Modes'
  BY <1>1, <1>2 DEF Modes, SameState, SamePipe, SameTags, SameQueue
<1>7. \A g : Under(g) => Under(g)'
  BY <1>1, <1>2, <1>3 DEF Under, SameState, SamePipe, SameQueue
<1>. QED
  BY <1>1, <1>2, <1>3, <1>4, <1>5, <1>6, <1>7

LEMMA Base ==
  ASSUME NEW f, NEW w, Facing(f, w)
  PROVE  /\ ~Quiet /\ Waiting = w /\ Tags = {f[1]} \cup Names(w) /\ Arg = f[2]
         /\ \A name : In(name) <=> f[1] = name
         /\ Names(w) \subseteq Beneath(f[1])
         /\ net \in NetType /\ dtp \in DtpType /\ pi \in PiType /\ ftp \in FtpType /\ lines \in Seq(RowType)
         /\ net' \in NetType /\ dtp' \in DtpType /\ pi' \in PiType /\ ftp' \in FtpType /\ lines' \in Seq(RowType)
BY ShapeTags, BelowNames DEF Facing, TypeInv

\* The frame that runs returns, and nothing else happens.
LEMMA Passes ==
  ASSUME NEW f, NEW w, Facing(f, w), Then(<<>>), SameState, pi'.waitClose = pi.waitClose,
         f[1] \notin {"processed", "closed", "removeFirst", "_q_startNextCommand", "_q_piConnectState",
                      "clearPendingCommands", "cleared"},
         f[1] = "abortConnection" => DtpClosed',
         f[1] \in {"readyRead", "readLines"} => lines = <<>> \/ pi.waitClose,
         f[1] = "react" => pi.state \notin {"Success", "Failure"},
         f[1] = "failed" => pi.state # "Failure"
  PROVE  Core'
<1>1. /\ Tags' = Names(w) /\ Waiting' \subseteq w /\ \A name : In(name)' => name \in Names(w)
  BY PoppedTags DEF Facing
<1>2. Tags = {f[1]} \cup Names(w) /\ \A name : In(name) <=> f[1] = name
  BY Base
<1>3. NoAbort /\ Text /\ Pipe /\ Modes /\ Pairs(f, w) /\ \A g \in w : Under(g)
  BY DEF Facing
<1>4. SameTags
  BY <1>1, <1>2, <1>3 DEF SameTags, Has, NoAbort, Text, Modes
<1>5. /\ NoAbort' /\ Pipe' /\ Text' /\ Modes' /\ \A g : Under(g) => Under(g)'
      /\ (Online' <=> Online) /\ (DtpClosed => DtpClosed')
  BY <1>3, <1>4, Steady DEF SameState
<1>6. /\ "cleared" \in Names(w) => DtpClosed'
      /\ "react" \in Names(w) => Online' \/ f[1] = "replied"
  BY <1>3, <1>5 DEF Pairs
<1>7. Stack'
  BY <1>3, <1>5, <1>6, Resumed
<1>. QED
  BY <1>5, <1>7 DEF Core

\* It calls others, and nothing else happens.
LEMMA Calls ==
  ASSUME NEW f, NEW w, Facing(f, w), SameState, SameTags,
         NEW a, NEW v, Shape(calls, a, v)', On(a)', Pairs(a, v)', \A g \in v : g \in w \/ Under(g)'
  PROVE  Core'
<1>1. NoAbort /\ Text /\ Pipe /\ Modes /\ \A g \in w : Under(g)
  BY DEF Facing
<1>2. NoAbort' /\ Pipe' /\ Text' /\ Modes' /\ \A g : Under(g) => Under(g)'
  BY <1>1, Steady
<1>3. Stack'
  BY <1>1, <1>2, StackBy
<1>. QED
  BY <1>2, <1>3 DEF Core

\* The simplest returns.
LEMMA ClearErrorCore ==
  ASSUME NEW f, NEW w, Facing(f, w), ClearError, UNCHANGED ftp
  PROVE  Core'
<1>1. f[1] = "clearError" /\ Then(<<>>) /\ dtp \in DtpType /\ pi' = pi
  BY Base DEF ClearError
<1>2. SameState
  <2>1. dtp'.socket = dtp.socket /\ dtp'.listening = dtp.listening
    BY <1>1 DEF ClearError, DtpType
  <2>2. UNCHANGED <<pi, net, lines, ftp>>
    BY DEF ClearError
  <2>3. SameQueue
    BY <2>2, KeptQueue
  <2>. QED
    BY <2>1, <2>2, <2>3 DEF SameState, SamePipe, Virgin, Online, DtpClosed
<1>. QED
  BY <1>1, <1>2, Passes

\* The frame that runs calls one, two or three others.
LEMMA OneCalled ==
  ASSUME NEW f, NEW w, Facing(f, w), f[1] # "processed", NEW a \in Frame, Then(<<a>>),
         a[1] \notin Attached, Names(w) \subseteq Beneath(a[1])
  PROVE  /\ Shape(calls, a, w)' /\ Tags' = {a[1]} \cup Names(w) /\ Waiting' = w
         /\ \A name : In(name)' <=> a[1] = name
<1>1. Fits(a, w)
  BY DEF Fits, Names
<1>2. Shape(calls, a, w)'
  BY <1>1, Pushed1 DEF Facing
<1>. QED
  BY <1>2, ShapePrime
LEMMA TwoCalled ==
  ASSUME NEW f, NEW w, Facing(f, w), f[1] # "processed", NEW a \in Frame, NEW b \in Frame, Then(<<a, b>>),
         b[1] \notin Attached, Names(w) \subseteq Beneath(b[1]),
         Names(w) \cup {b[1]} \subseteq Beneath(a[1]), Adjacent(a, b)
  PROVE  /\ Shape(calls, a, {b} \cup w)' /\ Tags' = {a[1], b[1]} \cup Names(w) /\ Waiting' = {b} \cup w
         /\ \A name : In(name)' <=> a[1] = name
         /\ Names({b} \cup w) = {b[1]} \cup Names(w)
<1>1. Fits(b, w) /\ Fits(a, {b} \cup w)
  BY DEF Fits, Names
<1>2. Shape(calls, a, {b} \cup w)'
  BY <1>1, Pushed2 DEF Facing
<1>3. Names({b} \cup w) = {b[1]} \cup Names(w)
  BY NamesOf
<1>. QED
  BY <1>2, <1>3, ShapePrime
LEMMA ThreeCalled ==
  ASSUME NEW f, NEW w, Facing(f, w), f[1] # "processed",
         NEW a \in Frame, NEW b \in Frame, NEW c \in Frame, Then(<<a, b, c>>),
         c[1] \notin Attached, Names(w) \subseteq Beneath(c[1]),
         Names(w) \cup {c[1]} \subseteq Beneath(b[1]), Names(w) \cup {b[1], c[1]} \subseteq Beneath(a[1]),
         Adjacent(a, b), Adjacent(b, c)
  PROVE  /\ Shape(calls, a, {b} \cup ({c} \cup w))' /\ Tags' = {a[1], b[1], c[1]} \cup Names(w)
         /\ Waiting' = {b} \cup ({c} \cup w) /\ \A name : In(name)' <=> a[1] = name
         /\ Names({b} \cup ({c} \cup w)) = {b[1], c[1]} \cup Names(w)
<1>1. Fits(c, w) /\ Fits(b, {c} \cup w) /\ Fits(a, {b} \cup ({c} \cup w))
  BY DEF Fits, Names
<1>2. Shape(calls, a, {b} \cup ({c} \cup w))'
  BY <1>1, Pushed3 DEF Facing
<1>3. Names({b} \cup ({c} \cup w)) = {b[1], c[1]} \cup Names(w)
  BY NamesOf
<1>. QED
  BY <1>2, <1>3, ShapePrime

LEMMA NextTags ==
  ASSUME NEW f, NEW w, Facing(f, w), pi'.waitClose = pi.waitClose, NEW S, Tags' = S \cup Names(w),
         "abort" \notin S, "processed" \notin S,
         f[1] \notin {"processed", "removeFirst", "_q_startNextCommand", "_q_piConnectState"},
         f[1] = "closed" => "closed" \in S,
         f[1] \in {"readyRead", "readLines", "closed"} /\ lines # <<>> =>
           pi.waitClose \/ In("readyRead")' \/ In("readLines")' \/ In("closed")',
         f[1] = "react" => pi.state \notin {"Success", "Failure"} \/ "react" \in S
                           \/ (pi.state = "Failure" /\ "failed" \in S),
         f[1] = "failed" => pi.state # "Failure" \/ "failed" \in S,
         ftp.timers = 1 => S \subseteq Harmless
  PROVE  SameTags
<1>1. Tags = {f[1]} \cup Names(w) /\ \A name : In(name) <=> f[1] = name
  BY Base
<1>2. NoAbort /\ Text /\ Modes
  BY DEF Facing
<1>3. lines # <<>> => pi.waitClose \/ Has("processed") \/ f[1] \in {"readyRead", "readLines", "closed"}
  BY <1>1, <1>2 DEF Text
<1>. QED
  BY <1>1, <1>2, <1>3 DEF SameTags, Has, NoAbort, Modes

\* What QFtpDTP does with its data, which the others do not look at.
LEMMA SameBut ==
  ASSUME SamePipe, pi' = pi, ftp' = ftp, dtp'.socket = dtp.socket, dtp'.listening = dtp.listening
  PROVE  SameState
<1>1. SameQueue
  BY KeptQueue
<1>. QED
  BY <1>1 DEF SameState, SamePipe, Virgin, Online, DtpClosed

LEMMA AfterWriteCore ==
  ASSUME NEW f, NEW w, Facing(f, w), AfterWrite, UNCHANGED <<lines, ftp>>
  PROVE  Core'
<1>1. f[1] = "written" /\ Then(<<>>) /\ dtp \in DtpType /\ pi' = pi
  BY Base DEF AfterWrite
<1>2. SameState
  BY <1>1, SameBut DEF SamePipe, AfterWrite, ClearData, DtpType
<1>. QED
  BY <1>1, <1>2, Passes

\* Nothing waits for QFtpDTP to write but the rest of a reply or of an event.
LEMMA WrittenCore ==
  ASSUME NEW f, NEW w, Facing(f, w), SocketBytesWritten, UNCHANGED <<lines, ftp>>
  PROVE  Core'
<1>1. f[1] = "socketBytesWritten" /\ dtp \in DtpType /\ pi' = pi /\ Names(w) \subseteq {"socketConnectionClosed"}
      /\ Tags = {f[1]} \cup Names(w)
  BY Base, Orders DEF SocketBytesWritten
<1>2. SameState
  BY <1>1, SameBut DEF SamePipe, SocketBytesWritten
<1>3. CASE Then(<<>>)
  BY <1>1, <1>2, <1>3, Passes
<1>4. CASE Then(<<Do("writeData")>>)
  <2> DEFINE a == Do("writeData")
  <2>1. a \in Frame /\ a[1] = "writeData"
    BY FrameTypes DEF Plain, Do, Call
  <2> HIDE DEF a
  <2>2. /\ Shape(calls, a, w)' /\ Tags' = {a[1]} \cup Names(w)
        /\ \A name : In(name)' <=> a[1] = name
    BY <1>1, <1>4, <2>1, OneCalled, Orders DEF Attached, a
  <2>3. NoAbort /\ Text /\ Modes /\ Pairs(f, w) /\ Pipe
    BY DEF Facing
  <2>4. pi.waitClose => Ended
    BY <1>1, <2>3 DEF Text, Has
  <2>5. SameTags
    BY <1>1, <2>1, <2>2, NextTags DEF Harmless
  <2>6. Ended' <=> Ended
    BY <1>2, <2>3, <2>5, Steady
  <2>7. On(a)'
    BY <1>2, <2>1, <2>4, <2>6 DEF On, Under, SameState
  <2>8. Pairs(a, w)'
    BY <1>1, <2>1 DEF Pairs
  <2>. QED
    BY <1>2, <2>2, <2>5, <2>7, <2>8, Calls
<1>. QED
  BY <1>3, <1>4 DEF SocketBytesWritten

LEMMA WaitForConnectionCore ==
  ASSUME NEW f, NEW w, Facing(f, w), WaitForConnection, UNCHANGED <<lines, ftp>>
  PROVE  Core'
<1>1. /\ f[1] = "waitForConnection" /\ Then(<<>>) /\ Tags = {f[1]} \cup Names(w)
      /\ \A name : In(name) <=> f[1] = name
      /\ Names(w) \subseteq {"react", "writeData"} \cup Replying
      /\ dtp \in DtpType /\ net \in NetType /\ UNCHANGED <<pi, lines, ftp>>
  BY Base, Orders DEF WaitForConnection
<1>2. CASE UNCHANGED <<dtp, net>>
  BY <1>1, <1>2, SameBut, Passes DEF SamePipe
<1>3. CASE dtp.listening /\ dtp' = Accepted(dtp) /\ net' = [net EXCEPT !.link = "open"]
  <2>1. dtp'.socket = "connected" /\ SamePipe /\ SameQueue
    BY <1>1, <1>3, KeptQueue DEF Accepted, DtpType, NetType, SamePipe
  <2>2. ~Virgin /\ ~Virgin'
    BY <1>3, <2>1 DEF Virgin
  <2>3. NoAbort /\ Text /\ Pipe /\ Modes /\ On(f) /\ Pairs(f, w) /\ \A g \in w : Under(g)
    BY DEF Facing
  <2>4. /\ Tags' = Names(w) /\ Waiting' \subseteq w /\ \A name : In(name)' => name \in Names(w)
    BY <1>1, PoppedTags DEF Facing
  <2>5. Pipe' /\ (Silent' <=> Silent) /\ Current' = Current /\ Stream' = Stream /\ (Online' <=> Online)
    BY <2>1, <2>3, KeptPipe
  <2>6. ~pi.waitClose
    BY <1>1, <2>3 DEF On
  <2>7. NoAbort' /\ Text'
    BY <1>1, <2>1, <2>3, <2>4, <2>5, <2>6 DEF NoAbort, Text, Has, SamePipe
  <2>8. (Rested => Rested') /\ (Settled' <=> Settled) /\ (Halted => Halted') /\ (Looking' <=> Looking)
    BY <1>1, <2>1, <2>2 DEF Rested, Settled, Halted, Looking, SamePipe
  <2>9. Modes'
    BY <1>1, <2>1, <2>2, <2>3, <2>4, <2>5, <2>6, <2>8 DEF Modes, SamePipe, SameQueue, Has
  <2>10. \A g \in w : Under(g)'
    <3> SUFFICES ASSUME NEW g \in w PROVE Under(g)'
      OBVIOUS
    <3>1. Under(g) /\ g[1] \in {"react", "writeData"} \cup Replying
      BY <1>1, <2>3, NamesOf
    <3>. QED
      BY <1>1, <2>6, <2>8, <3>1 DEF Under, Replying, Reading
  <2>11. "cleared" \notin Names(w) /\ ("react" \in Names(w) => Online')
    BY <1>1, <2>3, <2>5 DEF Replying, Reading, Pairs
  <2>12. Stack'
    BY <1>1, <2>9, <2>10, <2>11, Resumed
  <2>. QED
    BY <2>5, <2>7, <2>9, <2>12 DEF Core
<1>. QED
  BY <1>2, <1>3 DEF WaitForConnection

LEMMA WrittenSame ==
  ASSUME NEW d \in DtpType, NEW c \in Seq(Nat), NEW e, e = Written(d, c)
  PROVE  e \in DtpType /\ e.socket = d.socket /\ e.listening = d.listening
<1>1. e \in DtpType
  BY DtpParts
<1>2. e.socket = d.socket /\ e.listening = d.listening
  BY DEF Written, DtpType
<1>. QED
  BY <1>1, <1>2

\* The end of the data of a STOR: the socket is closed in the middle of it.
LEMMA WriteDataCore ==
  ASSUME NEW f, NEW w, Facing(f, w), WriteData, UNCHANGED <<lines, ftp>>
  PROVE  Core'
<1>1. /\ f[1] = "writeData" /\ Tags = {f[1]} \cup Names(w)
      /\ \A name : In(name) <=> f[1] = name
      /\ Names(w) \subseteq {"react", "socketConnectionClosed"} \cup Replying
      /\ dtp \in DtpType /\ net \in NetType /\ UNCHANGED <<pi, lines, ftp>>
  BY Base, Orders DEF WriteData
<1>2. CASE Then(<<>>) /\ UNCHANGED <<dtp, net>>
  BY <1>1, <1>2, SameBut, Passes DEF SamePipe
<1>3. CASE WriteBytes
  <2>1. Then(<<>>) /\ UNCHANGED net
    BY <1>3 DEF WriteBytes
  <2>2. dtp'.socket = (IF dtp.socket = "connected" THEN "closing" ELSE dtp.socket) /\ dtp'.listening = dtp.listening
    <3>1. PICK c \in Seq(Nat) : c = Whole(dtp.data.id)
      BY <1>1, WholeType DEF DtpType
    <3>2. PICK d : d = Written(dtp, c)
      OBVIOUS
    <3>3. d \in DtpType /\ d.socket = dtp.socket /\ d.listening = dtp.listening
      BY <1>1, <3>2, WrittenSame
    <3>4. dtp' = ClearData([d EXCEPT !.socket = IF @ = "connected" THEN "closing" ELSE @])
      BY <1>3, <3>1, <3>2 DEF WriteBytes
    <3>. QED
      BY <3>3, <3>4 DEF ClearData, DtpType
  <2>3. SameState
    <3>1. SamePipe /\ SameQueue
      BY <1>1, <2>1, KeptQueue DEF SamePipe
    <3>. QED
      BY <1>1, <2>1, <2>2, <3>1 DEF SameState, Virgin, Online, DtpClosed
  <2>. QED
    BY <1>1, <2>1, <2>3, Passes
<1>4. CASE WriteBlock
  <2>1. Then(<<>>) /\ UNCHANGED net
    BY <1>4 DEF WriteBlock
  <2>2. dtp'.socket = dtp.socket /\ dtp'.listening = dtp.listening
    <3>1. PICK c \in Seq(Nat) : c = <<Head(dtp.left)>>
      <4>1. Head(dtp.left) \in Nat
        BY <1>1, <1>4, HeadTailProperties DEF DtpType, WriteBlock
      <4>. QED
        BY <4>1, SingleSeq
    <3>2. PICK d : d = Written(dtp, c)
      OBVIOUS
    <3>3. d \in DtpType /\ d.socket = dtp.socket /\ d.listening = dtp.listening
      BY <1>1, <3>2, WrittenSame
    <3>4. dtp' = [d EXCEPT !.left = Tail(@), !.writing = TRUE]
      BY <1>4, <3>1, <3>2 DEF WriteBlock
    <3>. QED
      BY <3>3, <3>4 DEF DtpType
  <2>3. SameState
    BY <1>1, <2>1, <2>2, SameBut DEF SamePipe
  <2>. QED
    BY <1>1, <2>1, <2>3, Passes
<1>5. CASE WriteEnd
  <2>1. SamePipe
    BY <1>1, <1>5 DEF SamePipe, WriteEnd, Hungup, NetType
  <2>2. SameState
    <3>1. SameQueue
      BY <1>1, KeptQueue
    <3>2. dtp'.socket = (IF Usable THEN "unconnected" ELSE dtp.socket) /\ dtp'.listening = dtp.listening
      BY <1>1, <1>5 DEF WriteEnd, Shut, DtpType
    <3>. QED
      BY <1>1, <2>1, <3>1, <3>2 DEF SameState, SamePipe, Virgin, Online, DtpClosed, Usable
  <2>3. NoAbort /\ Text /\ Pipe /\ Modes /\ On(f) /\ Pairs(f, w)
    BY DEF Facing
  <2>4. ftp.timers = 1 => {"written", "socketConnectionClosed"} \subseteq Harmless
    BY DEF Harmless
  <2> DEFINE a == Do("socketConnectionClosed")
             b == Do("written")
  <2>5. a \in Frame /\ b \in Frame /\ a[1] = "socketConnectionClosed" /\ b[1] = "written"
    BY FrameTypes DEF Plain, Do, Call
  <2> HIDE DEF a, b
  <2>6. CASE ~Usable
    <3>1. Then(<<b>>)
      BY <1>5, <2>6, <2>5, Joined DEF WriteEnd, b
    <3>2. /\ Shape(calls, b, w)' /\ Tags' = {b[1]} \cup Names(w)
          /\ \A name : In(name)' <=> b[1] = name
      BY <1>1, <2>5, <3>1, OneCalled, Orders DEF Attached
    <3>3. SameTags
      BY <1>1, <2>4, <2>5, <3>2, NextTags
    <3>4. Online' <=> Online
      BY <2>2, <2>3, <3>3, Steady
    <3>5. On(b)' /\ Pairs(b, w)'
      BY <1>1, <2>3, <2>5, <3>4 DEF On, Pairs, Replying, Reading
    <3>. QED
      BY <2>2, <3>2, <3>3, <3>5, Calls
  <2>7. CASE Usable
    <3>a. <<a>> \o <<b>> = <<a, b>>
      BY <2>5, Joined
    <3>b. Then(<<a, b>>)
      BY <1>5, <2>7, <3>a DEF WriteEnd, a, b, Disconnected
    <3>c. dtp'.socket = "unconnected"
      BY <1>1, <1>5, <2>7 DEF WriteEnd, Shut, DtpType
    <3>1. Then(<<a, b>>) /\ dtp'.socket = "unconnected"
      BY <3>b, <3>c
    <3>2. /\ Shape(calls, a, {b} \cup w)' /\ Tags' = {a[1], b[1]} \cup Names(w)
          /\ \A name : In(name)' <=> a[1] = name
          /\ Names({b} \cup w) = {b[1]} \cup Names(w)
      <4>1. b[1] \notin Attached /\ Adjacent(a, b)
        BY <2>5 DEF Attached, Adjacent
      <4>2. Names(w) \subseteq Beneath(b[1])
        BY <1>1, <2>5, Orders
      <4>a. "socketConnectionClosed" \notin Names(w)
        <5>1. \A g \in w : g[1] = "socketConnectionClosed" => DtpClosed
          BY DEF Facing, Under
        <5>. QED
          BY <2>7, <5>1, NamesOf DEF DtpClosed, Usable
      <4>3. Names(w) \cup {b[1]} \subseteq Drained
        BY <1>1, <2>5, <4>a DEF Drained, Starting, Reacting, Replying, Reading
      <4>4. Names(w) \cup {b[1]} \subseteq Beneath(a[1])
        BY <2>5, <4>3, Orders
      <4>. QED
        BY <1>1, <2>5, <3>1, <4>1, <4>2, <4>4, TwoCalled
    <3>3. SameTags
      <4>1. Tags' = {a[1], b[1]} \cup Names(w) /\ {a[1], b[1]} \subseteq Harmless
        BY <2>5, <3>2 DEF Harmless
      <4>. QED
        BY <1>1, <2>5, <4>1, NextTags
    <3>4. (Online' <=> Online) /\ (Ended' <=> Ended)
      BY <2>2, <2>3, <3>3, Steady
    <3>5. On(a)' /\ Under(b)'
      BY <1>1, <2>3, <2>5, <3>1, <3>4 DEF On, Under, DtpClosed
    <3>6. Pairs(a, {b} \cup w)'
      BY <1>1, <2>3, <2>5, <3>2, <3>4 DEF Pairs, Replying, Reading
    <3>. QED
      BY <2>2, <3>2, <3>3, <3>5, <3>6, Calls
  <2>. QED
    BY <2>6, <2>7
<1>. QED
  BY <1>2, <1>3, <1>4, <1>5 DEF WriteData

LEMMA ConnectionClosedCore ==
  ASSUME NEW f, NEW w, Facing(f, w), SocketConnectionClosed, UNCHANGED <<lines, ftp>>
  PROVE  Core'
<1>1. /\ f[1] = "socketConnectionClosed" /\ Tags = {f[1]} \cup Names(w)
      /\ Names(w) \subseteq Drained
      /\ dtp \in DtpType /\ UNCHANGED <<net, pi, lines, ftp>>
  BY Base, Orders DEF SocketConnectionClosed
<1>2. SameState
  BY <1>1, SameBut DEF SamePipe, SocketConnectionClosed, ClearData, DtpType
<1>3. NoAbort /\ Text /\ Pipe /\ Modes /\ On(f) /\ Pairs(f, w)
  BY DEF Facing
<1> DEFINE a == DtpState("CsClosed")
<1>4. a \in Frame /\ a[1] = "dtpConnectState" /\ a[2] = "CsClosed"
  BY FrameTypes DEF DtpState, Call
<1>5. Then(<<a>>)
  BY DEF SocketConnectionClosed
<1> HIDE DEF a
<1>6. Shape(calls, a, w)' /\ Tags' = {a[1]} \cup Names(w)
  BY <1>1, <1>4, <1>5, OneCalled, Orders DEF Attached
<1>7. SameTags
  BY <1>1, <1>4, <1>6, NextTags DEF Harmless
<1>8. (Online' <=> Online) /\ (Ended' <=> Ended)
  BY <1>2, <1>3, <1>7, Steady
<1>9. On(a)'
  BY <1>1, <1>2, <1>3, <1>4, <1>8 DEF On, Under, OnDtpState, SameState
<1>10. Pairs(a, w)'
  BY <1>1, <1>2, <1>3, <1>4, <1>8 DEF Pairs, SameState
<1>. QED
  BY <1>2, <1>6, <1>7, <1>9, <1>10, Calls

LEMMA ReadyReadCore ==
  ASSUME NEW f, NEW w, Facing(f, w), SocketReadyRead, UNCHANGED <<lines, ftp>>
  PROVE  Core'
<1>1. /\ f[1] = "socketReadyRead" /\ Tags = {f[1]} \cup Names(w)
      /\ Names(w) = {} /\ \A name : In(name) <=> f[1] = name
      /\ dtp \in DtpType /\ net \in NetType /\ UNCHANGED <<pi, lines, ftp>>
  BY Base, Orders DEF SocketReadyRead
<1>2. NoAbort /\ Text /\ Pipe /\ Modes /\ On(f) /\ Pairs(f, w)
  BY DEF Facing
<1>3. w = {}
  BY <1>1, NamesOf
<1>4. CASE pi.cmd = NoLine
  <2>1. dtp.socket = "connected"
    BY <1>1, <1>2 DEF On
  <2>2. dtp'.socket = "unconnected" /\ SamePipe
    BY <1>1, <1>4, ZenonT(40) DEF SocketReadyRead, Shut, Hungup, DtpType, NetType, SamePipe
  <2>3. SameState
    <3>1. SameQueue
      BY <1>1, KeptQueue
    <3>. QED
      BY <1>1, <2>1, <2>2, <3>1 DEF SameState, Virgin, Online, DtpClosed
  <2> DEFINE a == Do("socketConnectionClosed")
             b == DtpState("CsClosed")
  <2>4. a \in Frame /\ b \in Frame /\ a[1] = "socketConnectionClosed" /\ b[1] = "dtpConnectState" /\ b[2] = "CsClosed"
    BY FrameTypes DEF Plain, Do, DtpState, Call
  <2>5. Then(<<a, b>>)
    <3>1. <<a>> \o <<b>> = <<a, b>>
      BY <2>4, Joined
    <3>. QED
      BY <1>4, <3>1 DEF SocketReadyRead, Disconnected
  <2> HIDE DEF a, b
  <2>6. /\ Shape(calls, a, {b} \cup w)' /\ Tags' = {a[1], b[1]} \cup Names(w)
        /\ Names({b} \cup w) = {b[1]} \cup Names(w)
    <3>1. b[1] \notin Attached /\ Adjacent(a, b)
      BY <2>4 DEF Attached, Adjacent
    <3>2. Names(w) \cup {b[1]} \subseteq Beneath(a[1])
      BY <1>1, <2>4, Orders DEF Drained
    <3>. QED
      BY <1>1, <2>4, <2>5, <3>1, <3>2, TwoCalled
  <2>7. SameTags
    <3>1. Tags' = {a[1], b[1]} \cup Names(w) /\ {a[1], b[1]} \subseteq Harmless
      BY <2>4, <2>6 DEF Harmless
    <3>. QED
      BY <1>1, <2>4, <3>1, NextTags
  <2>8. Ended' <=> Ended
    BY <1>2, <2>3, <2>7, Steady
  <2>9. ~pi.waitClose /\ lines = <<>>
    <3>1. ~Ended
      BY <1>2, <1>4, LineFacts DEF Ended, Pipe
    <3>2. ~Has("closed") /\ ~Has("processed")
      BY <1>1 DEF Has
    <3>. QED
      BY <1>1, <1>2, <3>1, <3>2 DEF Text
  <2>10. Under(b)'
    BY <1>1, <2>2, <2>4, <2>9 DEF Under, DtpClosed
  <2>11. On(a)'
    BY <1>1, <2>2, <2>4, <2>9 DEF On, Under, DtpClosed
  <2>12. Pairs(a, {b} \cup w)'
    BY <1>1, <2>4, <2>6 DEF Pairs
  <2>. QED
    BY <1>3, <2>3, <2>6, <2>7, <2>10, <2>11, <2>12, Calls
<1>5. CASE pi.cmd # NoLine
  <2>1. UNCHANGED net /\ dtp'.socket = dtp.socket /\ dtp'.listening = dtp.listening
    BY <1>1, <1>5 DEF SocketReadyRead, DtpType
  <2>2. SameState
    BY <1>1, <2>1, SameBut DEF SamePipe
  <2>3. CASE Then(<<>>)
    BY <1>1, <2>2, <2>3, Passes
  <2>4. CASE Then(<<Signal("readyRead", 0)>>)
    <3> DEFINE a == Signal("readyRead", 0)
    <3>1. a \in Frame /\ a[1] = "slot" /\ a[2].signal = "readyRead"
      BY FrameTypes DEF Signals, Signal, Call
    <3> HIDE DEF a
    <3>2. Shape(calls, a, w)' /\ Tags' = {a[1]} \cup Names(w) /\ Waiting' = w
      BY <1>1, <2>4, <3>1, OneCalled DEF Attached, a
    <3>3. SameTags
      BY <1>1, <3>1, <3>2, NextTags DEF Harmless
    <3>4. On(a)' /\ Pairs(a, w)'
      BY <1>1, <1>3, <3>1, <3>2 DEF On, OnSlot, Pairs
    <3>. QED
      BY <2>2, <3>2, <3>3, <3>4, Calls
  <2>. QED
    BY <1>5, <2>3, <2>4 DEF SocketReadyRead
<1>. QED
  BY <1>4, <1>5

LEMMA Nested ==
  /\ Reading \subseteq Replying /\ Replying \subseteq Reacting /\ Reacting \subseteq Starting
  /\ Starting \subseteq Drained /\ "processed" \in Replying /\ {"replied", "react"} \subseteq Reacting
  /\ {"failed", "clearError", "startNextCmd"} \subseteq Starting
  /\ {"commandFailed", "cleared", "dtpConnectToHost", "dtpConnectState"} \subseteq Drained
BY DEF Drained, Starting, Reacting, Replying

LEMMA DtpConnectToHostCore ==
  ASSUME NEW f, NEW w, Facing(f, w), DtpConnectToHost, UNCHANGED <<lines, ftp>>
  PROVE  Core'
<1>1. /\ f[1] = "dtpConnectToHost" /\ Tags = {f[1]} \cup Names(w)
      /\ \A name : In(name) <=> f[1] = name
      /\ Names(w) \subseteq {"react"} \cup Replying
      /\ dtp \in DtpType /\ net \in NetType /\ UNCHANGED <<pi, lines, ftp>>
  BY Base, Orders DEF DtpConnectToHost
<1>2. NoAbort /\ Text /\ Pipe /\ Modes /\ On(f) /\ Pairs(f, w) /\ Shape(calls, f, w) /\ f \in Frame
      /\ \A g \in w : Under(g)
  BY DEF Facing
<1>3. pi.state = "Success" /\ pi.waitConnect /\ Running /\ ~pi.waitClose /\ SameQueue /\ ~Fresh
  <2>1. Under(f)
    BY <1>1, <1>2 DEF On
  <2>. QED
    BY <1>1, <2>1, KeptQueue, Phases DEF Under
<1>4. CASE Usable
  <2>1. dtp'.socket = "unconnected" /\ SamePipe
    BY <1>1, <1>4 DEF DtpConnectToHost, Shut, DtpType, NetType, SamePipe
  <2>2. SameState
    BY <1>1, <1>3, <1>4, <2>1 DEF SameState, Virgin, DtpClosed, Usable
  <2> DEFINE a == Do("socketConnectionClosed")
  <2>3. a \in Frame /\ a[1] = "socketConnectionClosed"
    BY FrameTypes DEF Plain, Do, Call
  <2>4. calls' = <<a>> \o calls
    BY <1>4 DEF DtpConnectToHost, Disconnected
  <2> HIDE DEF a
  <2>5. Names({f} \cup w) = {f[1]} \cup Names(w)
    BY NamesOf
  <2>6. Names({f} \cup w) \subseteq Beneath(a[1])
    <3>1. Names({f} \cup w) \subseteq Drained
      BY <1>1, <2>5, Nested
    <3>. QED
      BY <2>3, <3>1, Orders
  <2>7. Fits(a, {f} \cup w)
    BY <2>6 DEF Fits, Names
  <2>8. Shape(calls, a, {f} \cup w)'
    BY <1>1, <1>2, <2>3, <2>4, <2>7, PushedOn DEF Attached
  <2>9. Tags' = {a[1], f[1]} \cup Names(w)
    BY <2>5, <2>8, ShapePrime
  <2>10. SameTags
    <3>1. ftp.timers # 1
      BY <1>2, <1>3 DEF Modes
    <3>. QED
      BY <1>1, <2>3, <2>9, <3>1, NextTags
  <2>11. /\ (Online' <=> Online) /\ (Ended' <=> Ended) /\ \A g : Under(g) => Under(g)'
    BY <1>2, <2>2, <2>10, Steady
  <2>12. On(a)'
    BY <1>1, <1>3, <2>1, <2>3 DEF On, Under, DtpClosed
  <2>13. Under(f)'
    BY <1>1, <1>2, <2>11 DEF On
  <2>14. Pairs(a, {f} \cup w)'
    BY <1>1, <1>2, <2>3, <2>5, <2>11 DEF Pairs, Replying, Reading
  <2>. QED
    BY <2>2, <2>8, <2>10, <2>12, <2>13, <2>14, Calls
<1>5. CASE ~Usable
  <2>1. Then(<<>>) /\ SamePipe /\ dtp'.socket = "connecting"
    BY <1>1, <1>5 DEF DtpConnectToHost, DtpType, SamePipe
  <2>2. Pipe' /\ (Online' <=> Online) /\ Current' = Current
    BY <1>2, <2>1, KeptPipe
  <2>3. /\ Tags' = Names(w) /\ Waiting' \subseteq w /\ \A name : In(name)' => name \in Names(w)
    BY <2>1, PoppedTags DEF Facing
  <2>4. NoAbort' /\ Text'
    BY <1>1, <1>2, <1>3, <2>2, <2>3 DEF NoAbort, Text, Has
  <2>5. (Settled' <=> Settled) /\ (Looking' <=> Looking) /\ ~Connects /\ ~ftp.closeWait
    BY <1>1, <1>2, <1>3, <2>1 DEF Settled, Looking, SamePipe, Modes, Rested, Virgin
  <2>6. Modes'
    <3>1. ~Looking /\ ftp.timers # 1 /\ ~Over /\ (Empty' <=> Empty)
      BY <1>2, <1>3, <2>5, Phases DEF Modes, SameQueue
    <3>. QED
      BY <1>1, <1>2, <1>3, <2>1, <2>2, <2>3, <2>5, <3>1 DEF Modes, SameQueue, Has
  <2>7. \A g \in w : Under(g)'
    <3> SUFFICES ASSUME NEW g \in w PROVE Under(g)'
      OBVIOUS
    <3>1. Under(g) /\ g[1] \in {"react"} \cup Replying
      BY <1>1, <1>2, NamesOf
    <3>. QED
      BY <2>5, <3>1 DEF Under, Replying, Reading
  <2>8. "cleared" \notin Names(w) /\ ("react" \in Names(w) => Online')
    BY <1>1, <1>2, <2>2 DEF Replying, Reading, Pairs
  <2>9. Stack'
    BY <1>1, <2>1, <2>6, <2>7, <2>8, Resumed
  <2>. QED
    BY <2>2, <2>4, <2>6, <2>9 DEF Core
<1>. QED
  BY <1>4, <1>5

LEMMA AbortConnectionCore ==
  ASSUME NEW f, NEW w, Facing(f, w), AbortConnection, UNCHANGED <<lines, ftp>>
  PROVE  Core'
<1>1. /\ f[1] = "abortConnection" /\ Tags = {f[1]} \cup Names(w)
      /\ \A name : In(name) <=> f[1] = name
      /\ Names(w) \subseteq {"cleared", "commandFailed"} \cup Starting
      /\ dtp \in DtpType /\ net \in NetType /\ UNCHANGED <<pi, lines, ftp>>
  BY Base, Orders DEF AbortConnection
<1>2. NoAbort /\ Text /\ Pipe /\ Modes /\ On(f) /\ Pairs(f, w)
  BY DEF Facing
<1>3. dtp'.socket = (IF dtp.socket = "none" THEN "none" ELSE "unconnected") /\ dtp'.listening = dtp.listening
  <2>1. PICK d : d = [ClearData(dtp) EXCEPT !.writing = FALSE]
    OBVIOUS
  <2>2. d \in DtpType /\ d.socket = dtp.socket /\ d.listening = dtp.listening
    BY <1>1, <2>1 DEF ClearData, Nothing, DtpType
  <2>3. dtp' = IF dtp.socket = "none" THEN d ELSE Shut(d)
    BY <2>1 DEF AbortConnection
  <2>. QED
    BY <2>2, <2>3 DEF Shut, DtpType
<1>4. SamePipe
  BY <1>1 DEF AbortConnection, Hungup, NetType, SamePipe
<1>5. SameState /\ DtpClosed'
  <2>1. SameQueue
    BY <1>1, KeptQueue
  <2>. QED
    BY <1>1, <1>3, <1>4, <2>1 DEF SameState, SamePipe, Virgin, Online, DtpClosed
<1>6. CASE ~Usable
  <2>1. Then(<<>>)
    BY <1>6 DEF AbortConnection
  <2>. QED
    BY <1>1, <1>5, <2>1, Passes
<1>7. CASE Usable
  <2> DEFINE a == Do("socketConnectionClosed")
  <2>1. a \in Frame /\ a[1] = "socketConnectionClosed"
    BY FrameTypes DEF Plain, Do, Call
  <2>2. Then(<<a>>)
    BY <1>7 DEF AbortConnection, Disconnected
  <2> HIDE DEF a
  <2>3. Names(w) \subseteq Beneath(a[1])
    BY <1>1, <2>1, Orders DEF Drained
  <2>4. Shape(calls, a, w)' /\ Tags' = {a[1]} \cup Names(w)
    BY <1>1, <2>1, <2>2, <2>3, OneCalled DEF Attached
  <2>5. SameTags
    <3>1. ftp.timers # 1
      BY <1>1, <1>2 DEF Modes, Harmless
    <3>. QED
      BY <1>1, <2>1, <2>4, <3>1, NextTags
  <2>6. (Online' <=> Online) /\ (Ended' <=> Ended)
    BY <1>2, <1>5, <2>5, Steady
  <2>7. pi.waitClose => Ended
    BY <1>2, <1>7 DEF Text, DtpClosed, Usable
  <2>8. On(a)'
    BY <1>1, <1>5, <2>1, <2>6, <2>7 DEF On, Under
  <2>9. Pairs(a, w)'
    BY <1>1, <1>2, <1>5, <2>1, <2>6 DEF Pairs
  <2>. QED
    BY <1>5, <2>4, <2>5, <2>8, <2>9, Calls
<1>. QED
  BY <1>6, <1>7
LEMMA ClosedCore ==
  ASSUME NEW f, NEW w, Facing(f, w), DtpConnectionClosed, UNCHANGED ftp
  PROVE  Core'
<1>1. /\ f[1] = "closed" /\ Tags = {f[1]} \cup Names(w)
      /\ \A name : In(name) <=> f[1] = name
      /\ Names(w) \subseteq Drained
      /\ pi \in PiType /\ UNCHANGED <<net, dtp, lines, ftp>>
  BY Base, Orders DEF DtpConnectionClosed
<1>2. NoAbort /\ Text /\ Pipe /\ Modes /\ On(f) /\ Pairs(f, w)
  BY DEF Facing
<1>3. /\ pi'.waitClose = FALSE /\ pi'.state = pi.state /\ pi'.cmd = pi.cmd /\ pi'.pending = pi.pending
      /\ pi'.text = pi.text /\ pi'.code = pi.code /\ pi'.to = pi.to
      /\ pi'.waitConnect = pi.waitConnect /\ pi'.abort = pi.abort
  BY <1>1 DEF DtpConnectionClosed, PiType
<1>4. SameState
  <2>1. SameQueue
    BY <1>1, KeptQueue
  <2>. QED
    BY <1>1, <1>3, <2>1 DEF SameState, SamePipe, Virgin, Online, DtpClosed
<1> DEFINE a == Do("readyRead")
<1>5. a \in Frame /\ a[1] = "readyRead"
  BY FrameTypes DEF Plain, Do, Call
<1>6. Then(<<a>>)
  BY DEF DtpConnectionClosed
<1> HIDE DEF a
<1>7. Shape(calls, a, w)' /\ Tags' = {a[1]} \cup Names(w) /\ \A name : In(name)' <=> a[1] = name
  BY <1>1, <1>5, <1>6, OneCalled, Orders DEF Attached
<1>8. SameTags
  BY <1>1, <1>2, <1>3, <1>5, <1>7 DEF SameTags, Has, NoAbort, Modes, Harmless
<1>9. Online' <=> Online
  BY <1>2, <1>4, <1>8, Steady
<1>10. On(a)' /\ Pairs(a, w)'
  BY <1>1, <1>2, <1>4, <1>5, <1>9 DEF On, Pairs, SameState
<1>. QED
  BY <1>4, <1>7, <1>8, <1>10, Calls

-----------------------------------------------------------------------------
(* The steps that read rows.                                               *)

\* No greeting of the server is an answer to a transfer, to PASV or to a login.
PlainGreeting == Replies["greeting"] \cap {226, 227, 229, 230} = {}

LEMMA StreamIndex ==
  ASSUME NEW S, NEW s \in Seq(S), NEW t \in Seq(S), s # <<>>
  PROVE  /\ Len(s \o t) \in Nat /\ Len(s \o t) = 1 + Len(Tail(s) \o t) /\ (s \o t)[1] = Head(s)
         /\ \A k \in 1..Len(Tail(s) \o t) :
              k + 1 \in 2..Len(s \o t) /\ (Tail(s) \o t)[k] = (s \o t)[k + 1]
         /\ \A k \in 1..Len(Tail(s)) : k \in 1..Len(Tail(s) \o t) /\ (Tail(s) \o t)[k] = Tail(s)[k]
<1>1. PICK m \in Nat, n \in Nat : m = Len(s) /\ n = Len(t)
  BY LenProperties
<1>2. /\ m # 0 /\ Tail(s) \in Seq(S) /\ Len(Tail(s)) = m - 1 /\ Head(s) = s[1]
      /\ \A k \in 1..(m - 1) : Tail(s)[k] = s[k + 1]
  BY <1>1, HeadTailProperties, EmptySeq
<1>3. /\ Len(s \o t) = m + n
      /\ \A k \in 1..(m + n) : (s \o t)[k] = IF k <= m THEN s[k] ELSE t[k - m]
  BY <1>1, ConcatProperties
<1> DEFINE r == Tail(s)
<1> HIDE DEF r
<1>4. /\ Len(r \o t) = (m - 1) + n
      /\ \A k \in 1..((m - 1) + n) : (r \o t)[k] = IF k <= m - 1 THEN r[k] ELSE t[k - (m - 1)]
  BY <1>1, <1>2, ConcatProperties DEF r
<1>5. ASSUME NEW k \in 1..((m - 1) + n) PROVE k + 1 \in 2..(m + n) /\ (r \o t)[k] = (s \o t)[k + 1]
  <2>1. k + 1 \in 1..(m + n)
    BY <1>1, <1>2
  <2>2. ASSUME k <= m - 1 PROVE (r \o t)[k] = (s \o t)[k + 1]
    BY <1>1, <1>2, <1>3, <1>4, <2>1, <2>2 DEF r
  <2>3. ASSUME k > m - 1 PROVE (r \o t)[k] = (s \o t)[k + 1]
    <3>1. k - (m - 1) = (k + 1) - m /\ ~(k + 1 <= m) /\ ~(k <= m - 1)
      BY <1>1, <1>2, <2>3
    <3>. QED
      BY <1>3, <1>4, <2>1, <3>1
  <2>4. (r \o t)[k] = (s \o t)[k + 1]
    <3>1. m \in Nat /\ k \in Int
      OBVIOUS
    <3>2. k <= m - 1 \/ k > m - 1
      BY <3>1
    <3>. QED
      BY <2>2, <2>3, <3>2
  <2>5. k + 1 \in 2..(m + n)
    BY <2>1
  <2>. QED
    BY <2>4, <2>5
<1>6. \A k \in 1..(m - 1) : k \in 1..((m - 1) + n) /\ (r \o t)[k] = r[k]
  BY <1>1, <1>2, <1>4
<1>. QED
  BY <1>1, <1>2, <1>3, <1>4, <1>5, <1>6 DEF r

\* The first of the rows, and those behind it.
LEMMA FirstRow ==
  ASSUME Pipe, lines \in Seq(RowType), net \in NetType, pi \in PiType, lines # <<>>,
         lines' = Tail(lines), UNCHANGED net, pi'.state = pi.state, pi'.cmd = pi.cmd
  PROVE  /\ Pipe' /\ Current' = Current /\ Online /\ pi.state \in {"Waiting", "Begin"} /\ net.up = <<>>
         /\ Head(lines) \in RowType /\ Head(lines).to = Current /\ Head(lines).code \in Codes(Current)
         /\ Head(lines).last => /\ lines' # <<>> => Prelim(Head(lines).code)
                                /\ \A k \in 1..Len(lines') : ~Prelim(lines'[k].code)
                                /\ ~Prelim(Head(lines).code) => Silent'
<1> DEFINE R == RowType
           r == Tail(lines)
           s == lines \o net.down
           t == r \o net.down
<1>0. lines \in Seq(R) /\ net.down \in Seq(R) /\ r \in Seq(R)
  BY HeadTailProperties DEF NetType
<1> HIDE DEF R
<1>1. /\ Len(s) \in Nat /\ Len(s) = 1 + Len(t) /\ s[1] = Head(lines)
      /\ \A k \in 1..Len(t) : k + 1 \in 2..Len(s) /\ t[k] = s[k + 1]
      /\ \A k \in 1..Len(r) : k \in 1..Len(t) /\ t[k] = r[k]
  BY <1>0, StreamIndex
<1>2. Head(lines) \in R
  BY <1>0, HeadTailProperties
<1>3. t \in Seq(R) /\ (r # <<>> => Len(r) \in Nat \ {0}) /\ (net.down # <<>> => t # <<>>)
      /\ Len(t) \in Nat /\ (t # <<>> => Len(t) # 0)
  <2>1. t \in Seq(R) /\ Len(t) = Len(r) + Len(net.down)
    BY <1>0, ConcatProperties
  <2>2. Len(r) \in Nat /\ Len(net.down) \in Nat /\ (r # <<>> => Len(r) # 0)
        /\ (net.down # <<>> => Len(net.down) # 0) /\ (t # <<>> => Len(t) # 0) /\ (Len(t) # 0 => t # <<>>)
    BY <1>0, <2>1, EmptySeq, LenProperties
  <2>. QED
    BY <2>1, <2>2
<1> HIDE DEF r, s, t
<1>4. Stream = s /\ Stream' = t /\ lines' = r /\ s # <<>> /\ 1 \in 1..Len(s)
  <2>1. Len(s) # 0
    BY <1>1, <1>3
  <2>2. s # <<>>
    BY <2>1, EmptySeq
  <2>. QED
    BY <1>1, <2>1, <2>2 DEF Stream, r, s, t
<1>5. /\ \A k \in 1..Len(s) : s[k].to = Current /\ s[k].code \in Codes(Current)
      /\ \A i, j \in 1..Len(s) : i < j /\ s[i].last => Prelim(s[i].code) /\ ~Prelim(s[j].code)
      /\ net.transfer # NoLine => /\ net.transfer = Current /\ Current.verb \in Transfers
                                  /\ \A k \in 1..Len(s) : Prelim(s[k].code)
      /\ net.up = <<>> /\ (net.bye => net.transfer = NoLine)
  BY <1>4 DEF Pipe
<1>6. Online /\ pi.state \in {"Waiting", "Begin"}
  BY DEF Pipe, Silent
<1>7. Current' = Current /\ (Online' <=> Online)
  BY DEF Current, Online
<1>8. \A k \in 1..Len(t) : k + 1 \in 1..Len(s) /\ 1 < k + 1 /\ t[k] = s[k + 1]
  BY <1>1, <1>3
<1>9. \A k \in 1..Len(t) : t[k].to = Current /\ t[k].code \in Codes(Current)
  BY <1>5, <1>8
<1>10. \A i, j \in 1..Len(t) : i < j /\ t[i].last => Prelim(t[i].code) /\ ~Prelim(t[j].code)
  <2> SUFFICES ASSUME NEW i \in 1..Len(t), NEW j \in 1..Len(t), i < j, t[i].last
               PROVE  Prelim(t[i].code) /\ ~Prelim(t[j].code)
    OBVIOUS
  <2>1. i + 1 < j + 1
    BY <1>3
  <2>. QED
    BY <1>5, <1>8, <2>1
<1>11. net.transfer # NoLine => \A k \in 1..Len(t) : Prelim(t[k].code)
  BY <1>5, <1>8
<1>12. Pipe'
  <2>1. net'.up = <<>> /\ (pi'.state = "Waiting" => pi'.cmd.verb \in Verbs) /\ Online'
    BY <1>5, <1>6, <1>7 DEF Pipe
  <2>. QED
    BY <1>4, <1>5, <1>6, <1>7, <1>9, <1>10, <1>11, <2>1 DEF Pipe
<1>13. Head(lines).last => /\ r # <<>> => Prelim(Head(lines).code)
                           /\ \A k \in 1..Len(r) : ~Prelim(r[k].code)
                           /\ ~Prelim(Head(lines).code) => Silent'
  <2> SUFFICES ASSUME s[1].last
               PROVE  /\ r # <<>> => Prelim(s[1].code)
                      /\ \A k \in 1..Len(r) : ~Prelim(r[k].code)
                      /\ ~Prelim(s[1].code) => Silent'
    BY <1>1
  <2>1. \A k \in 1..Len(t) : Prelim(s[1].code) /\ ~Prelim(t[k].code)
    BY <1>4, <1>5, <1>8
  <2>2. r # <<>> => Prelim(s[1].code)
    BY <1>1, <1>3, <2>1
  <2>3. t # <<>> => Prelim(s[1].code)
    BY <1>3, <2>1
  <2>4. net.transfer # NoLine => Prelim(s[1].code)
    BY <1>4, <1>5
  <2>5. ~Prelim(s[1].code) => Silent'
    BY <1>3, <1>4, <1>5, <2>2, <2>3, <2>4 DEF Silent
  <2>. QED
    BY <1>1, <2>1, <2>2, <2>5
<1>. QED
  BY <1>1, <1>2, <1>4, <1>5, <1>6, <1>7, <1>12, <1>13 DEF R

LEMMA ReadyReadLoopCore ==
  ASSUME NEW f, NEW w, Facing(f, w), ReadyRead, UNCHANGED ftp
  PROVE  Core'
<1>1. /\ f[1] = "readyRead" /\ Names(w) \subseteq Drained /\ UNCHANGED <<net, dtp, pi, lines, ftp>>
  BY Base, Orders DEF ReadyRead
<1>2. Text /\ Pairs(f, w) /\ NoAbort /\ Pipe /\ Modes
  BY DEF Facing
<1>3. SameState
  BY <1>1, SameBut DEF SamePipe
<1>4. CASE pi.waitClose
  <2>1. Then(<<>>)
    BY <1>4 DEF ReadyRead
  <2>. QED
    BY <1>1, <1>3, <1>4, <2>1, Passes
<1>5. CASE ~pi.waitClose
  <2> DEFINE a == Do("readLines")
  <2>1. a \in Frame /\ a[1] = "readLines"
    BY FrameTypes DEF Plain, Do, Call
  <2>2. Then(<<a>>)
    BY <1>5 DEF ReadyRead
  <2> HIDE DEF a
  <2>3. Shape(calls, a, w)' /\ Tags' = {a[1]} \cup Names(w) /\ \A name : In(name)' <=> a[1] = name
    BY <1>1, <2>1, <2>2, OneCalled, Orders DEF Attached
  <2>4. SameTags
    BY <1>1, <2>1, <2>3, NextTags DEF Harmless
  <2>5. Online' <=> Online
    BY <1>2, <1>3, <2>4, Steady
  <2>6. On(a)' /\ Pairs(a, w)'
    BY <1>1, <1>2, <1>3, <2>1, <2>5 DEF On, Pairs, SameState
  <2>. QED
    BY <1>3, <2>3, <2>4, <2>6, Calls
<1>. QED
  BY <1>4, <1>5

\* The text of a reply that was processed is dropped.
LEMMA ProcessedCore ==
  ASSUME NEW f, NEW w, Facing(f, w), Processed, UNCHANGED ftp
  PROVE  Core'
<1>1. /\ f[1] = "processed" /\ Tags = {f[1]} \cup Names(w) /\ Then(<<>>)
      /\ \A name : In(name) <=> f[1] = name
      /\ Names(w) \subseteq Reading
      /\ pi \in PiType /\ UNCHANGED <<net, dtp, lines, ftp>>
  BY Base, Orders DEF Processed
<1>2. NoAbort /\ Text /\ Pipe /\ Modes /\ Pairs(f, w) /\ \A g \in w : Under(g)
  BY DEF Facing
<1>3. /\ pi'.text = FALSE /\ pi'.state = pi.state /\ pi'.cmd = pi.cmd /\ pi'.pending = pi.pending
      /\ pi'.waitClose = pi.waitClose /\ pi'.waitConnect = pi.waitConnect /\ pi'.abort = pi.abort
  BY <1>1 DEF Processed, PiType
<1>4. Pipe' /\ (Online' <=> Online)
  BY <1>1, <1>2, <1>3, KeptPipe DEF SamePipe
<1>5. /\ Tags' = Names(w) /\ Waiting' \subseteq w /\ \A name : In(name)' => name \in Names(w)
  BY <1>1, PoppedTags DEF Facing
<1>6. In("closed")' \/ In("readLines")'
  <2>1. PICK h \in w, v \in SUBSET w : Shape(calls, h, v)' /\ h[1] \in {"closed", "readLines"}
    BY <1>1, Popped DEF Facing, Attached
  <2>. QED
    BY <2>1, ShapePrime
<1>7. "processed" \in Tags /\ "processed" \notin Tags'
  BY <1>1, <1>5 DEF Reading
<1>8. NoAbort'
  BY <1>1, <1>2, <1>3, <1>5 DEF NoAbort, Has
<1>9. Text'
  <2>1. pi.waitClose => DtpClosed /\ "closed" \in Tags /\ lines = <<>>
    BY <1>2, <1>7 DEF Text, Ended, Has
  <2>2. pi'.waitClose => DtpClosed' /\ "closed" \in Tags' /\ lines' = <<>>
    BY <1>1, <1>3, <1>5, <2>1 DEF DtpClosed
  <2>. QED
    BY <1>3, <1>6, <1>7, <2>2 DEF Text, Has
<1>10. pi.state \notin {"Success", "Failure"} /\ ~Over /\ ftp.timers # 1
  BY <1>1, <1>2 DEF Modes, Has, Reading, Harmless
<1>11. Modes'
  <2>1. SameQueue /\ (Virgin => Virgin')
    BY <1>1, <1>3, <1>4, KeptQueue DEF Virgin
  <2>2. (Rested => Rested') /\ (Settled' <=> Settled) /\ (Looking' <=> Looking)
    BY <1>1, <1>3, <2>1 DEF Rested, Settled, Looking
  <2>. QED
    BY <1>1, <1>2, <1>3, <1>4, <1>5, <1>10, <2>1, <2>2 DEF Modes, SameQueue, Has
<1>12. \A g \in w : Under(g)'
  <2> SUFFICES ASSUME NEW g \in w PROVE Under(g)'
    OBVIOUS
  <2>1. g[1] \in Reading
    BY <1>1, NamesOf
  <2>. QED
    BY <2>1 DEF Under, Reading
<1>13. Stack'
  BY <1>1, <1>11, <1>12, Resumed DEF Reading
<1>. QED
  BY <1>4, <1>8, <1>9, <1>11, <1>13 DEF Core

\* A reply that may be processed now waits for nothing but the end of a loop.
LEMMA OnlyReading ==
  ASSUME NEW f, NEW w, Facing(f, w), Names(w) \subseteq Drained, ~Has("processed"),
         pi.state \in {"Waiting", "Begin"}, ~Virgin, lines # <<>> \/ pi.waitClose
  PROVE  Names(w) \subseteq Reading
<1>1. Tags = {f[1]} \cup Names(w)
  BY Base
<1>2. Pairs(f, w) /\ \A g \in w : Under(g)
  BY DEF Facing
<1>3. Names(w) \cap {"processed", "replied", "react"} = {}
  BY <1>1, <1>2 DEF Has, Pairs
<1>4. \A g \in w : g[1] \notin {"failed", "clearError", "startNextCmd", "commandFailed", "cleared",
                                "dtpConnectToHost", "dtpConnectState"}
  BY <1>2 DEF Under, Halted
<1>5. Names(w) \cap {"failed", "clearError", "startNextCmd", "commandFailed", "cleared",
                      "dtpConnectToHost", "dtpConnectState"} = {}
  BY <1>4, NamesOf
<1>. QED
  BY <1>3, <1>5 DEF Drained, Starting, Reacting, Replying

LEMMA ReadLinesCore ==
  ASSUME PlainGreeting, NEW f, NEW w, Facing(f, w), ReadLines, UNCHANGED ftp
  PROVE  Core'
<1>1. /\ f[1] = "readLines" /\ Tags = {f[1]} \cup Names(w)
      /\ \A name : In(name) <=> f[1] = name
      /\ Names(w) \subseteq Drained
      /\ pi \in PiType /\ net \in NetType /\ lines \in Seq(RowType) /\ UNCHANGED <<net, dtp, ftp>>
  BY Base, Orders DEF ReadLines
<1>2. NoAbort /\ Text /\ Pipe /\ Modes /\ Pairs(f, w) /\ \A g \in w : Under(g)
  BY DEF Facing
<1>3. CASE lines = <<>>
  <2>1. Then(<<>>) /\ pi' = pi /\ SameState
    BY <1>1, <1>3, SameBut DEF ReadLines, SamePipe
  <2>. QED
    BY <1>1, <1>3, <2>1, Passes
<1>4. CASE lines # <<>>
  <2> DEFINE row == Head(lines)
             code == IF pi.text THEN pi.code ELSE row.code
             to == IF pi.text THEN pi.to ELSE row.to
             last == row.last /\ row.code = code
             wait == last /\ EndsTransfer(code) /\ ~DtpClosed
  <2>1. /\ pi' = [pi EXCEPT !.text = TRUE, !.code = code, !.to = to, !.waitClose = @ \/ wait]
        /\ Then(IF last /\ ~wait THEN <<Do("processReply"), Do("processed"), Do("readLines")>>
                ELSE <<Do("readLines")>>)
        /\ lines' = Tail(lines)
    BY <1>4 DEF ReadLines, ReadRow
  <2> HIDE DEF code, to, last, wait
  <2>2. /\ pi'.state = pi.state /\ pi'.cmd = pi.cmd /\ pi'.pending = pi.pending /\ pi'.text = TRUE
        /\ pi'.code = code /\ pi'.to = to /\ (pi'.waitClose <=> pi.waitClose \/ wait)
        /\ pi'.waitConnect = pi.waitConnect /\ pi'.abort = pi.abort
    BY <1>1, <2>1 DEF PiType
  <2>3. /\ Pipe' /\ Current' = Current /\ Online /\ pi.state \in {"Waiting", "Begin"} /\ net.up = <<>>
        /\ row.to = Current /\ row.code \in Codes(Current)
        /\ row.last => /\ lines' # <<>> => Prelim(row.code)
                       /\ \A k \in 1..Len(lines') : ~Prelim(lines'[k].code)
                       /\ ~Prelim(row.code) => Silent'
    BY <1>1, <1>2, <1>4, <2>1, <2>2, FirstRow
  <2> HIDE DEF row
  <2>4. ~Virgin /\ ~Virgin' /\ Online'
    BY <1>1, <2>3 DEF Virgin, Online
  <2>5. ~pi.waitClose /\ SameQueue /\ (Settled' <=> Settled) /\ (Looking' <=> Looking)
    <3>1. SameQueue
      BY <1>1, KeptQueue
    <3>. QED
      BY <1>1, <1>2, <1>4, <3>1 DEF Text, Ended, Silent, Settled, Looking
  <2>6. Running /\ ~Fresh /\ ~Over /\ ~Rested /\ ~Rested' /\ ~ftp.closeWait /\ ftp.timers # 1
    <3>1. ~Rested /\ ~Rested'
      BY <2>2, <2>3, <2>4 DEF Rested
    <3>. QED
      BY <1>2, <3>1, Phases DEF Modes
  <2> DEFINE a == Do("processReply")
             b == Do("processed")
             c == Do("readLines")
  <2>7. /\ a \in Frame /\ b \in Frame /\ c \in Frame
        /\ a[1] = "processReply" /\ b[1] = "processed" /\ c[1] = "readLines"
    BY FrameTypes DEF Plain, Do, Call
  <2>8. CASE last /\ ~wait => Has("processed")
    \* The loop goes on.
    <3>a. Has("processed") => ~last /\ code = pi.code
      <4> SUFFICES ASSUME Has("processed") PROVE code = pi.code /\ ~last
        OBVIOUS
      <4>1. code = pi.code /\ Prelim(pi.code) /\ \A k \in 1..Len(lines) : ~Prelim(lines[k].code)
        BY <1>2, <1>4 DEF Text, code
      <4>2. 1 \in 1..Len(lines) /\ lines[1] = row
        BY <1>1, <1>4, EmptySeq DEF row
      <4>. QED
        BY <4>1, <4>2 DEF last
    <3>b. ~(last /\ ~wait)
      BY <2>8, <3>a
    <3>1. Then(<<c>>)
      BY <2>1, <3>b
    <3> HIDE DEF a, b, c
    <3>2. Shape(calls, c, w)' /\ Tags' = {c[1]} \cup Names(w) /\ \A name : In(name)' <=> c[1] = name
      BY <1>1, <2>7, <3>1, OneCalled, Orders DEF Attached
    <3>3. Tags' = Tags
      BY <1>1, <2>7, <3>2
    <3>4. NoAbort'
      BY <1>2, <2>2, <3>3 DEF NoAbort, Has
    <3>5. wait => Ended'
      <4> SUFFICES ASSUME wait PROVE Ended'
        OBVIOUS
      <4>1. row.last /\ row.code = code /\ EndsTransfer(code) /\ ~Has("processed")
        BY <3>a DEF wait, last
      <4>2. code \in {226, 250} /\ ~Prelim(code)
        BY <4>1 DEF EndsTransfer, Prelim, Class
      <4>3. Silent'
        BY <2>3, <4>1, <4>2
      <4>4. pi.state = "Waiting"
        <5> SUFFICES ASSUME pi.state = "Begin" PROVE FALSE
          BY <2>3
        <5>1. Connects
          BY <1>2, <2>4 DEF Modes
        <5>2. pi.cmd = NoLine /\ Current = Greeting
          BY <1>2, <5>1 DEF Modes, Current
        <5>3. code # 250
          <6> SUFFICES pi.cmd.verb # "RETR" /\ ~(code = 226 /\ code = 250)
            BY <4>1 DEF EndsTransfer
          <6>. QED
            BY <5>2 DEF NoLine, Line
        <5>4. code \in Replies["greeting"]
          BY <2>3, <4>1, <5>2 DEF Codes, Greeting, Line, Transfers
        <5>. QED
          BY <4>2, <5>3, <5>4 DEF PlainGreeting
      <4>5. to = pi.cmd
        <5>1. Current = pi.cmd
          BY <4>4 DEF Current
        <5>2. pi.text => pi.to = pi.cmd
          BY <1>2, <4>1, <5>1 DEF Text
        <5>. QED
          BY <2>3, <5>1, <5>2 DEF to
      <4>. QED
        BY <2>2, <3>3, <4>1, <4>2, <4>3, <4>4, <4>5 DEF Ended, Has
    <3>6. Text'
      <4>1. ~Has("processed") => to = Current /\ code \in Codes(Current)
        BY <1>2, <2>3 DEF Text, to, code
      <4>2. pi'.waitClose => Ended'
        BY <2>2, <2>5, <3>5
      <4>3. Has("processed") => \A k \in 1..Len(lines') : ~Prelim(lines'[k].code)
        <5> DEFINE R == RowType
        <5> HIDE DEF R
        <5>1. \A k \in 1..Len(Tail(lines)) : k + 1 \in 1..Len(lines) /\ Tail(lines)[k] = lines[k + 1]
          <6>1. lines \in Seq(R)
            BY <1>1 DEF R
          <6>2. PICK n \in Nat : n = Len(lines)
            BY <6>1, LenProperties
          <6>3. n # 0 /\ Len(Tail(lines)) = n - 1 /\ \A k \in 1..(n - 1) : Tail(lines)[k] = lines[k + 1]
            BY <1>4, <6>1, <6>2, HeadTailProperties, EmptySeq
          <6>. QED
            BY <6>2, <6>3
        <5>. QED
          BY <1>2, <1>4, <2>1, <5>1 DEF Text
      <4>4. Has("processed") => Prelim(pi.code)
        BY <1>2, <1>4 DEF Text
      <4>5. (Has("processed")' <=> Has("processed")) /\ In("readLines")'
        BY <2>7, <3>2, <3>3 DEF Has
      <4>6. ~Has("processed") => /\ pi'.state \in {"Waiting", "Begin"} /\ pi'.to = Current'
                                 /\ pi'.code \in Codes(Current') /\ net'.up = <<>>
        BY <1>1, <2>2, <2>3, <4>1
      <4>7. Codes(Current)' = Codes(Current')
        BY DEF Codes
      <4>8. Has("processed") => /\ pi'.text
                                /\ lines' # <<>> => /\ Prelim(pi'.code)
                                                   /\ \A k \in 1..Len(lines') : ~Prelim(lines'[k].code)
        BY <2>2, <3>a, <4>3, <4>4
      <4>. QED
        BY <4>2, <4>5, <4>6, <4>7, <4>8 DEF Text
    <3>7. Modes'
      BY <1>1, <1>2, <2>2, <2>3, <2>4, <2>5, <2>6, <2>7, <3>2, <3>3 DEF Modes, SameQueue, Has
    <3>8. \A g \in w : Under(g)'
      <4> SUFFICES ASSUME NEW g \in w PROVE Under(g)'
        OBVIOUS
      <4>1. g[1] \in Drained /\ Under(g)
        BY <1>1, <1>2, NamesOf
      <4>2. g[1] \notin {"failed", "clearError", "startNextCmd", "commandFailed", "cleared",
                         "dtpConnectToHost", "dtpConnectState"}
        BY <1>4, <2>3, <2>4, <4>1 DEF Under, Halted
      <4>. QED
        BY <2>5, <4>1, <4>2 DEF Under, Drained, Starting, Reacting, Replying, Reading
    <3>9. On(c)' /\ Pairs(c, w)'
      BY <1>1, <1>2, <2>4, <2>7 DEF On, Pairs, DtpClosed
    <3>10. Stack'
      BY <3>2, <3>8, <3>9, StackBy
    <3>. QED
      BY <2>3, <3>4, <3>6, <3>7, <3>10 DEF Core
  <2>9. CASE last /\ ~wait /\ ~Has("processed")
    <3>1. Names(w) \subseteq Reading
      BY <1>1, <1>4, <2>3, <2>4, <2>9, OnlyReading
    <3>2. Then(<<a, b, c>>)
      BY <2>1, <2>9
    <3> HIDE DEF a, b, c
    <3>3. /\ Shape(calls, a, {b} \cup ({c} \cup w))' /\ Tags' = {a[1], b[1], c[1]} \cup Names(w)
          /\ Waiting' = {b} \cup ({c} \cup w) /\ \A name : In(name)' <=> a[1] = name
          /\ Names({b} \cup ({c} \cup w)) = {b[1], c[1]} \cup Names(w)
      <4>1. c[1] \notin Attached /\ Adjacent(a, b) /\ Adjacent(b, c)
        BY <2>7 DEF Attached, Adjacent
      <4>2. Names(w) \cup {c[1]} \subseteq Reading /\ Names(w) \cup {b[1], c[1]} \subseteq Replying
        BY <2>7, <3>1 DEF Reading, Replying
      <4>3. Names(w) \subseteq Beneath(c[1])
        BY <1>1, <2>7, Orders
      <4>4. Names(w) \cup {c[1]} \subseteq Beneath(b[1]) /\ Names(w) \cup {b[1], c[1]} \subseteq Beneath(a[1])
        BY <2>7, <4>2, Orders
      <4>. QED
        BY <1>1, <2>7, <3>2, <4>1, <4>3, <4>4, ThreeCalled
    <3>4. row.last /\ row.code = code /\ to = Current /\ code \in Codes(Current)
      BY <1>2, <2>3, <2>9 DEF Text, to, last
    <3>5. ~wait /\ ~pi'.waitClose
      BY <2>2, <2>5, <2>9
    <3>6. NoAbort'
      BY <1>2, <2>2, <2>7, <3>1, <3>3 DEF NoAbort, Has, Reading
    <3>7. Text'
      BY <2>2, <2>3, <2>7, <3>3, <3>4, <3>5 DEF Text, Has
    <3>8. Modes'
      BY <1>1, <1>2, <2>2, <2>3, <2>4, <2>5, <2>6 DEF Modes, SameQueue
    <3>9. \A g \in {b} \cup ({c} \cup w) : Under(g)'
      <4> SUFFICES ASSUME NEW g, g[1] \in Replying PROVE Under(g)'
        BY <2>7, <3>1, NamesOf DEF Replying, Reading
      <4>. QED
        BY DEF Under, Replying, Reading
    <3>10. On(a)'
      <4>1. ~Prelim(code) => Silent'
        BY <2>3, <3>4
      <4>2. OnReply'
        BY <2>2, <2>3, <2>4, <3>4, <3>5, <4>1 DEF OnReply
      <4>. QED
        BY <2>7, <4>2 DEF On
    <3>11. Pairs(a, {b} \cup ({c} \cup w))'
      BY <2>7, <3>1, <3>3 DEF Pairs, Reading
    <3>12. Stack'
      BY <3>3, <3>9, <3>10, <3>11, StackBy
    <3>. QED
      BY <2>3, <3>6, <3>7, <3>8, <3>12 DEF Core
  <2>. QED
    BY <2>8, <2>9
<1>. QED
  BY <1>3, <1>4

LEMMA DtpConnectStateCore ==
  ASSUME NEW f, NEW w, Facing(f, w), DtpConnectState, UNCHANGED ftp
  PROVE  Core'
<1>1. /\ f[1] = "dtpConnectState" /\ Tags = {f[1]} \cup Names(w) /\ Arg = f[2] /\ Waiting = w
      /\ \A name : In(name) <=> f[1] = name
      /\ Names(w) \subseteq Drained
      /\ pi \in PiType /\ UNCHANGED <<net, dtp, lines, ftp>>
  BY Base, Orders DEF DtpConnectState
<1>2. NoAbort /\ Text /\ Pipe /\ Modes /\ On(f) /\ Pairs(f, w) /\ \A g \in w : Under(g)
  BY DEF Facing
<1>3. OnDtpState(f[2]) /\ SameQueue
  BY <1>1, <1>2, KeptQueue DEF On
\* The reply that waited for the data connection is processed.
<1>4. CASE f[2] = "CsClosed" /\ pi.waitClose
  <2>1. DtpClosed /\ Ended
    BY <1>3, <1>4 DEF OnDtpState
  <2> DEFINE a == Do("processReply")
             b == Do("processed")
             c == Do("closed")
  <2>2. /\ a \in Frame /\ b \in Frame /\ c \in Frame
        /\ a[1] = "processReply" /\ b[1] = "processed" /\ c[1] = "closed"
    BY FrameTypes DEF Plain, Do, Call
  <2>3. Then(<<a, b, c>>) /\ pi' = pi
    BY <1>1, <1>4, <2>1 DEF DtpConnectState
  <2> HIDE DEF a, b, c
  <2>4. SamePipe /\ SameState
    BY <1>1, <2>3, SameBut DEF SamePipe
  <2>5. Pipe' /\ (Silent' <=> Silent) /\ Current' = Current /\ (Online' <=> Online)
    BY <1>2, <2>4, KeptPipe
  <2>6. pi.state = "Waiting" /\ ~Has("processed") /\ Silent /\ ~Virgin
    BY <2>1 DEF Ended, Virgin
  <2>7. Names(w) \subseteq Reading
    BY <1>1, <1>4, <2>6, OnlyReading
  <2>8. /\ Shape(calls, a, {b} \cup ({c} \cup w))' /\ Tags' = {a[1], b[1], c[1]} \cup Names(w)
        /\ Waiting' = {b} \cup ({c} \cup w) /\ \A name : In(name)' <=> a[1] = name
        /\ Names({b} \cup ({c} \cup w)) = {b[1], c[1]} \cup Names(w)
    <3>1. c[1] \notin Attached /\ Adjacent(a, b) /\ Adjacent(b, c)
      BY <2>2 DEF Attached, Adjacent
    <3>2. Names(w) \cup {c[1]} \subseteq Reading /\ Names(w) \cup {b[1], c[1]} \subseteq Replying
      BY <2>2, <2>7 DEF Reading, Replying
    <3>3. Names(w) \subseteq Beneath(c[1])
      BY <1>1, <2>2, Orders
    <3>4. Names(w) \cup {c[1]} \subseteq Beneath(b[1]) /\ Names(w) \cup {b[1], c[1]} \subseteq Beneath(a[1])
      BY <2>2, <3>2, Orders
    <3>. QED
      BY <1>1, <2>2, <2>3, <3>1, <3>3, <3>4, ThreeCalled
  <2>9. NoAbort'
    BY <1>2, <2>2, <2>3, <2>7, <2>8 DEF NoAbort, Has, Reading
  <2>10. Text'
    <3>1. Has("processed")' /\ Has("closed")'
      BY <2>2, <2>8 DEF Has
    <3>2. lines' = <<>> /\ pi'.text /\ DtpClosed'
      BY <1>1, <2>1, <2>3 DEF Ended, Silent, DtpClosed
    <3>. QED
      BY <3>1, <3>2 DEF Text
  <2>11. Modes'
    <3>1. Running /\ ~Fresh /\ ~Over /\ ftp.timers # 1 /\ (Settled' <=> Settled) /\ (Looking' <=> Looking)
      BY <1>1, <1>2, <2>6, Phases DEF Modes, Rested, Settled, Looking
    <3>2. (Rested => Rested') /\ (Virgin => Virgin')
      BY <1>1, <2>3, <2>4 DEF SameState, Rested
    <3>. QED
      BY <1>1, <1>2, <1>3, <2>3, <2>5, <2>6, <3>1, <3>2 DEF Modes, SameQueue
  <2>12. \A g \in {b} \cup ({c} \cup w) : Under(g)'
    <3> SUFFICES ASSUME NEW g, g[1] \in Replying PROVE Under(g)'
      BY <2>2, <2>7, NamesOf DEF Replying, Reading
    <3>. QED
      BY DEF Under, Replying, Reading
  <2>13. On(a)'
    <3>1. Current = pi.cmd /\ pi.code \in Codes(Current) /\ Codes(Current)' = Codes(Current)
      BY <1>2, <2>1, <2>5, <2>6 DEF Text, Ended, Current, Codes
    <3>2. ~Virgin'
      BY <2>1, <2>3 DEF Ended, Virgin
    <3>3. OnReply'
      BY <2>1, <2>3, <2>5, <2>6, <3>1, <3>2 DEF OnReply, Ended
    <3>. QED
      BY <2>2, <3>3 DEF On
  <2>14. Pairs(a, {b} \cup ({c} \cup w))'
    BY <2>2, <2>7, <2>8 DEF Pairs, Reading
  <2>15. Stack'
    BY <2>8, <2>12, <2>13, <2>14, StackBy
  <2>. QED
    BY <2>5, <2>9, <2>10, <2>11, <2>15 DEF Core
<1>5. CASE f[2] = "CsClosed" /\ ~pi.waitClose
  <2> DEFINE a == Do("closed")
  <2>1. a \in Frame /\ a[1] = "closed"
    BY FrameTypes DEF Plain, Do, Call
  <2>2. Then(<<a>>) /\ pi' = pi
    BY <1>1, <1>5 DEF DtpConnectState
  <2> HIDE DEF a
  <2>3. SameState
    BY <1>1, <2>2, SameBut DEF SamePipe
  <2>4. Shape(calls, a, w)' /\ Tags' = {a[1]} \cup Names(w) /\ \A name : In(name)' <=> a[1] = name
    BY <1>1, <2>1, <2>2, OneCalled, Orders DEF Attached
  <2>5. SameTags
    BY <1>1, <2>1, <2>2, <2>4, NextTags DEF Harmless
  <2>6. Online' <=> Online
    BY <1>2, <2>3, <2>5, Steady
  <2>7. On(a)' /\ Pairs(a, w)'
    BY <1>1, <1>2, <2>1, <2>3, <2>6 DEF On, Pairs, SameState
  <2>. QED
    BY <2>3, <2>4, <2>5, <2>7, Calls
<1>6. ASSUME f[2] # "CsClosed"
      PROVE  /\ w = {} /\ Names(w) = {} /\ Running /\ pi.state = "Idle" /\ ~pi.waitClose
             /\ dtp.socket # "connecting" /\ Settled /\ ftp.timers # 1 /\ ~Fresh /\ ~Over
  BY <1>1, <1>2, <1>3, <1>6, Phases, NamesOf DEF OnDtpState, Modes
<1>7. CASE f[2] = "CsConnected"
  <2>1. pi' = [pi EXCEPT !.waitConnect = FALSE] /\ Then(<<StartNextCmdCall>>)
    BY <1>1, <1>7 DEF DtpConnectState
  <2>2. /\ pi'.state = pi.state /\ pi'.cmd = pi.cmd /\ pi'.pending = pi.pending /\ pi'.text = pi.text
        /\ pi'.code = pi.code /\ pi'.to = pi.to /\ pi'.waitClose = pi.waitClose /\ pi'.abort = pi.abort
    BY <1>1, <2>1 DEF PiType
  <2> DEFINE a == Do("startNextCmd")
  <2>3. a \in Frame /\ a[1] = "startNextCmd"
    BY FrameTypes DEF Plain, Do, Call
  <2>4. Then(<<a>>)
    BY <2>1 DEF StartNextCmdCall
  <2> HIDE DEF a
  <2>5. Shape(calls, a, w)' /\ Tags' = {a[1]} /\ \A name : In(name)' <=> a[1] = name
    BY <1>1, <1>6, <1>7, <2>3, <2>4, OneCalled DEF Attached
  <2>6. Pipe' /\ (Silent' <=> Silent) /\ Current' = Current /\ (Online' <=> Online)
    BY <1>1, <1>2, <2>2, KeptPipe DEF SamePipe
  <2>7. lines = <<>> /\ ~Has("processed") /\ ~pi.text
    BY <1>1, <1>2, <1>6, <1>7 DEF Text, Has
  <2>8. NoAbort' /\ Text'
    BY <1>1, <1>2, <1>6, <1>7, <2>2, <2>3, <2>5, <2>7 DEF NoAbort, Text, Has
  <2>9. (Settled' <=> Settled) /\ (Looking' <=> Looking) /\ (Rested => Rested')
    BY <1>1, <1>6, <1>7, <2>2 DEF Settled, Looking, Rested
  <2>10. Modes'
    BY <1>1, <1>2, <1>3, <1>6, <1>7, <2>2, <2>6, <2>9 DEF Modes, SameQueue
  <2>11. On(a)' /\ Pairs(a, w)'
    BY <1>6, <1>7, <2>2, <2>3, <2>9 DEF On, Under, Pairs
  <2>12. Stack'
    BY <1>6, <1>7, <2>5, <2>11, StackBy
  <2>. QED
    BY <2>6, <2>8, <2>10, <2>12 DEF Core
<1>8. CASE f[2] = "CsConnectionRefused"
  <2>1. pi' = pi /\ Then(<<PiError("ConnectionRefused"), StartNextCmdCall>>)
    BY <1>1, <1>8 DEF DtpConnectState
  <2> DEFINE a == PiError("ConnectionRefused")
             b == Do("startNextCmd")
  <2>2. a \in Frame /\ a[1] = "_q_piError" /\ b \in Frame /\ b[1] = "startNextCmd"
    BY FrameTypes DEF Plain, Do, Call, PiError
  <2>3. Then(<<a, b>>)
    BY <2>1 DEF StartNextCmdCall
  <2> HIDE DEF a, b
  <2>4. SameState
    BY <1>1, <2>1, SameBut DEF SamePipe
  <2>5. /\ Shape(calls, a, {b} \cup w)' /\ Tags' = {a[1], b[1]} \cup Names(w)
        /\ \A name : In(name)' <=> a[1] = name
        /\ Names({b} \cup w) = {b[1]} \cup Names(w)
    <3>1. b[1] \notin Attached /\ Adjacent(a, b)
      BY <2>2 DEF Attached, Adjacent
    <3>2. Names(w) \cup {b[1]} \subseteq Beneath(a[1])
      BY <1>6, <1>8, <2>2, Orders, Nested
    <3>. QED
      BY <1>1, <1>6, <1>8, <2>2, <2>3, <3>1, <3>2, TwoCalled
  <2>6. SameTags
    <3>1. Tags' = {a[1], b[1]} \cup Names(w)
      BY <2>5
    <3>. QED
      BY <1>1, <1>6, <1>8, <2>1, <2>2, <3>1, NextTags
  <2>7. Settled' <=> Settled
    BY <1>2, <2>4, <2>6, Steady
  <2>8. On(a)' /\ Under(b)'
    BY <1>3, <1>6, <1>8, <2>1, <2>2, <2>7 DEF On, Under, Halted, SameQueue
  <2>9. Pairs(a, {b} \cup w)'
    BY <1>6, <1>8, <2>2, <2>5 DEF Pairs
  <2>. QED
    BY <1>6, <1>8, <2>4, <2>5, <2>6, <2>8, <2>9, Calls
<1>. QED
  BY <1>1, <1>4, <1>5, <1>7, <1>8 DEF DtpConnectState

-----------------------------------------------------------------------------
(* The steps of processReply.                                              *)

\* SilentPipe of the state that a step leads to.
LEMMA SilentNext ==
  ASSUME Silent', pi'.state = "Waiting" => pi'.cmd.verb \in Verbs
  PROVE  Pipe'
<1>1. Stream' = <<>> /\ Len(Stream') = 0 /\ net'.up = <<>> /\ net'.transfer = NoLine
  BY EmptySeq DEF Silent, Stream
<1>2. \A k \in 1..Len(Stream') : FALSE
  BY <1>1
<1>. QED
  BY <1>1, <1>2 DEF Pipe

LEMMA TableOf ==
  ASSUME NEW code \in Nat
  PROVE  /\ Table(code) \in {"Failure", "Waiting", "Success", "Idle"}
         /\ Table(code) = "Waiting" <=> Prelim(code)
         /\ code \in {227, 229} => Table(code) = "Success"
         /\ code \in {226, 227, 229, 230, 250} => Class(code) = 2 /\ ~Prelim(code)
<1>1. Class(202) = 2 /\ \A c \in {226, 227, 229, 230, 250} : Class(c) = 2
  BY DEF Class
<1>. QED
  BY <1>1 DEF Table, Prelim

LEMMA ProcessReplyCore ==
  ASSUME PlainGreeting, NEW f, NEW w, Facing(f, w), ProcessReply, UNCHANGED ftp
  PROVE  Core'
<1>1. /\ f[1] = "processReply" /\ Tags = {f[1]} \cup Names(w) /\ \A name : In(name) <=> f[1] = name
      /\ Names(w) \subseteq Replying /\ pi \in PiType /\ pi.code \in Nat
      /\ UNCHANGED <<net, dtp, lines, ftp>>
  BY Base, Orders DEF ProcessReply, PiType
<1>2. NoAbort /\ Text /\ Pipe /\ Modes /\ On(f) /\ Pairs(f, w) /\ \A g \in w : Under(g)
  BY DEF Facing
<1>3. OnReply /\ SameQueue /\ "processed" \in Names(w) /\ pi.abort = "None" /\ ~Swallowed
  BY <1>1, <1>2, KeptQueue DEF On, Pairs, NoAbort, Swallowed
<1>4. pi.waitClose => DtpClosed /\ "closed" \in Names(w) /\ lines = <<>>
  BY <1>1, <1>2, <1>3 DEF Text, Ended, Has
<1>5. (Online' <=> Online) /\ (Silent' <=> Silent) /\ (DtpClosed' <=> DtpClosed) /\ (Looking' <=> Looking)
      /\ (Settled' <=> Settled)
  BY <1>1 DEF Online, Silent, DtpClosed, Looking, Settled
<1>a. Replied \in Frame /\ Replied[1] = "replied" /\ Replied[2] = pi.code
      /\ Do("react") \in Frame /\ Do("react")[1] = "react"
  BY <1>1, FrameTypes DEF Plain, Do, Call, Replied
<1>b. PICK b, c : b = Replied /\ c = Do("react")
  OBVIOUS
<1>6. b \in Frame /\ b[1] = "replied" /\ b[2] = pi.code /\ c \in Frame /\ c[1] = "react"
  BY <1>a, <1>b
<1>7. \A g \in w : Under(g)'
  <2> SUFFICES ASSUME NEW g, g[1] \in Replying PROVE Under(g)'
    BY <1>1, NamesOf
  <2>. QED
    BY DEF Under, Replying, Reading
<1>8. CASE pi.state = "Begin" /\ Class(pi.code) # 2 /\ Then(<<>>)
           /\ pi' = [pi EXCEPT !.abort = "None", !.state = "Begin"]
  <2>1. pi' = pi
    BY <1>1, <1>3, <1>8 DEF PiType
  <2>2. SameState
    BY <1>1, <2>1, SameBut DEF SamePipe
  <2>. QED
    BY <1>1, <1>8, <2>1, <2>2, Passes
\* The greeting ends the command that connects.
<1>9. CASE pi.state = "Begin" /\ Class(pi.code) = 2 /\ Then(<<PiFinished, Replied, Do("react")>>)
           /\ pi' = [pi EXCEPT !.abort = "None", !.state = "Idle"]
  <2>1. /\ pi'.state = "Idle" /\ pi'.cmd = pi.cmd /\ pi'.pending = pi.pending /\ pi'.text = pi.text
        /\ pi'.code = pi.code /\ pi'.to = pi.to /\ pi'.waitClose = pi.waitClose /\ pi'.abort = "None"
        /\ pi'.waitConnect = pi.waitConnect
    BY <1>1, <1>9 DEF PiType
  <2>2. Connects /\ ~Looking /\ Running /\ ~Fresh /\ ~Over /\ First.command = "ConnectToHost"
    BY <1>2, <1>3, <1>9, Phases DEF Modes, OnReply
  <2>3. Silent /\ Online /\ pi.text
    <3>1. ~Prelim(pi.code)
      BY <1>9 DEF Prelim
    <3>. QED
      BY <1>3, <1>9, <3>1 DEF OnReply
  <2>4. pi.code \notin {226, 227, 229, 230}
    <3>1. Codes(Current) = Replies["greeting"]
      BY <1>9 DEF Codes, Current, Greeting, Line, Transfers
    <3>. QED
      BY <1>3, <3>1 DEF OnReply, PlainGreeting
  <2>5. Rested' /\ Settled'
    BY <1>1, <1>2, <1>5, <2>1, <2>2 DEF Modes, Rested, Settled
  <2> DEFINE a == Do("_q_piFinished")
  <2>6. a \in Frame /\ a[1] = "_q_piFinished"
    BY FrameTypes DEF Plain, Do, Call
  <2>7. Then(<<a, b, c>>)
    BY <1>9, <1>b DEF PiFinished
  <2> HIDE DEF a
  <2>8. /\ Shape(calls, a, {b} \cup ({c} \cup w))' /\ Tags' = {a[1], b[1], c[1]} \cup Names(w)
        /\ \A name : In(name)' <=> a[1] = name
        /\ Names({b} \cup ({c} \cup w)) = {b[1], c[1]} \cup Names(w)
    <3>1. c[1] \notin Attached /\ Adjacent(a, b) /\ Adjacent(b, c)
      BY <1>6, <2>6 DEF Attached, Adjacent
    <3>2. Names(w) \cup {c[1]} \subseteq {"react"} \cup Replying
          /\ Names(w) \cup {b[1], c[1]} \subseteq Reacting
      BY <1>1, <1>6 DEF Reacting
    <3>3. Names(w) \subseteq Beneath(c[1])
      BY <1>1, <1>6, Orders
    <3>4. Names(w) \cup {c[1]} \subseteq Beneath(b[1]) /\ Names(w) \cup {b[1], c[1]} \subseteq Beneath(a[1])
      BY <1>6, <2>6, <3>2, Orders
    <3>. QED
      BY <1>1, <1>6, <2>6, <2>7, <3>1, <3>3, <3>4, ThreeCalled
  <2>9. NoAbort'
    BY <1>1, <1>6, <2>1, <2>6, <2>8 DEF NoAbort, Has, Replying, Reading
  <2>10. Pipe'
    BY <1>5, <2>1, <2>3, SilentNext
  <2>11. Text'
    <3>1. Has("processed")' /\ ("closed" \in Names(w) => Has("closed")')
      BY <1>3, <2>8 DEF Has
    <3>2. lines' = <<>> /\ pi'.text
      BY <1>1, <2>1, <2>3 DEF Silent
    <3>. QED
      BY <1>4, <1>5, <2>1, <3>1, <3>2 DEF Text
  <2>12. Modes'
    BY <1>1, <1>2, <1>3, <1>5, <2>1, <2>2, <2>3, <2>5 DEF Modes, SameQueue, Rested
  <2>13. On(a)'
    BY <1>3, <2>2, <2>5, <2>6 DEF On, SameQueue
  <2>14. Under(b)' /\ Under(c)'
    BY <1>6, <1>9, <2>4, <2>5 DEF Under
  <2>15. Pairs(a, {b} \cup ({c} \cup w))'
    BY <1>1, <1>3, <1>5, <1>6, <2>2, <2>3, <2>6, <2>8 DEF Pairs, SameQueue, Replying, Reading
  <2>16. Stack'
    BY <1>7, <2>8, <2>13, <2>14, <2>15, StackBy
  <2>. QED
    BY <2>9, <2>10, <2>11, <2>12, <2>16 DEF Core
\* An answer to the line that was sent.
<1>10. CASE pi.state = "Waiting" /\ Then(<<Replied, Do("react")>>)
            /\ pi' = [pi EXCEPT !.abort = "None", !.state = Table(pi.code)]
  <2>1. /\ pi'.state = Table(pi.code) /\ pi'.cmd = pi.cmd /\ pi'.pending = pi.pending /\ pi'.text = pi.text
        /\ pi'.code = pi.code /\ pi'.to = pi.to /\ pi'.waitClose = pi.waitClose /\ pi'.abort = "None"
        /\ pi'.waitConnect = pi.waitConnect
    BY <1>1, <1>10 DEF PiType
  <2>2. /\ Running /\ Settled /\ ~Connects /\ ~Fresh /\ ~Over /\ ~Looking /\ ftp.timers # 1
        /\ dtp.socket # "connecting" /\ ~ftp.closeWait
    BY <1>2, <1>10, Phases DEF Modes, Rested, Settled, Virgin
  <2>3. Then(<<b, c>>)
    BY <1>10, <1>b
  <2>4. /\ Shape(calls, b, {c} \cup w)' /\ Tags' = {b[1], c[1]} \cup Names(w)
        /\ \A name : In(name)' <=> b[1] = name
        /\ Names({c} \cup w) = {c[1]} \cup Names(w)
    <3>1. c[1] \notin Attached /\ Adjacent(b, c)
      BY <1>6 DEF Attached, Adjacent
    <3>2. Names(w) \subseteq Beneath(c[1])
      BY <1>1, <1>6, Orders
    <3>3. Names(w) \cup {c[1]} \subseteq {"react"} \cup Replying
      BY <1>1, <1>6
    <3>4. Names(w) \cup {c[1]} \subseteq Beneath(b[1])
      BY <1>6, <3>3, Orders
    <3>. QED
      BY <1>1, <1>6, <2>3, <3>1, <3>2, <3>4, TwoCalled
  <2>5. Table(pi.code) \in {"Failure", "Waiting", "Success", "Idle"} /\ (Table(pi.code) = "Waiting" <=> Prelim(pi.code))
    BY <1>1, TableOf
  <2>6. NoAbort'
    BY <1>1, <1>6, <2>1, <2>4 DEF NoAbort, Has, Replying, Reading
  <2>7. Pipe'
    <3>1. CASE Prelim(pi.code)
      BY <1>1, <1>2, <1>10, <2>1, <2>5, <3>1, KeptPipe DEF SamePipe
    <3>2. CASE ~Prelim(pi.code)
      BY <1>3, <1>5, <2>1, <2>5, <3>2, SilentNext DEF OnReply
    <3>. QED
      BY <3>1, <3>2
  <2>8. Text'
    <3>1. Has("processed")' /\ ("closed" \in Names(w) => Has("closed")') /\ Has("processed")
      BY <1>1, <1>3, <2>4 DEF Has
    <3>. QED
      BY <1>1, <1>2, <1>4, <1>5, <2>1, <3>1 DEF Text
  <2>9. Modes'
    <3>1. Has("react")'
      BY <1>6, <2>4 DEF Has
    <3>. QED
      BY <1>1, <1>2, <1>3, <1>5, <2>1, <2>2, <2>5, <3>1 DEF Modes, SameQueue
  <2>10. OnReplied(pi.code)'
    BY <1>1, <1>3, <1>5, <2>1, <2>2, TableOf DEF OnReplied, OnReply, SameQueue
  <2>11. On(b)' /\ Under(c)'
    BY <1>5, <1>6, <2>1, <2>2, <2>10 DEF On, Under, OnReplied
  <2>12. Pairs(b, {c} \cup w)'
    BY <1>1, <1>3, <1>5, <1>6, <2>4, SMTT(30) DEF Pairs, OnReply, Replying, Reading
  <2>13. Stack'
    BY <1>7, <2>4, <2>11, <2>12, StackBy
  <2>. QED
    BY <2>6, <2>7, <2>8, <2>9, <2>13 DEF Core
<1>11. pi.state \in {"Waiting", "Begin"}
  BY <1>3 DEF OnReply
<1>. QED
  BY <1>3, <1>8, <1>9, <1>10, <1>11 DEF ProcessReply

\* The special actions that a reply is told for.
LEMMA RepliedCore ==
  ASSUME NEW f, NEW w, Facing(f, w), QPiFtpReply
  PROVE  Core'
<1>1. /\ f[1] = "replied" /\ Arg = f[2] /\ Tags = {f[1]} \cup Names(w) /\ f[2] \in Nat
      /\ Names(w) \subseteq {"react"} \cup Replying /\ pi \in PiType /\ pi' \in PiType
      /\ UNCHANGED <<net, dtp, lines, ftp>>
  BY Base, Orders, FrameArgs DEF QPiFtpReply, Special, Facing
<1>2. NoAbort /\ Text /\ Pipe /\ Modes /\ On(f) /\ Pairs(f, w) /\ \A g \in w : Under(g)
  BY DEF Facing
<1>3. OnReplied(f[2]) /\ SameQueue /\ "processed" \in Names(w) /\ ftp.timers # 1
  <2>1. OnReplied(f[2]) /\ "processed" \in Names(w)
    BY <1>1, <1>2 DEF On, Pairs
  <2>2. "processed" \in Tags /\ "processed" \notin Harmless
    BY <1>1, <2>1 DEF Harmless
  <2>. QED
    BY <1>1, <1>2, <2>1, <2>2, KeptQueue DEF Modes
<1>4. CASE Then(<<>>) /\ UNCHANGED pi
  <2>1. SameState
    BY <1>1, <1>4, SameBut DEF SamePipe
  <2>. QED
    BY <1>1, <1>4, <2>1, Passes
\* PASV and EPSV: the data connection comes first.
<1>5. CASE f[2] \in {227, 229} /\ pi' = [pi EXCEPT !.waitConnect = TRUE] /\ Then(<<Do("dtpConnectToHost")>>)
  <2>1. /\ pi'.state = pi.state /\ pi'.cmd = pi.cmd /\ pi'.pending = pi.pending /\ pi'.text = pi.text
        /\ pi'.code = pi.code /\ pi'.to = pi.to /\ pi'.waitClose = pi.waitClose /\ pi'.abort = pi.abort
        /\ pi'.waitConnect
    BY <1>1, <1>5 DEF PiType
  <2>2. SameState
    BY <1>1, <1>3, <2>1 DEF SameState, SamePipe, Virgin, Online, DtpClosed
  <2> DEFINE a == Do("dtpConnectToHost")
  <2>3. a \in Frame /\ a[1] = "dtpConnectToHost"
    BY FrameTypes DEF Plain, Do, Call
  <2>4. Then(<<a>>)
    BY <1>5
  <2> HIDE DEF a
  <2>5. Shape(calls, a, w)' /\ Tags' = {a[1]} \cup Names(w) /\ \A name : In(name)' <=> a[1] = name
    BY <1>1, <2>3, <2>4, OneCalled, Orders DEF Attached
  <2>6. SameTags
    BY <1>1, <1>3, <2>1, <2>3, <2>5, NextTags
  <2>7. (Online' <=> Online) /\ (Settled' <=> Settled)
    BY <1>2, <2>2, <2>6, Steady
  <2>8. On(a)' /\ Pairs(a, w)'
    <3>1. Running' /\ pi'.state = "Success" /\ ~pi'.waitClose
      BY <1>3, <1>5, <2>1 DEF OnReplied, SameQueue
    <3>2. Under(a)'
      BY <2>1, <2>3, <3>1 DEF Under
    <3>. QED
      BY <1>1, <1>2, <1>3, <1>5, <2>3, <2>7, <3>2 DEF On, Pairs, Replying, Reading
  <2>. QED
    BY <2>2, <2>5, <2>6, <2>8, Calls
\* The user is logged in; PASS is not needed any more.
<1>6. CASE /\ f[2] = 230 /\ Then(<<PiConnectState("LoggedIn")>>)
           /\ pi' = [pi EXCEPT !.pending =
                       IF pi.cmd.verb = "USER" /\ @ # <<>> /\ Head(@).verb = "PASS" THEN Tail(@) ELSE @]
  <2>1. /\ pi'.state = pi.state /\ pi'.cmd = pi.cmd /\ pi'.text = pi.text
        /\ pi'.code = pi.code /\ pi'.to = pi.to /\ pi'.waitClose = pi.waitClose /\ pi'.abort = pi.abort
        /\ pi'.waitConnect = pi.waitConnect /\ (pi.pending = <<>> => pi'.pending = <<>>)
    BY <1>1, <1>6 DEF PiType
  <2>2. SameState
    BY <1>1, <1>3, <2>1 DEF SameState, SamePipe, Virgin, Online, DtpClosed
  <2> DEFINE a == PiConnectState("LoggedIn")
  <2>3. a \in Frame /\ a[1] = "_q_piConnectState" /\ a[2] = "LoggedIn"
    BY FrameTypes DEF PiConnectState, Call, States
  <2>4. Then(<<a>>)
    BY <1>6
  <2> HIDE DEF a
  <2>5. /\ Shape(calls, a, w)' /\ Tags' = {a[1]} \cup Names(w) /\ \A name : In(name)' <=> a[1] = name
        /\ Waiting' = w
    <3>1. Names(w) \subseteq Beneath(a[1])
      BY <1>1, <2>3, Orders DEF Reacting
    <3>. QED
      BY <1>1, <2>3, <2>4, <3>1, OneCalled DEF Attached
  <2>6. SameTags
    BY <1>1, <1>3, <2>1, <2>3, <2>5, NextTags
  <2>7. Online' <=> Online
    BY <1>2, <2>2, <2>6, Steady
  <2>8. On(a)' /\ Pairs(a, w)'
    <3>1. Running' /\ Online'
      BY <1>3, <1>6, <2>7 DEF OnReplied, SameQueue
    <3>. QED
      BY <1>1, <1>2, <1>3, <2>3, <2>5, <3>1 DEF On, OnConnectState, Pairs, Replying, Reading
  <2>. QED
    BY <2>2, <2>5, <2>6, <2>8, Calls
\* The data of a STOR may be sent.
<1>7. CASE Class(f[2]) = 1 /\ Then(<<Do("waitForConnection"), Do("writeData")>>) /\ UNCHANGED pi
  <2>1. SameState
    BY <1>1, <1>7, SameBut DEF SamePipe
  <2> DEFINE a == Do("waitForConnection")
             b == Do("writeData")
  <2>2. a \in Frame /\ a[1] = "waitForConnection" /\ b \in Frame /\ b[1] = "writeData"
    BY FrameTypes DEF Plain, Do, Call
  <2>3. Then(<<a, b>>)
    BY <1>7
  <2> HIDE DEF a, b
  <2>4. /\ Shape(calls, a, {b} \cup w)' /\ Tags' = {a[1], b[1]} \cup Names(w)
        /\ \A name : In(name)' <=> a[1] = name
        /\ Names({b} \cup w) = {b[1]} \cup Names(w)
    <3>1. b[1] \notin Attached /\ Adjacent(a, b)
      BY <2>2 DEF Attached, Adjacent
    <3>2. Names(w) \subseteq Beneath(b[1])
      BY <1>1, <2>2, Orders
    <3>3. Names(w) \cup {b[1]} \subseteq Beneath(a[1])
      BY <1>1, <2>2, Orders
    <3>. QED
      BY <1>1, <2>2, <2>3, <3>1, <3>2, <3>3, TwoCalled
  <2>5. SameTags
    <3>1. Tags' = {a[1], b[1]} \cup Names(w)
      BY <2>4
    <3>. QED
      BY <1>1, <1>3, <1>7, <2>2, <3>1, NextTags
  <2>6. Online' <=> Online
    BY <1>2, <2>1, <2>5, Steady
  <2>7. ~pi'.waitClose
    BY <1>3, <1>7 DEF OnReplied, Prelim
  <2>8. On(a)' /\ Under(b)'
    BY <2>2, <2>7 DEF On, Under
  <2>9. f[2] \notin {226, 250}
    BY <1>7, TableOf DEF Prelim
  <2>10. Pairs(a, {b} \cup w)'
    BY <1>1, <1>2, <1>3, <2>2, <2>4, <2>6, <2>9 DEF Pairs, Replying, Reading
  <2>. QED
    BY <2>1, <2>4, <2>5, <2>8, <2>10, Calls
<1>. QED
  BY <1>1, <1>4, <1>5, <1>6, <1>7 DEF QPiFtpReply, Special

\* Nothing that waits for these calls knows of the state.
LEMMA RepliesWait ==
  ASSUME NEW f, NEW w, Facing(f, w), Names(w) \subseteq Replying
  PROVE  /\ \A g \in w : Under(g)'
         /\ f[1] \in {"react", "failed"} => ftp.timers # 1 /\ ~Fresh /\ ~Over /\ (Empty \/ Running)
<1>1. \A g \in w : Under(g)'
  <2> SUFFICES ASSUME NEW g, g[1] \in Replying PROVE Under(g)'
    BY NamesOf
  <2>. QED
    BY DEF Under, Replying, Reading
<1>2. ASSUME f[1] \in {"react", "failed"} PROVE ftp.timers # 1 /\ ~Fresh /\ ~Over /\ (Empty \/ Running)
  <2>1. Modes /\ Tags = {f[1]} \cup Names(w) /\ \A name : In(name) <=> f[1] = name
    BY Base DEF Facing
  <2>2. f[1] \in Tags /\ "removeFirst" \notin Tags
    BY <1>2, <2>1 DEF Replying, Reading
  <2>3. ftp.timers # 1 /\ ~Fresh /\ ~Over
    BY <1>2, <2>1, <2>2 DEF Modes, Harmless, Has
  <2>. QED
    BY <2>3, Phases
<1>. QED
  BY <1>1, <1>2

\* QFtpPI is Idle again.
LEMMA ToIdle ==
  ASSUME NEW f, NEW w, Facing(f, w), f[1] \in {"react", "failed"}, Names(w) \subseteq Replying,
         pi.state \in {"Success", "Idle", "Failure"}, Settled, UNCHANGED <<net, dtp, lines, ftp>>,
         pi' = [pi EXCEPT !.state = "Idle"],
         NEW S, Tags' = S \cup Names(w), "abort" \notin S, "processed" \notin S
  PROVE  NoAbort' /\ Pipe' /\ Text' /\ Modes' /\ Settled' /\ pi'.state = "Idle" /\ SameQueue
<1>1. /\ pi'.state = "Idle" /\ pi'.cmd = pi.cmd /\ pi'.pending = pi.pending /\ pi'.text = pi.text
      /\ pi'.code = pi.code /\ pi'.to = pi.to /\ pi'.waitClose = pi.waitClose /\ pi'.abort = pi.abort
      /\ pi'.waitConnect = pi.waitConnect
  BY Base DEF PiType
<1>2. /\ NoAbort /\ Text /\ Pipe /\ Modes /\ Tags = {f[1]} \cup Names(w)
      /\ \A name : In(name) <=> f[1] = name
  BY Base DEF Facing
<1>3. SameQueue /\ ~Fresh /\ ~Over /\ ftp.timers # 1 /\ (Empty \/ Running)
  BY KeptQueue, RepliesWait
<1>4. Silent /\ (Online' <=> Online) /\ (Silent' <=> Silent) /\ (Looking' <=> Looking) /\ ~Looking
      /\ Settled' /\ (DtpClosed' <=> DtpClosed)
  BY <1>2 DEF Pipe, Silent, Online, Looking, Settled, DtpClosed
<1>5. (Has("processed")' <=> Has("processed")) /\ (Has("closed") => Has("closed")') /\ ~Has("abort")'
  BY <1>2 DEF Has, NoAbort
<1>6. NoAbort' /\ Pipe'
  BY <1>1, <1>2, <1>4, <1>5, SilentNext DEF NoAbort
<1>7. Text'
  <2>1. lines' = <<>> /\ lines = <<>> /\ ~Ended
    BY <1>4 DEF Silent, Ended
  <2>. QED
    BY <1>1, <1>2, <1>4, <1>5, <2>1 DEF Text
<1>8. Modes'
  <2>1. Rested => Rested'
    BY <1>1 DEF Rested
  <2>. QED
    BY <1>1, <1>2, <1>3, <1>4, <2>1 DEF Modes, SameQueue, Settled
<1>. QED
  BY <1>1, <1>3, <1>4, <1>6, <1>7, <1>8

LEMMA FailedCore ==
  ASSUME NEW f, NEW w, Facing(f, w), Failed, UNCHANGED ftp
  PROVE  Core'
<1>1. f[1] = "failed" /\ Names(w) \subseteq Replying /\ UNCHANGED <<net, dtp, lines, ftp>>
  BY Base, Orders DEF Failed
<1>2. Settled /\ pi.state \in {"Failure", "Idle"}
  BY <1>1 DEF Facing, On, Under
<1> DEFINE a == Do("startNextCmd")
<1>3. a \in Frame /\ a[1] = "startNextCmd"
  BY FrameTypes DEF Plain, Do, Call
<1>4. Then(<<a>>) /\ pi' = [pi EXCEPT !.state = "Idle"]
  BY <1>2 DEF Failed, StartNextCmdCall
<1> HIDE DEF a
<1>5. Shape(calls, a, w)' /\ Tags' = {a[1]} \cup Names(w)
  <2>1. Names(w) \subseteq Beneath(a[1])
    BY <1>1, <1>3, Orders, Nested
  <2>. QED
    BY <1>1, <1>3, <1>4, <2>1, OneCalled DEF Attached
<1>6. NoAbort' /\ Pipe' /\ Text' /\ Modes' /\ Settled' /\ pi'.state = "Idle"
  <2>1. PICK S : Tags' = S \cup Names(w) /\ "abort" \notin S /\ "processed" \notin S
    BY <1>3, <1>5
  <2>. QED
    BY <1>1, <1>2, <1>4, <2>1, ToIdle
<1>7. On(a)' /\ Pairs(a, w)'
  BY <1>1, <1>3, <1>6 DEF On, Under, Pairs, Replying, Reading
<1>8. Stack'
  BY <1>1, <1>5, <1>7, RepliesWait, StackBy
<1>. QED
  BY <1>6, <1>8 DEF Core

\* The end of processReply, by the state that the calls before it left.
LEMMA ReactCore ==
  ASSUME NEW f, NEW w, Facing(f, w), React, UNCHANGED ftp
  PROVE  Core'
<1>1. /\ f[1] = "react" /\ Names(w) \subseteq Replying /\ Tags = {f[1]} \cup Names(w)
      /\ \A name : In(name) <=> f[1] = name
      /\ pi \in PiType /\ pi' \in PiType /\ UNCHANGED <<net, lines, ftp>>
  BY Base, Orders DEF React
<1>2. NoAbort /\ Text /\ Pipe /\ Modes /\ Settled /\ "processed" \in Names(w)
  BY <1>1 DEF Facing, On, Under, Pairs
<1>3. ftp.timers # 1 /\ ~Fresh /\ ~Over /\ (Empty \/ Running) /\ SameQueue
  BY <1>1, RepliesWait, KeptQueue
<1> DEFINE a == PiError("UnknownError")
           b == Do("clearError")
           c == Do("startNextCmd")
           e == Do("failed")
<1>4. /\ a \in Frame /\ a[1] = "_q_piError" /\ b \in Frame /\ b[1] = "clearError"
      /\ c \in Frame /\ c[1] = "startNextCmd" /\ e \in Frame /\ e[1] = "failed"
  BY FrameTypes DEF Plain, Do, Call, PiError
<1>5. CASE /\ pi.state \in {"Success", "Idle"} /\ pi' = [pi EXCEPT !.state = "Idle"] /\ dtp' = dtp
           /\ Then(<<a, b, c>>)
  <2> HIDE DEF a, b, c, e
  <2>1. /\ Shape(calls, a, {b} \cup ({c} \cup w))' /\ Tags' = {a[1], b[1], c[1]} \cup Names(w)
        /\ Names({b} \cup ({c} \cup w)) = {b[1], c[1]} \cup Names(w)
    <3>1. c[1] \notin Attached /\ Adjacent(a, b) /\ Adjacent(b, c)
      BY <1>4 DEF Attached, Adjacent
    <3>2. Names(w) \cup {c[1]} \subseteq {"startNextCmd"} \cup Replying
          /\ Names(w) \cup {b[1], c[1]} \subseteq Starting
      BY <1>1, <1>4, Nested
    <3>3. Names(w) \subseteq Beneath(c[1])
      BY <1>1, <1>4, Orders, Nested
    <3>4. Names(w) \cup {c[1]} \subseteq Beneath(b[1]) /\ Names(w) \cup {b[1], c[1]} \subseteq Beneath(a[1])
      BY <1>4, <3>2, Orders
    <3>5. f[1] # "processed" /\ Then(<<a, b, c>>)
      BY <1>1, <1>5
    <3>. QED
      BY <1>4, <3>1, <3>3, <3>4, <3>5, ThreeCalled
  <2>2. NoAbort' /\ Pipe' /\ Text' /\ Modes' /\ Settled' /\ pi'.state = "Idle"
    <3>1. PICK S : Tags' = S \cup Names(w) /\ "abort" \notin S /\ "processed" \notin S
      BY <1>4, <2>1
    <3>2. pi.state \in {"Success", "Idle", "Failure"} /\ Settled
      BY <1>2, <1>5
    <3>. QED
      BY <1>1, <1>5, <3>1, <3>2, ToIdle
  <2>3. On(a)' /\ Under(b)' /\ Under(c)'
    BY <1>3, <1>4, <2>2 DEF On, Under, Halted, SameQueue
  <2>4. Pairs(a, {b} \cup ({c} \cup w))'
    BY <1>1, <1>4, <2>1 DEF Pairs, Replying, Reading
  <2>5. \A g \in {b} \cup ({c} \cup w) : Under(g)'
    BY <1>1, <2>3, RepliesWait
  <2>6. Stack'
    BY <2>1, <2>3, <2>4, <2>5, StackBy
  <2>. QED
    BY <2>2, <2>6 DEF Core
<1>6. CASE /\ pi.state \in {"Success", "Idle"} /\ pi' = [pi EXCEPT !.state = "Idle"] /\ dtp' = dtp
           /\ Then(<<c>>)
  <2> HIDE DEF a, b, c, e
  <2>1. Shape(calls, c, w)' /\ Tags' = {c[1]} \cup Names(w)
    <3>1. Names(w) \subseteq Beneath(c[1])
      BY <1>1, <1>4, Orders, Nested
    <3>. QED
      BY <1>1, <1>4, <1>6, <3>1, OneCalled DEF Attached
  <2>2. NoAbort' /\ Pipe' /\ Text' /\ Modes' /\ Settled' /\ pi'.state = "Idle"
    <3>1. PICK S : Tags' = S \cup Names(w) /\ "abort" \notin S /\ "processed" \notin S
      BY <1>4, <2>1
    <3>2. pi.state \in {"Success", "Idle", "Failure"} /\ Settled
      BY <1>2, <1>6
    <3>. QED
      BY <1>1, <1>6, <3>1, <3>2, ToIdle
  <2>3. On(c)' /\ Pairs(c, w)'
    BY <1>1, <1>4, <2>2 DEF On, Under, Pairs, Replying, Reading
  <2>4. Stack'
    BY <1>1, <2>1, <2>3, RepliesWait, StackBy
  <2>. QED
    BY <2>2, <2>4 DEF Core
<1>7. CASE pi.state \in {"Begin", "Waiting"} /\ Then(<<>>) /\ UNCHANGED <<pi, dtp>>
  <2>1. SameState
    BY <1>1, <1>7, SameBut DEF SamePipe
  <2>. QED
    BY <1>1, <1>7, <2>1, Passes
\* The server does not know EPSV or EPRT.
<1>8. CASE /\ pi.state = "Failure" /\ Then(<<e>>) /\ UNCHANGED dtp
           /\ pi' = [pi EXCEPT !.extended = FALSE,
                               !.pending = <<Line(Fallback[pi.cmd.verb], pi.cmd.id)>> \o @]
  <2>1. /\ pi'.state = pi.state /\ pi'.cmd = pi.cmd /\ pi'.text = pi.text
        /\ pi'.code = pi.code /\ pi'.to = pi.to /\ pi'.waitClose = pi.waitClose /\ pi'.abort = pi.abort
        /\ pi'.waitConnect = pi.waitConnect
    BY <1>1, <1>8 DEF PiType
  <2> HIDE DEF a, b, c, e
  <2>2. Shape(calls, e, w)' /\ Tags' = {e[1]} \cup Names(w)
    <3>1. Names(w) \subseteq Beneath(e[1])
      BY <1>1, <1>4, Orders
    <3>. QED
      BY <1>1, <1>4, <1>8, <3>1, OneCalled DEF Attached
  <2>3. Running /\ ~Connects
    BY <1>2, <1>8 DEF Modes, Rested, Virgin
  <2>4. Pipe' /\ (Silent' <=> Silent) /\ Silent /\ (Online' <=> Online) /\ Settled' /\ (Looking' <=> Looking)
        /\ (DtpClosed' <=> DtpClosed)
    BY <1>1, <1>2, <1>8, <2>1, KeptPipe DEF Pipe, SamePipe, Settled, Looking, DtpClosed
  <2>5. Has("processed")' /\ (Has("closed") => Has("closed")') /\ ~Has("abort")' /\ Has("failed")'
    BY <1>1, <1>2, <1>4, <2>2 DEF Has, NoAbort
  <2>6. NoAbort'
    BY <1>2, <2>1, <2>5 DEF NoAbort
  <2>7. Text'
    <3>1. lines' = <<>> /\ lines = <<>> /\ ~Ended /\ Has("processed")
      BY <1>1, <1>2, <1>8, <2>4 DEF Silent, Ended, Has
    <3>. QED
      BY <1>1, <1>2, <2>1, <2>4, <2>5, <3>1 DEF Text
  <2>8. Modes'
    BY <1>1, <1>2, <1>3, <1>8, <2>1, <2>3, <2>4, <2>5 DEF Modes, SameQueue, Settled
  <2>9. On(e)' /\ Pairs(e, w)'
    BY <1>1, <1>4, <1>8, <2>1, <2>4 DEF On, Under, Pairs, Replying, Reading
  <2>10. Stack'
    BY <1>1, <2>2, <2>9, RepliesWait, StackBy
  <2>. QED
    BY <2>4, <2>6, <2>7, <2>8, <2>10 DEF Core
<1>9. CASE pi.state = "Failure" /\ Then(<<a, e>>) /\ UNCHANGED <<pi, dtp>>
  <2> HIDE DEF a, b, c, e
  <2>1. SameState
    BY <1>1, <1>9, SameBut DEF SamePipe
  <2>2. /\ Shape(calls, a, {e} \cup w)' /\ Tags' = {a[1], e[1]} \cup Names(w)
        /\ Names({e} \cup w) = {e[1]} \cup Names(w)
    <3>1. e[1] \notin Attached /\ Adjacent(a, e)
      BY <1>4 DEF Attached, Adjacent
    <3>2. Names(w) \cup {e[1]} \subseteq Starting
      BY <1>1, <1>4, Nested
    <3>3. Names(w) \subseteq Beneath(e[1]) /\ Names(w) \cup {e[1]} \subseteq Beneath(a[1])
      BY <1>1, <1>4, <3>2, Orders
    <3>4. f[1] # "processed" /\ Then(<<a, e>>)
      BY <1>1, <1>9
    <3>. QED
      BY <1>4, <3>1, <3>3, <3>4, TwoCalled
  <2>3. SameTags
    BY <1>1, <1>3, <1>4, <1>9, <2>2, NextTags
  <2>4. Settled'
    BY <1>2, <2>1, <2>3, Steady
  <2>5. Running
    BY <1>2, <1>9 DEF Modes, Rested, Virgin
  <2>6. On(a)' /\ Under(e)'
    BY <1>3, <1>4, <1>9, <2>4, <2>5 DEF On, Under, Halted, SameQueue
  <2>7. Pairs(a, {e} \cup w)'
    BY <1>1, <1>4, <2>2 DEF Pairs, Replying, Reading
  <2>. QED
    BY <2>1, <2>2, <2>3, <2>6, <2>7, Calls
<1>. QED
  BY <1>5, <1>6, <1>7, <1>8, <1>9 DEF React, StartNextCmdCall

-----------------------------------------------------------------------------
(* The lines of a command.                                                 *)

\* Who waits for a line to be sent knows that a command is running, or none.
LEMMA Sending ==
  ASSUME NEW f, NEW w, Facing(f, w), f[1] \in {"startNextCmd", "sendCommands", "connectToHost"}
  PROVE  /\ Names(w) \subseteq Reacting /\ ftp.timers # 1 /\ ~Fresh /\ ~Over /\ (Empty \/ Running)
         /\ ~Has("abort") /\ (Has("processed") <=> "processed" \in Names(w))
         /\ (Has("closed") <=> "closed" \in Names(w))
         /\ \A g \in w : g[1] = "react" \/ Under(g)'
         /\ \A g \in w : Settled' => Under(g)'
         /\ ftp.state \in {"Connected", "LoggedIn"} => Online
<1>1. /\ Modes /\ NoAbort /\ Tags = {f[1]} \cup Names(w) /\ \A name : In(name) <=> f[1] = name
  BY Base DEF Facing
<1>2. Names(w) \subseteq Reacting
  BY Base, Orders
<1>3. f[1] \in Tags /\ f[1] \notin Harmless /\ "removeFirst" \notin Tags
  BY <1>1, <1>2 DEF Harmless, Reacting, Replying, Reading
<1>4. ftp.timers # 1 /\ ~Fresh /\ ~Over
  BY <1>1, <1>3 DEF Modes, Has
<1>5. ASSUME NEW g \in w PROVE (g[1] = "react" \/ Under(g)') /\ (Settled' => Under(g)')
  <2>1. Under(g) /\ g[1] \in Reacting
    BY <1>2, NamesOf DEF Facing
  <2>. QED
    BY <2>1 DEF Under, Reacting, Replying, Reading
<1>. QED
  BY <1>1, <1>2, <1>4, <1>5, Phases DEF Modes, NoAbort, Has

LEMMA ConnectToHostCore ==
  ASSUME NEW f, NEW w, Facing(f, w), PiConnectToHost, UNCHANGED ftp
  PROVE  Core'
<1>1. /\ f[1] = "connectToHost" /\ Then(<<>>) /\ net \in NetType /\ UNCHANGED <<dtp, pi, lines, ftp>>
  BY Base DEF PiConnectToHost
<1>2. CASE net' = net
  BY <1>1, <1>2, SameBut, Passes DEF SamePipe
<1>3. CASE net.control = "unconnected" /\ net' = [net EXCEPT !.control = "lookup"]
  <2>1. /\ net'.control = "lookup" /\ net'.up = net.up /\ net'.down = net.down
        /\ net'.transfer = net.transfer /\ net'.bye = net.bye
    BY <1>1, <1>3 DEF NetType
  <2>2. NoAbort /\ Text /\ Pipe /\ Modes /\ Pairs(f, w) /\ Connects /\ Rested
    BY <1>1 DEF Facing, On, Under
  <2>3. ~Online /\ ~Online' /\ Silent /\ Silent'
    BY <1>1, <1>3, <2>1, <2>2 DEF Online, Pipe, Silent
  <2>4. /\ ~Has("abort") /\ (Has("processed") <=> "processed" \in Names(w))
        /\ (Has("closed") <=> "closed" \in Names(w)) /\ \A g \in w : g[1] = "react" \/ Under(g)'
        /\ ftp.state \notin {"Connected", "LoggedIn"} /\ Names(w) \subseteq Reacting
        /\ ftp.timers # 1 /\ ~Fresh /\ ~Over
    BY <1>1, <2>3, Sending
  <2>5. "react" \notin Names(w)
    BY <1>1, <2>2, <2>3 DEF Pairs
  <2>6. Tags' = Names(w) /\ \A name : In(name)' => name \in Names(w)
    BY <1>1, PoppedTags DEF Facing
  <2>7. NoAbort'
    BY <1>1, <2>2, <2>4, <2>6, Base DEF NoAbort, Has
  <2>8. Pipe'
    BY <1>1, <2>2, <2>3, SilentNext DEF Pipe
  <2>9. Text'
    <3>1. (Has("processed")' <=> Has("processed")) /\ (Has("closed")' <=> Has("closed")) /\ lines' = <<>>
      BY <1>1, <2>3, <2>4, <2>6 DEF Has, Silent
    <3>2. (Ended' <=> Ended) /\ Current' = Current /\ Codes(Current)' = Codes(Current)
      BY <1>1, <2>1, <2>3, <3>1 DEF Ended, Current, Codes
    <3>. QED
      BY <1>1, <2>1, <2>2, <3>1, <3>2 DEF Text, DtpClosed
  <2>10. SameQueue /\ (Virgin => Virgin') /\ Looking' /\ Rested'
    BY <1>1, <2>1, <2>2, <2>3, KeptQueue DEF Virgin, Looking, Rested
  <2>11. Modes'
    BY <1>1, <2>2, <2>4, <2>10, Phases DEF Modes, SameQueue, Rested
  <2>12. Stack'
    <3>1. \A g \in w : Under(g)'
      BY <2>4, <2>5, NamesOf
    <3>2. "cleared" \notin Names(w)
      BY <2>4 DEF Reacting, Replying, Reading
    <3>. QED
      BY <1>1, <2>5, <2>11, <3>1, <3>2, Resumed
  <2>. QED
    BY <2>7, <2>8, <2>9, <2>11, <2>12 DEF Core
<1>. QED
  BY <1>2, <1>3 DEF PiConnectToHost

LEMMA SendCommandsCore ==
  ASSUME NEW f, NEW w, Facing(f, w), SendCommands, UNCHANGED ftp
  PROVE  Core'
<1>1. /\ f[1] = "sendCommands" /\ Arg = f[2] /\ Tags = {f[1]} \cup Names(w)
      /\ \A name : In(name) <=> f[1] = name
      /\ ftp \in FtpType /\ pi \in PiType /\ UNCHANGED <<net, dtp, lines, ftp>>
  BY Base DEF SendCommands
<1>2. NoAbort /\ Text /\ Pipe /\ Modes /\ Pairs(f, w) /\ Under(f)
  BY <1>1 DEF Facing, On
<1>3. Running /\ ~Connects /\ Rested /\ Settled /\ f[2] = LinesOf(First)
  BY <1>1, <1>2 DEF Under, Modes, Settled, Connects
<1>4. f[2] # <<>>
  <2>1. First \in CommandType
    BY <1>1, <1>3, FirstType, Phases
  <2>. QED
    BY <1>3, <2>1, LinesOfType DEF CommandType
<1>5. /\ Names(w) \subseteq Reacting /\ ftp.timers # 1 /\ \A g \in w : Settled' => Under(g)'
  BY <1>1, Sending
<1>6. CASE (~Online \/ pi.state # "Idle") /\ Then(<<PiError("NotConnected")>>) /\ UNCHANGED pi
  <2>1. SameState
    BY <1>1, <1>6, SameBut DEF SamePipe
  <2> DEFINE a == PiError("NotConnected")
  <2>2. a \in Frame /\ a[1] = "_q_piError"
    BY FrameTypes DEF Call, PiError
  <2>3. Then(<<a>>)
    BY <1>6
  <2> HIDE DEF a
  <2>4. Shape(calls, a, w)' /\ Tags' = {a[1]} \cup Names(w)
    <3>1. Names(w) \subseteq Beneath(a[1])
      BY <1>5, <2>2, Orders, Nested
    <3>. QED
      BY <1>1, <2>2, <2>3, <3>1, OneCalled DEF Attached
  <2>5. SameTags
    BY <1>1, <1>5, <1>6, <2>2, <2>4, NextTags
  <2>6. Running' /\ Settled' /\ Rested' /\ (Online' <=> Online)
    BY <1>2, <1>3, <2>1, <2>5, Steady DEF SameState, SameQueue
  <2>7. On(a)' /\ Pairs(a, w)'
    BY <1>1, <1>2, <1>5, <2>2, <2>6 DEF On, Pairs, Rested, Halted, Reacting, Replying, Reading
  <2>. QED
    BY <2>1, <2>4, <2>5, <2>7, Calls
<1>7. CASE Online /\ pi.state = "Idle" /\ pi' = [pi EXCEPT !.pending = Arg] /\ Then(<<StartNextCmdCall>>)
  <2>1. /\ pi'.state = pi.state /\ pi'.cmd = pi.cmd /\ pi'.pending = f[2] /\ pi'.text = pi.text
        /\ pi'.code = pi.code /\ pi'.to = pi.to /\ pi'.waitClose = pi.waitClose /\ pi'.abort = pi.abort
        /\ pi'.waitConnect = pi.waitConnect
    BY <1>1, <1>7 DEF PiType
  <2> DEFINE a == Do("startNextCmd")
  <2>2. a \in Frame /\ a[1] = "startNextCmd"
    BY FrameTypes DEF Plain, Do, Call
  <2>3. Then(<<a>>)
    BY <1>7 DEF StartNextCmdCall
  <2> HIDE DEF a
  <2>4. Shape(calls, a, w)' /\ Tags' = {a[1]} \cup Names(w)
    <3>1. Names(w) \subseteq Beneath(a[1])
      BY <1>5, <2>2, Orders
    <3>. QED
      BY <1>1, <2>2, <2>3, <3>1, OneCalled DEF Attached
  <2>5. /\ (Has("processed")' <=> Has("processed")) /\ (Has("closed")' <=> Has("closed"))
        /\ (Has("abort")' <=> Has("abort")) /\ ~Fresh /\ ~Over
    BY <1>1, <2>2, <2>4, Sending DEF Has
  <2>6. /\ Pipe' /\ (Silent' <=> Silent) /\ Current' = Current /\ (Online' <=> Online)
        /\ Settled' /\ (Looking' <=> Looking) /\ (DtpClosed' <=> DtpClosed) /\ SameQueue
    BY <1>1, <1>2, <1>3, <2>1, KeptPipe, KeptQueue DEF SamePipe, Settled, Looking, DtpClosed
  <2>7. NoAbort'
    BY <1>2, <2>1, <2>5 DEF NoAbort
  <2>8. Text'
    <3>1. lines = <<>> /\ lines' = <<>> /\ ~Ended
      BY <1>1, <1>2, <1>7 DEF Pipe, Silent, Ended
    <3>. QED
      BY <1>1, <1>2, <1>7, <2>1, <2>5, <2>6, <3>1 DEF Text
  <2>9. Modes'
    BY <1>1, <1>2, <1>3, <1>5, <1>7, <2>1, <2>5, <2>6 DEF Modes, SameQueue, Settled
  <2>10. On(a)' /\ Pairs(a, w)'
    BY <1>1, <1>2, <1>3, <1>4, <1>5, <1>7, <2>1, <2>2, <2>6
       DEF On, Under, Pairs, SameQueue, Reacting, Replying, Reading
  <2>11. Stack'
    BY <1>5, <2>4, <2>6, <2>10, StackBy
  <2>. QED
    BY <2>6, <2>7, <2>8, <2>9, <2>11 DEF Core
<1>8. pi.pending = <<>>
  BY <1>3 DEF Rested
<1>. QED
  BY <1>6, <1>7, <1>8 DEF SendCommands

LEMMA StartNextCmdCore ==
  ASSUME NEW f, NEW w, Facing(f, w), StartNextCmd, UNCHANGED ftp
  PROVE  Core'
<1>1. /\ f[1] = "startNextCmd" /\ Tags = {f[1]} \cup Names(w) /\ \A name : In(name) <=> f[1] = name
      /\ pi \in PiType /\ net \in NetType /\ dtp \in DtpType /\ UNCHANGED <<lines, ftp>>
  BY Base DEF StartNextCmd
<1>2. NoAbort /\ Text /\ Pipe /\ Modes /\ Pairs(f, w) /\ Settled /\ pi.state = "Idle"
  BY <1>1 DEF Facing, On, Under
<1>3. /\ Names(w) \subseteq Reacting /\ ftp.timers # 1 /\ \A g \in w : Settled' => Under(g)'
      /\ ~Fresh /\ ~Over /\ (Empty \/ Running) /\ ~Has("abort")
      /\ (Has("processed") <=> "processed" \in Names(w)) /\ (Has("closed") <=> "closed" \in Names(w))
      /\ ftp.state \in {"Connected", "LoggedIn"} => Online
  BY <1>1, Sending
<1>4. Silent /\ lines = <<>> /\ ~Ended /\ SameQueue /\ ~Looking /\ ~ftp.closeWait
  BY <1>1, <1>2, KeptQueue DEF Pipe, Silent, Ended, Settled
<1>5. CASE pi.waitConnect
  <2>1. Then(<<>>) /\ UNCHANGED <<net, dtp, pi>>
    BY <1>5 DEF StartNextCmd
  <2>2. SameState
    BY <1>1, <2>1, SameBut DEF SamePipe
  <2>. QED
    BY <1>1, <2>1, <2>2, Passes
\* The last line was answered: the command is done.
<1>6. CASE ~pi.waitConnect /\ pi.pending = <<>>
  <2>1. pi' = [pi EXCEPT !.cmd = NoLine] /\ Then(<<PiFinished>>) /\ UNCHANGED <<net, dtp>>
    BY <1>6 DEF StartNextCmd
  <2>2. /\ pi'.state = pi.state /\ pi'.cmd = NoLine /\ pi'.pending = pi.pending /\ pi'.text = pi.text
        /\ pi'.code = pi.code /\ pi'.to = pi.to /\ pi'.waitClose = pi.waitClose /\ pi'.abort = pi.abort
        /\ pi'.waitConnect = pi.waitConnect
    BY <1>1, <2>1 DEF PiType
  <2> DEFINE a == Do("_q_piFinished")
  <2>3. a \in Frame /\ a[1] = "_q_piFinished"
    BY FrameTypes DEF Plain, Do, Call
  <2>4. Then(<<a>>)
    BY <2>1 DEF PiFinished
  <2> HIDE DEF a
  <2>5. Shape(calls, a, w)' /\ Tags' = {a[1]} \cup Names(w)
    <3>1. Names(w) \subseteq Beneath(a[1])
      BY <1>3, <2>3, Orders
    <3>. QED
      BY <1>1, <2>3, <2>4, <3>1, OneCalled DEF Attached
  <2>6. /\ (Has("processed")' <=> Has("processed")) /\ (Has("closed")' <=> Has("closed"))
        /\ ~Has("abort")'
    BY <1>1, <1>3, <2>3, <2>5 DEF Has
  <2>7. /\ (Silent' <=> Silent) /\ (Online' <=> Online)
        /\ Settled' /\ ~Looking' /\ (DtpClosed' <=> DtpClosed)
    BY <1>2, <1>1, <1>4, <2>1 DEF Silent, Online, Settled, Looking, DtpClosed
  <2>8. NoAbort' /\ Pipe'
    BY <1>2, <1>4, <2>2, <2>6, <2>7, SilentNext DEF NoAbort
  <2>9. Text'
    BY <1>1, <1>2, <1>4, <2>2, <2>6, <2>7 DEF Text
  <2>10. dtp'.socket # "connecting" /\ Rested'
    BY <1>2, <1>6, <2>1, <2>2 DEF Modes, Rested
  <2>11. Modes'
    BY <1>1, <1>2, <1>3, <1>4, <2>2, <2>7, <2>10 DEF Modes, SameQueue, Rested
  <2>12. On(a)' /\ Pairs(a, w)'
    BY <1>1, <1>2, <1>3, <1>4, <1>6, <2>3, <2>7, <2>10
       DEF On, Pairs, SameQueue, Reacting, Replying, Reading
  <2>13. Stack'
    BY <1>3, <2>5, <2>7, <2>12, StackBy
  <2>. QED
    BY <2>8, <2>9, <2>11, <2>13 DEF Core
<1>7. CASE ~pi.waitConnect /\ pi.pending # <<>>
  <2>1. PICK line : line = Edited(Head(pi.pending))
    OBVIOUS
  <2>2. line \in SentLines /\ line.verb \in Verbs
    <3>1. Head(pi.pending) \in SentLines
      BY <1>1, <1>7, HeadTailProperties DEF PiType
    <3>2. line \in SentLines
      BY <2>1, <3>1, PiParts
    <3>. QED
      BY <3>2 DEF SentLines
  <2>3. \/ pi' = [pi EXCEPT !.cmd = line] /\ UNCHANGED <<dtp, net>>
        \/ /\ pi' = [pi EXCEPT !.cmd = line, !.pending = Tail(@), !.state = "Waiting"]
           /\ dtp' = dtp \/ dtp' = SetupListener(dtp)
           /\ net' = Wrote(net, line)
    BY <1>7, <2>1 DEF StartNextCmd
  <2>4. Then(<<>>)
    BY <1>7 DEF StartNextCmd
  <2>5. Running /\ ~Connects /\ dtp.socket # "connecting"
    BY <1>2, <1>7 DEF Modes, Rested
  <2>6. /\ pi'.cmd = line /\ pi'.text = pi.text /\ pi'.code = pi.code /\ pi'.to = pi.to
        /\ pi'.waitClose = pi.waitClose /\ pi'.abort = pi.abort /\ pi'.state \in {"Idle", "Waiting"}
        /\ dtp'.socket = dtp.socket /\ net'.control = net.control
    BY <1>1, <1>2, <2>3, ZenonT(40) DEF PiType, DtpType, NetType, SetupListener, Wrote
  <2>7. Tags' = Names(w) /\ \A name : In(name)' => name \in Names(w)
    BY <2>4, PoppedTags DEF Facing
  <2>8. /\ (Has("processed")' <=> Has("processed")) /\ (Has("closed")' <=> Has("closed"))
        /\ ~Has("abort")' /\ (Online' <=> Online) /\ ~Looking' /\ Settled' /\ (DtpClosed' <=> DtpClosed)
    BY <1>1, <1>2, <1>3, <1>4, <2>6, <2>7 DEF Has, Online, Looking, Settled, DtpClosed
  <2>9. Pipe'
    <3>1. CASE Silent'
      BY <2>2, <2>6, <3>1, SilentNext
    <3>2. CASE ~Silent'
      <4>1. pi'.state = "Waiting" /\ net' = Wrote(net, line)
        <5>1. ~(UNCHANGED <<dtp, net>>)
          BY <1>1, <1>4, <3>2 DEF Silent
        <5>2. pi' = [pi EXCEPT !.cmd = line, !.pending = Tail(@), !.state = "Waiting"]
          BY <2>3, <5>1
        <5>. QED
          BY <1>1, <2>3, <5>1, <5>2 DEF PiType
      <4>2. Online /\ net' = [net EXCEPT !.up = Append(@, line)]
        BY <1>1, <1>4, <3>2, <4>1 DEF Wrote, Online, Silent
      <4>3. net.up = <<>> /\ Append(<<>>, line) = <<line>>
        BY <1>4 DEF Silent
      <4>4. /\ net'.up = <<line>> /\ net'.down = <<>> /\ net'.transfer = NoLine /\ lines' = <<>>
            /\ net'.bye = net.bye /\ Online'
        BY <1>1, <1>4, <2>8, <4>2, <4>3 DEF NetType, Silent
      <4>5. Current' = line /\ Stream' = <<>> /\ Len(Stream') = 0
        BY <2>6, <4>1, <4>4, EmptySeq DEF Current, Stream
      <4>6. \A k \in 1..Len(Stream') : FALSE
        BY <4>5
      <4>. QED
        BY <2>2, <2>6, <4>1, <4>4, <4>5, <4>6 DEF Pipe
    <3>. QED
      BY <3>1, <3>2
  <2>10. NoAbort' /\ Text'
    <3>1. lines' = <<>>
      BY <1>1, <1>4
    <3>. QED
      BY <1>1, <1>2, <1>3, <1>4, <2>6, <2>8, <3>1 DEF NoAbort, Text
  <2>11. Modes'
    BY <1>1, <1>2, <1>3, <1>4, <2>5, <2>6, <2>8 DEF Modes, SameQueue
  <2>12. Stack'
    <3>1. "react" \in Names(w) => Online'
      BY <1>1, <1>2, <2>8 DEF Pairs
    <3>2. "cleared" \notin Names(w) /\ \A g \in w : Under(g)'
      BY <1>3, <2>8 DEF Reacting, Replying, Reading
    <3>. QED
      BY <1>1, <2>4, <2>11, <3>1, <3>2, Resumed
  <2>. QED
    BY <2>9, <2>10, <2>11, <2>12 DEF Core
<1>. QED
  BY <1>5, <1>6, <1>7

\* A command that fails drops its lines and its data connection.
LEMMA ClearPendingCore ==
  ASSUME NEW f, NEW w, Facing(f, w), PiClear, UNCHANGED ftp
  PROVE  Core'
<1>1. /\ f[1] = "clearPendingCommands" /\ Tags = {f[1]} \cup Names(w) /\ \A name : In(name) <=> f[1] = name
      /\ Names(w) \subseteq {"commandFailed"} \cup Starting
      /\ pi \in PiType /\ UNCHANGED <<net, dtp, lines, ftp>>
  BY Base, Orders DEF PiClear
<1>2. NoAbort /\ Text /\ Pipe /\ Modes /\ Pairs(f, w) /\ \A g \in w : Under(g)
  BY DEF Facing
<1>3. Settled /\ Halted
  <2>1. PICK g \in w : g[1] = "commandFailed"
    BY <1>1, <1>2, NamesOf DEF Pairs
  <2>. QED
    BY <1>2, <2>1 DEF Under
<1>4. /\ pi'.state = pi.state /\ pi'.cmd = pi.cmd /\ pi'.pending = <<>> /\ pi'.text = pi.text
      /\ pi'.code = pi.code /\ pi'.to = pi.to /\ pi'.waitClose = pi.waitClose /\ pi'.abort = pi.abort
      /\ pi'.waitConnect = pi.waitConnect
  BY <1>1 DEF PiType, PiClear
<1>5. SameState
  <2>1. SameQueue
    BY <1>1, KeptQueue
  <2>. QED
    BY <1>1, <1>4, <2>1 DEF SameState, SamePipe, Virgin, Online, DtpClosed
<1> DEFINE a == Do("abortConnection")
           b == Do("cleared")
<1>6. a \in Frame /\ a[1] = "abortConnection" /\ b \in Frame /\ b[1] = "cleared"
  BY FrameTypes DEF Plain, Do, Call
<1>7. Then(<<a, b>>)
  BY DEF PiClear
<1> HIDE DEF a, b
<1>8. /\ Shape(calls, a, {b} \cup w)' /\ Tags' = {a[1], b[1]} \cup Names(w)
      /\ Names({b} \cup w) = {b[1]} \cup Names(w)
  <2>1. b[1] \notin Attached /\ Adjacent(a, b)
    BY <1>6 DEF Attached, Adjacent
  <2>2. Names(w) \subseteq Beneath(b[1])
    BY <1>1, <1>6, Orders
  <2>3. Names(w) \cup {b[1]} \subseteq {"cleared", "commandFailed"} \cup Starting
    BY <1>1, <1>6
  <2>4. Names(w) \cup {b[1]} \subseteq Beneath(a[1])
    BY <1>6, <2>3, Orders
  <2>. QED
    BY <1>1, <1>6, <1>7, <2>1, <2>2, <2>4, TwoCalled
<1>9. SameTags
  <2>1. ftp.timers # 1
    BY <1>1, <1>2 DEF Modes, Harmless
  <2>. QED
    BY <1>1, <1>4, <1>6, <1>8, <2>1, NextTags
<1>10. Settled' /\ Halted' /\ (Online' <=> Online)
  BY <1>2, <1>3, <1>5, <1>9, Steady
<1>11. On(a)' /\ Under(b)'
  BY <1>4, <1>6, <1>10 DEF On, Under
<1>12. Pairs(a, {b} \cup w)'
  BY <1>1, <1>2, <1>6, <1>8, <1>10 DEF Pairs
<1>. QED
  BY <1>5, <1>8, <1>9, <1>11, <1>12, Calls

LEMMA ClearedCore ==
  ASSUME NEW f, NEW w, Facing(f, w), PiCleared, UNCHANGED ftp
  PROVE  Core'
<1>1. /\ f[1] = "cleared" /\ Tags = {f[1]} \cup Names(w) /\ \A name : In(name) <=> f[1] = name
      /\ Names(w) \subseteq {"commandFailed"} \cup Starting /\ Then(<<>>)
      /\ pi \in PiType /\ UNCHANGED <<net, dtp, lines, ftp>>
  BY Base, Orders DEF PiCleared
<1>2. NoAbort /\ Text /\ Pipe /\ Modes /\ Pairs(f, w) /\ \A g \in w : Under(g)
  BY DEF Facing
<1>3. pi.pending = <<>> /\ Settled /\ Halted /\ DtpClosed
  BY <1>1 DEF Facing, On, Under
<1>4. /\ pi'.state = "Idle" /\ pi'.cmd = NoLine /\ pi'.pending = <<>> /\ pi'.text = pi.text
      /\ pi'.code = pi.code /\ pi'.to = pi.to /\ pi'.waitClose = pi.waitClose /\ pi'.abort = pi.abort
      /\ pi'.waitConnect = pi.waitConnect
  BY <1>1, <1>3 DEF PiType, PiCleared
<1>5. Silent /\ lines = <<>> /\ ~Ended /\ (pi.state \in {"Waiting", "Begin"} => ~pi.text)
  BY <1>2, <1>3 DEF Halted, Virgin, Pipe, Silent, Ended
<1>6. /\ Silent' /\ (Online' <=> Online) /\ Settled' /\ ~Looking' /\ DtpClosed' /\ Rested' /\ Halted'
      /\ ~ftp.closeWait /\ ~Looking
  BY <1>1, <1>3, <1>4, <1>5 DEF Silent, Online, Settled, Looking, DtpClosed, Rested, Halted
<1>7. Tags' = Names(w) /\ \A name : In(name)' => name \in Names(w)
  BY <1>1, PoppedTags DEF Facing
<1>8. (Has("processed")' <=> Has("processed")) /\ (Has("closed")' <=> Has("closed")) /\ ~Has("abort")'
  BY <1>1, <1>2, <1>7 DEF Has, NoAbort
<1>9. NoAbort' /\ Pipe'
  BY <1>2, <1>4, <1>6, <1>8, SilentNext DEF NoAbort
<1>10. Text'
  BY <1>1, <1>2, <1>4, <1>5, <1>6, <1>8 DEF Text
<1>11. Modes'
  <2>1. "removeFirst" \notin Tags /\ "cleared" \in Tags
    BY <1>1 DEF Starting, Reacting, Replying, Reading
  <2>2. ftp.timers # 1 /\ ~Fresh /\ ~Over /\ SameQueue
    BY <1>1, <1>2, <2>1, KeptQueue DEF Modes, Harmless, Has
  <2>. QED
    BY <1>1, <1>2, <1>4, <1>6, <2>2 DEF Modes, SameQueue, Rested
<1>12. \A g \in w : Under(g)'
  <2> SUFFICES ASSUME NEW g \in w PROVE Under(g)'
    OBVIOUS
  <2>1. Under(g) /\ g[1] \in {"commandFailed"} \cup Starting
    BY <1>1, <1>2, NamesOf
  <2>2. SameQueue
    BY <1>1, KeptQueue
  <2>. QED
    BY <1>4, <1>6, <2>1, <2>2 DEF Under, SameQueue, Starting, Reacting, Replying, Reading
<1>13. Stack'
  <2>1. "react" \in Names(w) => Online'
    BY <1>1, <1>2, <1>6 DEF Pairs
  <2>. QED
    BY <1>1, <1>6, <1>11, <1>12, <2>1, Resumed
<1>. QED
  BY <1>9, <1>10, <1>11, <1>13 DEF Core

-----------------------------------------------------------------------------
(* The queue of commands.                                                  *)

\* The user is told of the command in front.
LEMMA Reports ==
  ASSUME ftp \in FtpType, NEW id, NEW what \in {"started", "finished"},
         ftp'.signals = Append(ftp.signals, Told(what, id)), ~Empty', First'.id = id
  PROVE  /\ what = "started" => Running' /\ ~Over' /\ ~Fresh'
         /\ what = "finished" => Over' /\ ~Running' /\ ~Fresh' /\ ~Connects'
<1> DEFINE t == Told(what, id)
           s == ftp'.signals
<1>1. Told("started", id) # Told("finished", id)
  BY DEF Told
<1> HIDE DEF t
<1>2. PICK q \in Seq(ReportType) : q = ftp.signals
  BY DEF FtpType
<1>3. s = Append(q, t)
  BY <1>2 DEF t
<1>4. Len(s) = Len(q) + 1 /\ s[Len(q) + 1] = t /\ s # <<>>
  <2> DEFINE S == ReportType \cup {t}
  <2>1. q \in Seq(S) /\ t \in S
    <3>1. \A i \in 1..Len(q) : q[i] \in S
      BY <1>2, ElementOfSeq
    <3>. QED
      BY <1>2, <3>1, LenProperties, SeqDef
  <2> HIDE DEF S
  <2>2. Append(q, t) \in Seq(S) /\ Len(Append(q, t)) = Len(q) + 1 /\ Append(q, t)[Len(q) + 1] = t
    BY <2>1, AppendProperties
  <2>3. Len(q) \in Nat
    BY <1>2, LenProperties
  <2>4. Append(q, t) # <<>>
    BY <2>2, <2>3, EmptySeq
  <2>. QED
    BY <1>3, <2>2, <2>4
<1> HIDE DEF s
<1>5. s[Len(s)] = Told(what, First'.id)
  BY <1>4 DEF t
<1>6. \A x : Said(x)' <=> Told(x, First'.id) = Told(what, First'.id)
  BY <1>4, <1>5 DEF Said, s
<1>7. (Running' <=> what = "started") /\ (Over' <=> what = "finished")
  BY <1>6 DEF Running, Over, Told
<1>. QED
  BY <1>7 DEF Fresh, Connects

LEMMA TimerCore ==
  ASSUME Core, TypeInv, TypeInv', Timer
  PROVE  Core'
<1>1. NoAbort /\ Text /\ Pipe /\ Modes /\ ftp \in FtpType /\ Quiet /\ Tags = {} /\ UNCHANGED <<net, dtp, pi, lines>>
  BY DEF Core, TypeInv, Timer, Event, Tags
<1>2. ftp'.timers = ftp.timers - 1 /\ ftp'.pending = ftp.pending /\ ftp'.signals = ftp.signals
      /\ ftp'.closeWait = ftp.closeWait /\ ftp'.state = ftp.state /\ ftp.timers > 0
  BY <1>1 DEF Timer, FtpType
<1>3. ftp.timers = 1 /\ Fresh /\ ftp'.timers = 0 /\ SameQueue /\ Fresh'
  BY <1>1, <1>2, KeptQueue DEF Modes, SameQueue
<1> DEFINE a == Do("_q_startNextCommand")
<1>4. a \in Frame /\ a[1] = "_q_startNextCommand"
  BY FrameTypes DEF Plain, Do, Call
<1>5. calls' = <<a>>
  BY DEF Timer, Event
<1> HIDE DEF a
<1>6. Shape(calls, a, {})'
  BY <1>4, <1>5, Called1 DEF Attached
<1>7. Tags' = {a[1]} /\ \A name : In(name)' <=> a[1] = name
  BY <1>6, ShapePrime, NamesOf
<1>8. Pipe' /\ (Silent' <=> Silent) /\ Current' = Current /\ (Online' <=> Online)
  BY <1>1, KeptPipe DEF SamePipe
<1>9. ~Has("processed") /\ ~Has("processed")' /\ ~Has("closed") /\ ~Has("abort")' /\ lines = <<>>
  BY <1>1, <1>3, <1>4, <1>7 DEF Has, Modes, Text, In, Quiet
<1>10. NoAbort' /\ Text'
  <2>1. ~pi'.waitClose /\ lines' = <<>>
    BY <1>1, <1>3, <1>9 DEF Modes
  <2>2. Codes(Current)' = Codes(Current)
    BY <1>8 DEF Codes
  <2>. QED
    BY <1>1, <1>8, <1>9, <2>1, <2>2 DEF NoAbort, Text
<1>11. Modes'
  <2>1. (Rested' <=> Rested) /\ (Settled' <=> Settled) /\ (Looking' <=> Looking) /\ (Virgin' <=> Virgin)
    BY <1>1, <1>2 DEF Rested, Settled, Looking, Virgin, Online
  <2>2. ~Over /\ ~Running /\ ~In("_q_piConnectState")
    BY <1>1, <1>3, Phases DEF In, Quiet
  <2>. QED
    BY <1>1, <1>2, <1>3, <1>4, <1>7, <1>8, <1>9, <2>1, <2>2 DEF Modes, SameQueue, Has
<1>12. On(a)' /\ Pairs(a, {})'
  BY <1>3, <1>4, NamesOf DEF On, Pairs
<1>. QED
  BY <1>6, <1>8, <1>10, <1>11, <1>12, StackBy DEF Core

LEMMA NoRemove ==
  ASSUME NEW w, "removeFirst" \notin Names(w)
  PROVE  Call("removeFirst", FALSE) \notin w
BY NamesOf DEF Call

\* The command in front is told to be running.
LEMMA StartNextCommandCore ==
  ASSUME NEW f, NEW w, Facing(f, w), StartNextCommand
  PROVE  Core'
<1>1. /\ f[1] = "_q_startNextCommand" /\ Tags = {f[1]} \cup Names(w) /\ \A name : In(name) <=> f[1] = name
      /\ Names(w) \subseteq Reacting /\ ftp \in FtpType /\ dtp \in DtpType
      /\ UNCHANGED <<net, pi, lines>>
  BY Base, Orders DEF StartNextCommand
<1>2. NoAbort /\ Text /\ Pipe /\ Modes /\ Pairs(f, w) /\ \A g \in w : Under(g)
  BY DEF Facing
<1>3. Fresh /\ ftp.timers = 0 /\ ~Empty /\ ~Running /\ ~Over /\ Rested /\ Settled /\ ~Connects
  BY <1>1, Phases DEF Facing, On, Modes
<1>4. First \in CommandType
  BY <1>1, <1>3, FirstType
<1>5. /\ ftp'.signals = Append(ftp.signals, Told("started", First.id)) /\ ftp'.pending = ftp.pending
      /\ ftp'.state \in {ftp.state, "Closing"} /\ ftp'.closeWait = ftp.closeWait /\ ftp'.timers = ftp.timers
      /\ Then(Run(First))
  BY <1>1, <1>3 DEF StartNextCommand, FtpType
<1>6. dtp'.socket = dtp.socket /\ dtp'.listening = dtp.listening
  <2>1. PICK d : d = IF Available = <<>> THEN dtp ELSE ReadAll(dtp)
    OBVIOUS
  <2>2. d \in DtpType /\ d.socket = dtp.socket /\ d.listening = dtp.listening
    BY <1>1, <2>1, DtpParts, ZenonT(40) DEF ReadAll, DtpType
  <2>3. dtp' = Loaded(First, d)
    BY <1>3, <2>1 DEF StartNextCommand
  <2>. QED
    BY <2>2, <2>3 DEF Loaded, SetData, SetDevice, DtpType
<1>7. First' = First /\ ~Empty'
  BY <1>3, <1>5 DEF First, Empty
<1>8. Running' /\ ~Over' /\ ~Fresh' /\ (Connects' <=> First.command = "ConnectToHost")
  BY <1>1, <1>5, <1>7, Reports DEF Connects
<1>9. Pipe' /\ (Silent' <=> Silent) /\ Current' = Current /\ (Online' <=> Online)
  BY <1>1, <1>2, KeptPipe DEF SamePipe
<1>10. Rested' /\ Settled' /\ ~Looking' /\ (Virgin' <=> Virgin) /\ (DtpClosed' <=> DtpClosed) /\ ~ftp'.closeWait
  BY <1>1, <1>3, <1>5, <1>6, <1>9 DEF Rested, Settled, Looking, Virgin, DtpClosed
<1>11. Modes'
  <2>1. ftp.state \in {"Connected", "LoggedIn"} => Online
    BY <1>1, <1>2 DEF Modes
  <2>2. pi.state = "Begin" => Virgin
    BY <1>2, <1>3 DEF Modes
  <2>3. pi'.state \in {"Idle", "Begin"} /\ dtp'.socket # "connecting"
        /\ pi'.pending = <<>> /\ pi'.cmd = NoLine
    BY <1>10 DEF Rested, Virgin
  <2>. QED
    BY <1>1, <1>3, <1>5, <1>8, <1>9, <1>10, <2>1, <2>2, <2>3 DEF Modes
<1>12. \A g \in w : Under(g)'
  <2> SUFFICES ASSUME NEW g \in w PROVE Under(g)'
    OBVIOUS
  <2>1. Under(g) /\ g[1] \in Reacting
    BY <1>1, <1>2, NamesOf
  <2>. QED
    BY <1>10, <2>1 DEF Under, Reacting, Replying, Reading
\* What the frames that are called leave to be shown.
<1>13. ASSUME NEW a, NEW v, NEW S, Shape(calls, a, v)', Tags' = S \cup Names(w),
              S \cap {"abort", "processed", "closed", "readLines", "readyRead"} = {},
              On(a)', Pairs(a, v)', \A g \in v : Under(g)'
       PROVE  Core'
  <2>1. (Has("processed")' <=> Has("processed")) /\ (Has("closed")' <=> Has("closed")) /\ ~Has("abort")'
    BY <1>1, <1>2, <1>13 DEF Has, NoAbort
  <2>2. NoAbort'
    BY <1>1, <1>2, <2>1 DEF NoAbort
  <2>3. Text'
    <3>1. Codes(Current)' = Codes(Current)
      BY <1>9 DEF Codes
    <3>2. ~Ended /\ (lines # <<>> => pi.waitClose \/ Has("processed"))
      BY <1>1, <1>2, <1>3 DEF Ended, Rested, Virgin, Text
    <3>3. pi.waitClose => DtpClosed /\ Has("closed") /\ lines = <<>>
      BY <1>2, <3>2 DEF Text
    <3>. QED
      BY <1>1, <1>2, <1>9, <1>10, <2>1, <3>1, <3>2, <3>3 DEF Text
  <2>4. Stack'
    BY <1>13, StackBy
  <2>. QED
    BY <1>9, <1>11, <2>2, <2>3, <2>4 DEF Core
<1>14. /\ "react" \in Names(w) => Online'
       /\ Names(w) \cap {"processReply", "replied", "react"} # {} => "processed" \in Names(w)
       /\ Names(w) \cap {"cleared", "commandFailed", "removeFirst", "startNextCmd", "clearError", "failed",
                         "_q_piFinished"} = {}
  BY <1>1, <1>2, <1>9 DEF Pairs, Reacting, Replying, Reading
<1>15. Names(w) \subseteq Starting
  BY <1>1, Nested
<1>16. CASE First.command \in Immediate
  <2> DEFINE a == Do("_q_piFinished")
  <2>1. a \in Frame /\ a[1] = "_q_piFinished"
    BY FrameTypes DEF Plain, Do, Call
  <2>2. Then(<<a>>)
    BY <1>5, <1>16 DEF Run, PiFinished, Immediate
  <2> HIDE DEF a
  <2>3. Shape(calls, a, w)' /\ Tags' = {a[1]} \cup Names(w)
    <3>1. Names(w) \subseteq Beneath(a[1])
      BY <1>1, <2>1, Orders
    <3>. QED
      BY <1>1, <2>1, <2>2, <3>1, OneCalled DEF Attached
  <2>4. On(a)' /\ Pairs(a, w)'
    <3>1. First'.command # "Close"
      BY <1>7, <1>16 DEF Immediate
    <3>. QED
      BY <1>8, <1>10, <1>14, <2>1, <3>1 DEF On, Pairs, Failing
  <2>5. PICK S : Tags' = S \cup Names(w) /\ S = {a[1]}
    BY <2>3
  <2>. QED
    BY <1>12, <1>13, <2>1, <2>3, <2>4, <2>5
<1>17. CASE First.command = "ConnectToHost"
  <2> DEFINE a == PiConnectState("HostLookup")
             b == Do("connectToHost")
  <2>1. a \in Frame /\ a[1] = "_q_piConnectState" /\ a[2] = "HostLookup" /\ b \in Frame /\ b[1] = "connectToHost"
    BY FrameTypes DEF Plain, Do, Call, PiConnectState, States
  <2>2. Then(<<a, b>>)
    BY <1>5, <1>17 DEF Run, Immediate
  <2> HIDE DEF a, b
  <2>3. /\ Shape(calls, a, {b} \cup w)' /\ Tags' = {a[1], b[1]} \cup Names(w)
        /\ Names({b} \cup w) = {b[1]} \cup Names(w)
    <3>1. b[1] \notin Attached /\ Adjacent(a, b)
      BY <2>1 DEF Attached, Adjacent
    <3>2. Names(w) \cup {b[1]} \subseteq {"connectToHost", "_q_piError"} \cup Reacting
      BY <1>1, <2>1
    <3>3. Names(w) \subseteq Beneath(b[1]) /\ Names(w) \cup {b[1]} \subseteq Beneath(a[1])
      BY <1>1, <2>1, <3>2, Orders
    <3>. QED
      BY <1>1, <2>1, <2>2, <3>1, <3>3, TwoCalled
  <2>4. On(a)' /\ Under(b)' /\ Pairs(a, {b} \cup w)'
    BY <1>8, <1>10, <1>14, <1>17, <2>1, <2>3 DEF On, OnConnectState, Under, Pairs, Failing
  <2>5. PICK S : Tags' = S \cup Names(w) /\ S = {a[1], b[1]}
    BY <2>3
  <2>6. \A g \in {b} \cup w : Under(g)'
    BY <1>12, <2>4
  <2>. QED
    BY <1>13, <2>1, <2>3, <2>4, <2>5, <2>6
<1>18. ASSUME First.command \notin Immediate, First.command # "ConnectToHost",
              NEW b, b = Call("sendCommands", LinesOf(First))
       PROVE  b \in Frame /\ b[1] = "sendCommands" /\ Under(b)'
  <2>1. LinesOf(First) \in Seq(SentLines)
    BY <1>4, LinesOfType DEF CommandType
  <2>2. b \in Frame /\ b[1] = "sendCommands" /\ b[2] = LinesOf(First)
    BY <1>18, <2>1, FrameTypes DEF Call
  <2>3. LinesOf(First') = LinesOf(First)
    BY <1>7
  <2>. QED
    BY <1>7, <1>8, <1>10, <1>18, <2>2, <2>3 DEF Under
<1>19. CASE First.command = "Close"
  <2>1. PICK b : b = Call("sendCommands", LinesOf(First))
    OBVIOUS
  <2>2. b \in Frame /\ b[1] = "sendCommands" /\ Under(b)'
    BY <1>18, <1>19, <2>1 DEF Immediate
  <2> DEFINE a == Signal("stateChanged", 0)
  <2>3. a \in Frame /\ a[1] = "slot" /\ a[2] = [signal |-> "stateChanged", id |-> 0]
    BY FrameTypes DEF Signals, Signal, Call
  <2>4. Then(<<a, b>>)
    BY <1>5, <1>19, <2>1 DEF Run, Immediate
  <2> HIDE DEF a
  <2>5. /\ Shape(calls, a, {b} \cup w)' /\ Tags' = {a[1], b[1]} \cup Names(w)
        /\ Names({b} \cup w) = {b[1]} \cup Names(w)
    <3>1. b[1] \notin Attached /\ Adjacent(a, b)
      BY <2>2, <2>3 DEF Attached, Adjacent
    <3>2. Names(w) \cup {b[1]} \subseteq
            {"removeFirst", "sendCommands", "_q_piFinished", "connectToHost", "_q_piError"} \cup Starting
      BY <1>15, <2>2
    <3>3. Names(w) \subseteq Beneath(b[1]) /\ Names(w) \cup {b[1]} \subseteq Beneath(a[1])
      BY <1>1, <2>2, <2>3, <3>2, Orders
    <3>. QED
      BY <1>1, <2>2, <2>3, <2>4, <3>1, <3>3, TwoCalled
  <2>6. On(a)' /\ Pairs(a, {b} \cup w)'
    <3>1. Call("removeFirst", FALSE) \notin {b} \cup w
      BY <1>14, <2>2, <2>5, NoRemove
    <3>2. On(a)'
      BY <1>8, <2>3 DEF On, OnSlot
    <3>. QED
      BY <1>14, <2>2, <2>3, <2>5, <3>1, <3>2 DEF Pairs, Failing
  <2>7. PICK S : Tags' = S \cup Names(w) /\ S = {a[1], b[1]}
    BY <2>5
  <2>8. \A g \in {b} \cup w : Under(g)'
    BY <1>12, <2>2
  <2>. QED
    BY <1>13, <2>2, <2>3, <2>5, <2>6, <2>7, <2>8
<1>20. CASE First.command \notin Immediate \cup {"ConnectToHost", "Close"}
  <2>1. PICK b : b = Call("sendCommands", LinesOf(First))
    OBVIOUS
  <2>2. b \in Frame /\ b[1] = "sendCommands" /\ Under(b)'
    BY <1>18, <1>20, <2>1
  <2>3. Then(<<b>>)
    BY <1>5, <1>20, <2>1 DEF Run
  <2>4. Shape(calls, b, w)' /\ Tags' = {b[1]} \cup Names(w)
    <3>1. Names(w) \subseteq Beneath(b[1])
      BY <1>1, <2>2, Orders
    <3>. QED
      BY <1>1, <2>2, <2>3, <3>1, OneCalled DEF Attached
  <2>5. On(b)' /\ Pairs(b, w)'
    BY <1>14, <2>2 DEF On, Pairs, Failing
  <2>6. PICK S : Tags' = S \cup Names(w) /\ S = {b[1]}
    BY <2>4
  <2>. QED
    BY <1>12, <1>13, <2>2, <2>4, <2>5, <2>6
<1>. QED
  BY <1>16, <1>17, <1>19, <1>20

\* A step of QFtp itself leaves its two objects alone.
LEMMA QueueStep ==
  ASSUME NoAbort, Pipe, Text, UNCHANGED <<net, dtp, pi, lines>>, ~Has("abort")',
         Has("processed")' <=> Has("processed"), Has("closed") => Has("closed")',
         lines # <<>> => pi.waitClose \/ Has("processed")
  PROVE  /\ NoAbort' /\ Pipe' /\ Text' /\ (Online' <=> Online) /\ (Looking' <=> Looking)
         /\ (Virgin' <=> Virgin) /\ (Rested' <=> Rested) /\ (Halted' <=> Halted) /\ (DtpClosed' <=> DtpClosed)
<1>1. Pipe' /\ (Silent' <=> Silent) /\ Current' = Current /\ (Online' <=> Online) /\ Codes(Current)' = Codes(Current)
  BY KeptPipe DEF SamePipe, Codes
<1>2. /\ (Looking' <=> Looking) /\ (Virgin' <=> Virgin) /\ (DtpClosed' <=> DtpClosed) /\ (Ended' <=> Ended)
  BY <1>1 DEF Looking, Virgin, DtpClosed, Ended
<1>3. Rested' <=> Rested
  BY <1>2 DEF Rested
<1>4. Halted' <=> Halted
  BY <1>2 DEF Halted
<1>5. NoAbort' /\ Text'
  BY <1>1, <1>2 DEF NoAbort, Text
<1>. QED
  BY <1>1, <1>2, <1>3, <1>4, <1>5

LEMMA QueueTags ==
  ASSUME NEW f, NEW w, Facing(f, w), NEW S, Tags' = S \cup Names(w), "abort" \notin S, "processed" \notin S,
         f[1] \notin {"processed", "closed", "readyRead", "readLines"}
  PROVE  /\ ~Has("abort")' /\ (Has("processed")' <=> Has("processed")) /\ (Has("closed") => Has("closed")')
         /\ lines # <<>> => pi.waitClose \/ Has("processed")
<1>1. Tags = {f[1]} \cup Names(w) /\ (\A name : In(name) <=> f[1] = name) /\ Text /\ NoAbort
  BY Base DEF Facing
<1>. QED
  BY <1>1 DEF Has, Text, NoAbort

\* The user is told that a command is finished, and it leaves the queue.
LEMMA Finishing ==
  ASSUME NEW f, NEW w, Facing(f, w), f[1] \in {"_q_piFinished", "commandFailed"},
         Names(w) \subseteq Starting, Running, Rested, Settled, NEW error \in BOOLEAN,
         UNCHANGED <<net, dtp, pi, lines>>, Then(Tell(First.id, error)),
         ftp'.signals = Append(ftp.signals, Told("finished", First.id)), First' = First, ~Empty',
         ftp'.state = ftp.state, ftp'.closeWait = ftp.closeWait, ftp'.timers = ftp.timers,
         error => Len(ftp'.pending) = 1, ~error => Names(w) \cap Failing = {}
  PROVE  Core'
<1>1. /\ Tags = {f[1]} \cup Names(w) /\ \A name : In(name) <=> f[1] = name
      /\ ftp \in FtpType /\ pi \in PiType /\ dtp \in DtpType
  BY Base
<1>2. NoAbort /\ Text /\ Pipe /\ Modes /\ Pairs(f, w) /\ \A g \in w : Under(g)
  BY DEF Facing
<1>3. Over' /\ ~Running' /\ ~Fresh' /\ ~Connects'
  BY <1>1, Reports
<1>4. First.id \in Nat
  BY <1>1, FirstType, Phases DEF CommandType
<1> DEFINE s == IF error THEN "failed" ELSE "finished"
           a == Signal(s, First.id)
           b == Call("removeFirst", error)
<1>5. /\ a \in Frame /\ a[1] = "slot" /\ a[2].signal = s /\ b \in Frame /\ b[1] = "removeFirst" /\ b[2] = error
  BY <1>4, FrameTypes DEF Signals, Signal, Call
<1>6. Then(<<a, b>>)
  BY DEF Tell
<1>7. ~error => b = Call("removeFirst", FALSE)
  OBVIOUS
<1>8. error => b # Call("removeFirst", FALSE)
  BY DEF Call
<1>9. PICK x, y : x = a /\ y = b
  OBVIOUS
<1>10. /\ x \in Frame /\ x[1] = "slot" /\ x[2].signal \in {"failed", "finished"}
       /\ (x[2].signal = "finished" => ~error)
       /\ y \in Frame /\ y[1] = "removeFirst" /\ y[2] = error /\ Then(<<x, y>>)
       /\ (error <=> y # Call("removeFirst", FALSE))
  BY <1>5, <1>6, <1>7, <1>8, <1>9
<1> HIDE DEF a, b, s
<1>11. /\ Shape(calls, x, {y} \cup w)' /\ Tags' = {x[1], y[1]} \cup Names(w) /\ Waiting' = {y} \cup w
       /\ Names({y} \cup w) = {y[1]} \cup Names(w) /\ \A name : In(name)' <=> x[1] = name
  <2>1. y[1] \notin Attached /\ Adjacent(x, y)
    BY <1>10 DEF Attached, Adjacent
  <2>2. Names(w) \cup {y[1]} \subseteq
          {"removeFirst", "sendCommands", "_q_piFinished", "connectToHost", "_q_piError"} \cup Starting
    BY <1>10
  <2>3. Names(w) \subseteq Beneath(y[1]) /\ Names(w) \cup {y[1]} \subseteq Beneath(x[1])
    BY <1>10, <2>2, Orders
  <2>. QED
    BY <1>10, <2>1, <2>3, TwoCalled
<1>12. PICK S : Tags' = S \cup Names(w) /\ S = {"slot", "removeFirst"}
  BY <1>10, <1>11
<1>13. /\ NoAbort' /\ Pipe' /\ Text' /\ (Online' <=> Online) /\ (Looking' <=> Looking)
       /\ (Virgin' <=> Virgin) /\ Rested' /\ (DtpClosed' <=> DtpClosed)
  <2>1. f[1] \notin {"processed", "closed", "readyRead", "readLines"} /\ "abort" \notin S /\ "processed" \notin S
    BY <1>12
  <2>2. /\ ~Has("abort")' /\ (Has("processed")' <=> Has("processed")) /\ (Has("closed") => Has("closed")')
        /\ lines # <<>> => pi.waitClose \/ Has("processed")
    BY <1>12, <2>1, QueueTags
  <2>. QED
    BY <1>2, <2>2, QueueStep
<1>14. Settled'
  BY <1>13 DEF Settled
<1>15. Modes'
  <2>1. /\ pi'.state \in {"Idle", "Begin"} /\ dtp'.socket # "connecting" /\ (pi'.state = "Begin" => Virgin')
        /\ ~Looking' /\ ~ftp'.closeWait /\ ftp'.timers = 0 /\ Has("removeFirst")'
    BY <1>1, <1>2, <1>10, <1>11, <1>13, <1>14, Phases DEF Modes, Rested, Virgin, Settled, Has
  <2>2. ftp.state \in {"Connected", "LoggedIn"} => Online
    BY <1>1, <1>2 DEF Modes
  <2>. QED
    BY <1>3, <1>13, <1>14, <2>1, <2>2 DEF Modes
<1>16. On(x)' /\ Under(y)'
  BY <1>3, <1>10, <1>11 DEF On, OnSlot, Under
<1>17. \A g \in {y} \cup w : Under(g)'
  <2> SUFFICES ASSUME NEW g \in w PROVE Under(g)'
    BY <1>16
  <2>1. Under(g) /\ g[1] \in Starting
    BY <1>2, NamesOf
  <2>. QED
    BY <1>14, <2>1 DEF Under, Starting, Reacting, Replying, Reading
<1>18. Pairs(x, {y} \cup w)'
  <2>1. Call("removeFirst", FALSE) \in {y} \cup w => Names({y} \cup w) \cap Failing = {}
    <3>1. "removeFirst" \notin Names(w)
      BY DEF Starting, Reacting, Replying, Reading
    <3>. QED
      BY <1>10, <1>11, <3>1, NoRemove DEF Failing
  <2>2. "cleared" \notin Names(w) /\ "commandFailed" \notin Names(w) /\ "_q_piFinished" \notin Names(w)
    BY DEF Starting, Reacting, Replying, Reading
  <2>. QED
    BY <1>2, <1>10, <1>11, <1>13, <2>1, <2>2 DEF Pairs
<1>19. Stack'
  BY <1>11, <1>16, <1>17, <1>18, StackBy
<1>. QED
  BY <1>13, <1>15, <1>19 DEF Core

LEMMA PiFinishedCore ==
  ASSUME NEW f, NEW w, Facing(f, w), QPiFinished
  PROVE  Core'
<1>1. /\ f[1] = "_q_piFinished" /\ Names(w) \subseteq Reacting /\ Tags = {f[1]} \cup Names(w)
      /\ \A name : In(name) <=> f[1] = name
      /\ ftp \in FtpType /\ UNCHANGED <<net, dtp, pi, lines>>
  BY Base, Orders DEF QPiFinished
<1>2. NoAbort /\ Text /\ Pipe /\ Modes /\ Pairs(f, w) /\ \A g \in w : Under(g)
  BY DEF Facing
<1>3. Empty \/ (Running /\ Rested /\ Settled)
  BY <1>1 DEF Facing, On
<1>4. CASE Empty
  <2>1. Then(<<>>) /\ UNCHANGED ftp
    BY <1>4 DEF QPiFinished
  <2>2. SameState
    BY <1>1, <2>1, SameBut DEF SamePipe
  <2>. QED
    BY <1>1, <2>1, <2>2, Passes
\* QUIT was answered before the connection has gone.
<1>5. CASE ~Empty /\ First.command = "Close" /\ ftp.state # "Unconnected"
  <2>1. ftp' = [ftp EXCEPT !.closeWait = TRUE] /\ Then(<<>>)
    BY <1>5 DEF QPiFinished
  <2>2. /\ ftp'.pending = ftp.pending /\ ftp'.signals = ftp.signals /\ ftp'.closeWait
        /\ ftp'.state = ftp.state /\ ftp'.timers = ftp.timers
    BY <1>1, <2>1 DEF FtpType
  <2>3. SameQueue /\ Running /\ Rested /\ ~Connects /\ ~Fresh /\ ~Over /\ ~Looking
    BY <1>2, <1>3, <1>5, <2>2, KeptQueue, Phases DEF Settled
  <2>4. Tags' = Names(w) /\ \A name : In(name)' => name \in Names(w)
    BY <2>1, PoppedTags DEF Facing
  <2>5. PICK S : Tags' = S \cup Names(w) /\ S = {}
    BY <2>4
  <2>6. /\ NoAbort' /\ Pipe' /\ Text' /\ (Online' <=> Online) /\ (Looking' <=> Looking)
        /\ (Virgin' <=> Virgin) /\ Rested' /\ (DtpClosed' <=> DtpClosed)
    <3>1. f[1] \notin {"processed", "closed", "readyRead", "readLines"} /\ "abort" \notin S /\ "processed" \notin S
      BY <1>1, <2>5
    <3>2. /\ ~Has("abort")' /\ (Has("processed")' <=> Has("processed")) /\ (Has("closed") => Has("closed")')
          /\ lines # <<>> => pi.waitClose \/ Has("processed")
      BY <2>5, <3>1, QueueTags
    <3>3. /\ NoAbort' /\ Pipe' /\ Text' /\ (Online' <=> Online) /\ (Looking' <=> Looking)
          /\ (Virgin' <=> Virgin) /\ (Rested' <=> Rested) /\ (DtpClosed' <=> DtpClosed)
      BY <1>1, <1>2, <3>2, QueueStep
    <3>. QED
      BY <2>3, <3>3
  <2>7. Modes'
    <3>1. /\ pi'.state \in {"Idle", "Begin"} /\ dtp'.socket # "connecting" /\ (pi'.state = "Begin" => Virgin')
      BY <2>6 DEF Rested, Virgin
    <3>2. (ftp.state \in {"Connected", "LoggedIn"} => Online) /\ ftp.timers = 0
      BY <1>1, <1>2, <2>3 DEF Modes
    <3>. QED
      BY <1>5, <2>2, <2>3, <2>6, <3>1, <3>2 DEF Modes, SameQueue
  <2>8. Stack'
    <3>1. "react" \notin Names(w) /\ "cleared" \notin Names(w)
      BY <1>1, <1>2, <1>5 DEF Pairs, Reacting, Replying, Reading
    <3>2. ASSUME NEW g \in w PROVE Under(g)'
      <4>1. g[1] \in Replying \cup {"replied"} /\ Under(g)
        BY <1>1, <1>2, <3>1, NamesOf DEF Reacting
      <4>. QED
        BY <4>1 DEF Under, Replying, Reading
    <3>. QED
      BY <1>1, <2>1, <2>7, <3>1, <3>2, Resumed
  <2>. QED
    BY <2>6, <2>7, <2>8 DEF Core
<1>6. CASE ~Empty /\ ~(First.command = "Close" /\ ftp.state # "Unconnected")
  <2>1. Finish(First.id, FALSE) /\ Then(Tell(First.id, FALSE))
    BY <1>6 DEF QPiFinished
  <2>2. /\ ftp'.pending = ftp.pending /\ ftp'.signals = Append(ftp.signals, Told("finished", First.id))
        /\ ftp'.state = ftp.state /\ ftp'.closeWait = ftp.closeWait /\ ftp'.timers = ftp.timers
    BY <1>1, <2>1 DEF Finish, FtpType
  <2>3. First' = First /\ ~Empty'
    BY <1>6, <2>2 DEF First, Empty
  <2>4. Names(w) \subseteq Starting /\ Names(w) \cap Failing = {}
    BY <1>1, Nested DEF Failing, Reacting, Replying, Reading
  <2>. QED
    BY <1>1, <1>3, <1>6, <2>1, <2>2, <2>3, <2>4, Finishing
<1>. QED
  BY <1>4, <1>5, <1>6

LEMMA CommandFailedCore ==
  ASSUME NEW f, NEW w, Facing(f, w), CommandFailed
  PROVE  Core'
<1>1. /\ f[1] = "commandFailed" /\ Names(w) \subseteq Starting /\ Arg = f[2]
      /\ ftp \in FtpType /\ UNCHANGED <<net, dtp, pi, lines>> /\ Then(Tell(f[2], TRUE))
  <2>1. f[1] = "commandFailed" /\ Arg = f[2] /\ ftp \in FtpType /\ Names(w) \subseteq Beneath(f[1])
    BY Base DEF CommandFailed
  <2>2. Then(Tell(f[2], TRUE)) /\ UNCHANGED <<net, dtp, pi, lines>>
    BY <2>1 DEF CommandFailed
  <2>3. Beneath("commandFailed") = Starting
    BY Orders
  <2>. QED
    BY <2>1, <2>2, <2>3
<1>2. Running /\ Rested /\ Settled /\ f[2] = First.id /\ ~Empty
  BY <1>1, Phases DEF Facing, On, Under
<1>3. QueueTypes
  BY DEF Facing, TypeInv, QueueTypes
<1>4. KeepFirst(ftp) = [ftp EXCEPT !.pending = <<First>>]
  BY <1>2, <1>3, KeepFirstTypes
<1>5. /\ ftp'.pending = <<First>> /\ ftp'.signals = Append(ftp.signals, Told("finished", First.id))
      /\ ftp'.state = ftp.state /\ ftp'.closeWait = ftp.closeWait /\ ftp'.timers = ftp.timers
  BY <1>1, <1>2, <1>4 DEF CommandFailed, FtpType
<1>6. First' = First /\ ~Empty' /\ Len(ftp'.pending) = 1
  BY <1>5 DEF First, Empty
<1>. QED
  BY <1>1, <1>2, <1>5, <1>6, Finishing

\* An error that is not one of SIZE or ALLO.
LEMMA QPiErrorCore ==
  ASSUME NEW f, NEW w, Facing(f, w), QPiError
  PROVE  Core'
<1>1. /\ f[1] = "_q_piError" /\ Names(w) \subseteq Starting /\ Tags = {f[1]} \cup Names(w)
      /\ \A name : In(name) <=> f[1] = name
      /\ ftp \in FtpType /\ UNCHANGED <<net, dtp, pi, lines, ftp>>
  BY Base, Orders DEF QPiError
<1>2. NoAbort /\ Text /\ Pipe /\ Modes /\ Pairs(f, w) /\ \A g \in w : Under(g)
  BY DEF Facing
<1>3. (Empty \/ Running) /\ Settled /\ Halted
  BY <1>1 DEF Facing, On
<1>4. SameState
  BY <1>1, SameBut DEF SamePipe
<1>5. CASE Empty \/ NonFatal(First)
  <2>1. Then(<<>>)
    BY <1>5 DEF QPiError
  <2>. QED
    BY <1>1, <1>4, <2>1, Passes
<1>6. CASE ~Empty /\ ~NonFatal(First)
  <2>1. First.id \in Nat
    BY <1>1, <1>6, FirstType DEF CommandType
  <2> PICK a, b : a = Do("clearPendingCommands") /\ b = Call("commandFailed", First.id)
    OBVIOUS
  <2>2. /\ a \in Frame /\ a[1] = "clearPendingCommands"
        /\ b \in Frame /\ b[1] = "commandFailed" /\ b[2] = First.id
    BY <2>1, FrameTypes DEF Plain, Do, Call
  <2>3. Then(<<a, b>>)
    BY <1>6 DEF QPiError
  <2>4. /\ Shape(calls, a, {b} \cup w)' /\ Tags' = {a[1], b[1]} \cup Names(w)
        /\ Names({b} \cup w) = {b[1]} \cup Names(w) /\ \A name : In(name)' <=> a[1] = name
    <3>1. b[1] \notin Attached /\ Adjacent(a, b)
      BY <2>2 DEF Attached, Adjacent
    <3>2. Names(w) \cup {b[1]} \subseteq {"commandFailed"} \cup Starting
      BY <1>1, <2>2
    <3>3. Names(w) \subseteq Beneath(b[1]) /\ Names(w) \cup {b[1]} \subseteq Beneath(a[1])
      BY <1>1, <2>2, <3>2, Orders
    <3>. QED
      BY <1>1, <2>2, <2>3, <3>1, <3>3, TwoCalled
  <2>5. PICK S : Tags' = S \cup Names(w) /\ S = {"clearPendingCommands", "commandFailed"}
    BY <2>2, <2>4
  <2>6. SameTags
    <3>1. ftp.timers # 1
      BY <1>2, <1>3, <1>6, Phases DEF Modes
    <3>. QED
      BY <1>1, <2>5, <3>1, NextTags
  <2>7. SameQueue /\ (Settled' <=> Settled) /\ (Halted => Halted') /\ (Online' <=> Online)
    BY <1>2, <1>4, <2>6, Steady DEF SameState
  <2>8. On(a)' /\ Under(b)'
    BY <1>3, <1>6, <2>2, <2>7 DEF On, Under, SameQueue
  <2>9. Pairs(a, {b} \cup w)'
    <3>1. "cleared" \notin Names(w)
      BY <1>1 DEF Starting, Reacting, Replying, Reading
    <3>. QED
      BY <1>1, <1>2, <2>2, <2>4, <2>7, <3>1 DEF Pairs
  <2>10. \A g \in {b} \cup w : g \in w \/ Under(g)'
    BY <2>8
  <2>. QED
    BY <1>4, <2>4, <2>6, <2>8, <2>9, <2>10, Calls
<1>. QED
  BY <1>5, <1>6

\* The commands have identifiers of their own, in the order of the queue.
LEMMA Behind ==
  ASSUME TypeInv, ~Empty, ftp'.pending = Tail(ftp.pending)
  PROVE  /\ Empty' <=> Len(ftp.pending) = 1
         /\ ~Empty' => First'.id # First.id
<1>1. PICK q \in Seq(CommandType) : q = ftp.pending
  BY DEF TypeInv, FtpType
<1>2. q # <<>> /\ Len(q) \in Nat /\ Len(q) # 0
  BY <1>1, EmptySeq, LenProperties DEF Empty
<1>3. /\ Tail(q) \in Seq(CommandType) /\ Len(Tail(q)) = Len(q) - 1
      /\ \A i \in 1..Len(Tail(q)) : Tail(q)[i] = q[i + 1]
  BY <1>2, HeadTailProperties
<1>4. Empty' <=> Len(q) = 1
  <2>1. PICK t \in Seq(CommandType) : t = ftp'.pending /\ Len(t) = Len(q) - 1
    BY <1>1, <1>3
  <2>2. t = <<>> <=> Len(t) = 0
    BY <2>1, EmptySeq
  <2>. QED
    BY <1>2, <2>1, <2>2 DEF Empty
<1>5. ASSUME ~Empty' PROVE First'.id # First.id
  <2>1. Len(q) >= 2 /\ First' = q[2] /\ First = q[1]
    <3>1. Len(q) >= 2
      <4>1. Len(q) # 1
        BY <1>4, <1>5
      <4>2. PICK n \in Nat : n = Len(q)
        BY <1>2
      <4>3. n # 0 /\ n # 1
        BY <1>2, <4>1, <4>2
      <4>4. n >= 2
        BY <4>3
      <4>. QED
        BY <4>2, <4>4
    <3>2. 1 \in 1..Len(Tail(q))
      BY <1>2, <1>3, <3>1
    <3>3. First' = Tail(q)[1] /\ First = q[1]
      BY <1>1 DEF First
    <3>. QED
      BY <1>3, <3>1, <3>2, <3>3
  <2>2. q[1].id < q[2].id /\ q[1] \in CommandType /\ q[2] \in CommandType
    BY <1>1, <1>2, <2>1, ElementOfSeq DEF TypeInv, Queued
  <2>. QED
    BY <2>1, <2>2 DEF CommandType
<1>. QED
  BY <1>1, <1>4, <1>5

\* The command in front leaves the queue.
LEMMA RemoveFirstCore ==
  ASSUME NEW f, NEW w, Facing(f, w), RemoveFirstCommand
  PROVE  Core'
<1>1. /\ f[1] = "removeFirst" /\ Names(w) \subseteq Starting /\ Tags = {f[1]} \cup Names(w)
      /\ \A name : In(name) <=> f[1] = name
      /\ Arg = f[2] /\ ftp \in FtpType /\ UNCHANGED <<net, dtp, pi, lines>> /\ f[2] \in BOOLEAN
  <2>1. f \in Frame
    BY DEF Facing
  <2>. QED
    BY <2>1, Base, Orders, FrameArgs DEF RemoveFirstCommand
<1>2. NoAbort /\ Text /\ Pipe /\ Modes /\ Pairs(f, w) /\ (\A g \in w : Under(g)) /\ TypeInv
  BY DEF Facing
<1>3. Over /\ ~Empty /\ ~Fresh /\ ~Running /\ Rested /\ Settled /\ ~Connects /\ (f[2] => Len(ftp.pending) = 1)
      /\ ftp.timers = 0
  BY <1>1, <1>2, Phases DEF Facing, On, Under, Modes
<1>4. /\ ftp'.pending = Tail(ftp.pending) /\ ftp'.signals = ftp.signals /\ ftp'.state = ftp.state
      /\ ftp'.closeWait = ftp.closeWait /\ ftp'.timers = ftp.timers
  BY <1>1 DEF RemoveFirstCommand, FtpType
<1>5. (Empty' <=> Len(ftp.pending) = 1) /\ (~Empty' => First'.id # First.id)
  BY <1>2, <1>3, <1>4, Behind
<1>6. ~Running' /\ ~Over' /\ (Fresh' <=> ~Empty') /\ ~Connects'
  <2>1. ftp'.signals[Len(ftp'.signals)] = Told("finished", First.id)
    BY <1>3, <1>4 DEF Over, Said
  <2>2. ~Empty' => \A x : Told(x, First'.id) # Told("finished", First.id)
    BY <1>5 DEF Told
  <2>3. \A x : ~Said(x)'
    BY <2>1, <2>2 DEF Said
  <2>. QED
    BY <2>3 DEF Running, Over, Fresh, Connects
\* What the frame that is called leaves to be shown.
<1>7. ASSUME NEW a, Shape(calls, a, w)', Tags' = {a[1]} \cup Names(w), \A name : In(name)' <=> a[1] = name,
             a[1] \in {"slot", "_q_startNextCommand"},
             Fresh' => a[1] = "_q_startNextCommand", On(a)'
      PROVE  Core'
  <2>1. PICK S : Tags' = S \cup Names(w) /\ S = {a[1]}
    BY <1>7
  <2>2. f[1] \notin {"processed", "closed", "readyRead", "readLines"} /\ "abort" \notin S /\ "processed" \notin S
    BY <1>1, <1>7, <2>1
  <2>3. /\ ~Has("abort")' /\ (Has("processed")' <=> Has("processed")) /\ (Has("closed") => Has("closed")')
        /\ lines # <<>> => pi.waitClose \/ Has("processed")
    BY <2>1, <2>2, QueueTags
  <2>4. /\ NoAbort' /\ Pipe' /\ Text' /\ (Online' <=> Online) /\ (Looking' <=> Looking)
        /\ (Virgin' <=> Virgin) /\ (Rested' <=> Rested) /\ (DtpClosed' <=> DtpClosed)
    BY <1>1, <1>2, <2>3, QueueStep
  <2>5. Settled'
    BY <1>3, <1>4, <2>4 DEF Settled
  <2>6. Modes'
    <3>1. /\ pi'.state \in {"Idle", "Begin"} /\ dtp'.socket # "connecting" /\ (pi'.state = "Begin" => Virgin')
          /\ ~Looking' /\ ~ftp'.closeWait /\ ftp'.timers = 0
      BY <1>3, <1>4, <2>4, <2>5 DEF Rested, Virgin, Settled
    <3>2. ftp.state \in {"Connected", "LoggedIn"} => Online
      BY <1>1, <1>2 DEF Modes
    <3>3. Rested' /\ (Fresh' => In("_q_startNextCommand")')
      BY <1>3, <1>7, <2>4
    <3>. QED
      BY <1>4, <1>6, <2>4, <2>5, <3>1, <3>2, <3>3 DEF Modes
  <2>7. Pairs(a, w)'
    <3>1. "cleared" \notin Names(w) /\ "commandFailed" \notin Names(w) /\ "removeFirst" \notin Names(w)
      BY <1>1 DEF Starting, Reacting, Replying, Reading
    <3>2. Call("removeFirst", FALSE) \notin w
      BY <3>1, NoRemove
    <3>. QED
      BY <1>1, <1>2, <1>7, <2>4, <3>1, <3>2 DEF Pairs
  <2>8. ASSUME NEW g \in w PROVE Under(g)'
    <3>1. Under(g) /\ g[1] \in Starting
      BY <1>1, <1>2, NamesOf
    <3>2. pi' = pi
      BY <1>1
    <3>. QED
      BY <2>5, <3>1, <3>2 DEF Under, Starting, Reacting, Replying, Reading
  <2>9. Stack'
    BY <1>7, <2>7, <2>8, StackBy
  <2>. QED
    BY <2>4, <2>6, <2>9 DEF Core
<1>8. CASE Len(ftp.pending) = 1
  <2> DEFINE s == IF f[2] THEN "undone" ELSE "done"
             a == Signal(s, 0)
  <2>1. a \in Frame /\ a[1] = "slot" /\ a[2].signal \in {"done", "undone"}
    BY <1>1, FrameTypes DEF Signals, Signal, Call
  <2>2. Then(<<a>>)
    BY <1>1, <1>8 DEF RemoveFirstCommand
  <2> HIDE DEF a, s
  <2>3. Names(w) \subseteq Beneath(a[1])
    BY <1>1, <2>1, Orders
  <2>4. /\ Shape(calls, a, w)' /\ Tags' = {a[1]} \cup Names(w) /\ \A name : In(name)' <=> a[1] = name
    BY <1>1, <2>1, <2>2, <2>3, OneCalled DEF Attached
  <2>5. On(a)'
    BY <2>1 DEF On, OnSlot
  <2>. QED
    BY <1>5, <1>6, <1>7, <1>8, <2>1, <2>4, <2>5
<1>9. CASE Len(ftp.pending) # 1
  <2> DEFINE a == Do("_q_startNextCommand")
  <2>1. a \in Frame /\ a[1] = "_q_startNextCommand"
    BY FrameTypes DEF Plain, Do, Call
  <2>2. Then(<<a>>)
    BY <1>9 DEF RemoveFirstCommand
  <2> HIDE DEF a
  <2>3. Names(w) \subseteq Beneath(a[1])
    <3>1. Names(w) \cap Failing = {}
      BY <1>1, <1>2, <1>3, <1>9 DEF Pairs
    <3>2. Names(w) \subseteq Reacting
      BY <1>1, <3>1 DEF Failing, Starting
    <3>. QED
      BY <2>1, <3>2, Orders
  <2>4. /\ Shape(calls, a, w)' /\ Tags' = {a[1]} \cup Names(w) /\ \A name : In(name)' <=> a[1] = name
    BY <1>1, <2>1, <2>2, <2>3, OneCalled DEF Attached
  <2>5. On(a)'
    BY <1>3, <1>4, <1>5, <1>6, <1>9, <2>1 DEF On
  <2>. QED
    BY <1>7, <2>1, <2>4, <2>5
<1>. QED
  BY <1>8, <1>9

\* The state of the connection changes, and a close that waited for it ends.
LEMMA QPiConnectStateCore ==
  ASSUME NEW f, NEW w, Facing(f, w), QPiConnectState
  PROVE  Core'
<1>1. /\ f[1] = "_q_piConnectState" /\ Names(w) \subseteq {"connectToHost", "_q_piError"} \cup Reacting
      /\ Tags = {f[1]} \cup Names(w) /\ \A name : In(name) <=> f[1] = name
      /\ Arg = f[2] /\ ftp \in FtpType /\ UNCHANGED <<net, dtp, pi, lines>>
  BY Base, Orders DEF QPiConnectState
<1>2. NoAbort /\ Text /\ Pipe /\ Modes /\ Pairs(f, w) /\ (\A g \in w : Under(g)) /\ Waiting = w
  BY Base DEF Facing
<1>3. (Running \/ w = {}) /\ (f[2] \in {"Connected", "LoggedIn"} => Online)
  BY <1>1, <1>2 DEF Facing, On, OnConnectState
<1>4. /\ ftp'.pending = ftp.pending /\ ftp'.signals = ftp.signals /\ ftp'.state = f[2]
      /\ ~ftp'.closeWait /\ ftp'.timers = ftp.timers
  <2>1. ftp' = [ftp EXCEPT !.state = f[2], !.closeWait = FALSE]
    BY <1>1 DEF QPiConnectState
  <2>. QED
    BY <1>1, <2>1 DEF FtpType
<1>5. SameQueue
  BY <1>4, KeptQueue
<1>6. /\ {"removeFirst", "cleared", "commandFailed", "_q_piFinished", "startNextCmd", "clearError", "failed"}
           \cap Names(w) = {}
      /\ Call("removeFirst", FALSE) \notin w
  <2>1. {"removeFirst", "cleared", "commandFailed", "_q_piFinished", "startNextCmd", "clearError", "failed"}
           \cap Names(w) = {}
    BY <1>1 DEF Reacting, Replying, Reading
  <2>. QED
    BY <2>1, NoRemove
<1>7. ~Over /\ (Fresh => ftp.timers = 1) /\ (ftp.timers = 1 => Fresh /\ w = {} /\ ~ftp.closeWait)
  <2>1. ~Over
    BY <1>1, <1>2, <1>6 DEF Modes, Has
  <2>2. Fresh => ftp.timers = 1
    BY <1>1, <1>2 DEF Modes
  <2>3. ftp.timers = 1 => Fresh /\ ~Running
    BY <1>2, Phases DEF Modes
  <2>. QED
    BY <1>2, <1>3, <2>1, <2>2, <2>3 DEF Modes
\* What the frames that are called leave to be shown.
<1>8. ASSUME NEW a, NEW v, NEW S, Shape(calls, a, v)', Tags' = S \cup Names(w), \A name : In(name)' <=> a[1] = name,
             "slot" \in S, S \subseteq {"slot", "_q_piFinished"}, "_q_piFinished" \in S => ftp.closeWait, a[1] = "slot",
             On(a)', Pairs(a, v)', v \subseteq Frame,
             \A g \in v : g \in w \/ Under(g)'
      PROVE  Core'
  <2>2. f[1] \notin {"processed", "closed", "readyRead", "readLines"} /\ "abort" \notin S /\ "processed" \notin S
    BY <1>1, <1>8
  <2>3. /\ ~Has("abort")' /\ (Has("processed")' <=> Has("processed")) /\ (Has("closed") => Has("closed")')
        /\ lines # <<>> => pi.waitClose \/ Has("processed")
    BY <1>8, <2>2, QueueTags
  <2>4. /\ NoAbort' /\ Pipe' /\ Text' /\ (Online' <=> Online) /\ (Looking' <=> Looking)
        /\ (Virgin' <=> Virgin) /\ (Rested' <=> Rested) /\ (DtpClosed' <=> DtpClosed)
    BY <1>1, <1>2, <2>3, QueueStep
  <2>5. Settled => Settled'
    BY <1>4, <2>4 DEF Settled
  <2>6. Modes'
    <3>1. ~Running' => Rested' /\ Settled'
      BY <1>2, <1>5, <2>4, <2>5 DEF Modes, SameQueue
    <3>2. /\ Connects' => /\ pi'.pending = <<>> /\ pi'.cmd = NoLine /\ dtp'.socket # "connecting"
                          /\ pi'.state \in {"Idle", "Begin"} /\ ~ftp'.closeWait
          /\ Looking' => Connects' /\ (pi'.state = "Idle" \/ Virgin')
          /\ pi'.state = "Begin" => Virgin' \/ (Connects' /\ ~Looking')
          /\ dtp'.socket = "connecting" => pi'.waitConnect /\ Running' /\ pi'.state \in {"Success", "Idle"}
      BY <1>1, <1>2, <1>4, <1>5, <2>4 DEF Modes, SameQueue
    <3>3. /\ pi'.state = "Success" => Has("react")'
          /\ pi'.state = "Failure" => Has("react")' \/ Has("failed")'
      BY <1>1, <1>2, <1>8 DEF Modes, Has
    <3>4. ftp'.timers = 1 => Fresh' /\ ~pi'.waitClose /\ Tags' \subseteq Harmless
      <4>1. ftp.timers = 1 => Fresh' /\ ~pi'.waitClose
        BY <1>1, <1>2, <1>5 DEF Modes, SameQueue
      <4>2. ftp.timers = 1 => Tags' \subseteq {"slot"}
        BY <1>7, <1>8, NamesOf
      <4>. QED
        BY <1>4, <4>1, <4>2 DEF Harmless
    <3>5. /\ Fresh' => ftp'.timers = 1
          /\ ~Over'
          /\ ftp'.state \in {"Connected", "LoggedIn"} => Online'
          /\ ftp'.timers \in {0, 1}
      BY <1>2, <1>3, <1>4, <1>5, <1>7, <2>4 DEF SameQueue, Modes
    <3>. QED
      BY <1>4, <3>1, <3>2, <3>3, <3>4, <3>5 DEF Modes
  <2>7. ASSUME NEW g \in v PROVE Under(g)'
    <3>1. CASE g \in w
      <4>1. Under(g) /\ g[1] \in {"connectToHost", "_q_piError"} \cup Reacting
        BY <1>1, <1>2, <3>1, NamesOf
      <4>. QED
        BY <1>1, <1>5, <2>4, <2>5, <4>1 DEF Under, SameQueue, Reacting, Replying, Reading
    <3>. QED
      BY <1>8, <3>1
  <2>8. Stack'
    BY <1>8, <2>7, StackBy
  <2>. QED
    BY <2>4, <2>6, <2>8 DEF Core
<1>9. PICK a : a = Signal("stateChanged", 0)
  OBVIOUS
<1>10. a \in Frame /\ a[1] = "slot" /\ a[2].signal = "stateChanged" /\ w \subseteq Frame
  BY <1>9, FrameTypes DEF Signals, Signal, Call, Facing
<1>11. Online' <=> Online
  BY <1>1 DEF Online
<1>12. CASE ~ftp.closeWait
  <2>1. Then(<<a>>)
    <3>1. <<Signal("stateChanged", 0)>> \o <<>> = <<a>>
      BY <1>9, <1>10, Joined
    <3>. QED
      BY <1>12, <3>1 DEF QPiConnectState
  <2>2. /\ Shape(calls, a, w)' /\ Tags' = {a[1]} \cup Names(w) /\ Waiting' = w
        /\ \A name : In(name)' <=> a[1] = name
    <3>1. Names(w) \subseteq Beneath(a[1])
      <4>1. Names(w) \subseteq {"removeFirst", "sendCommands", "_q_piFinished", "connectToHost", "_q_piError"}
                                 \cup Starting
        BY <1>1, Nested
      <4>. QED
        BY <1>10, <4>1, Orders
    <3>. QED
      BY <1>1, <1>10, <2>1, <3>1, OneCalled DEF Attached
  <2>3. On(a)'
    BY <1>3, <1>5, <1>10, <2>2 DEF On, OnSlot, SameQueue
  <2>4. Pairs(a, w)'
    BY <1>1, <1>2, <1>6, <1>10, <1>11 DEF Pairs
  <2>5. PICK S : Tags' = S \cup Names(w) /\ S = {"slot"}
    BY <1>10, <2>2
  <2>. QED
    BY <1>8, <1>10, <2>2, <2>3, <2>4, <2>5
<1>13. CASE ftp.closeWait
  <2>1. /\ Running /\ First.command = "Close" /\ Rested /\ ~Connects /\ ~Looking
    BY <1>2, <1>13 DEF Modes, Connects
  <2>2. Names(w) \subseteq Reacting /\ "react" \notin Names(w)
    <3>1. "connectToHost" \notin Names(w) /\ "_q_piError" \notin Names(w)
      BY <1>2, <2>1, NamesOf DEF Under
    <3>2. "react" \notin Names(w)
      BY <1>2, <1>13, NamesOf DEF Under, Settled
    <3>. QED
      BY <1>1, <3>1, <3>2
  <2>3. PICK b : b = PiFinished
    OBVIOUS
  <2>4. b \in Frame /\ b[1] = "_q_piFinished"
    BY <2>3, FrameTypes DEF Plain, PiFinished, Do, Call
  <2>5. Then(<<a, b>>)
    <3>1. <<Signal("stateChanged", 0)>> \o <<PiFinished>> = <<a, b>>
      BY <1>9, <1>10, <2>3, <2>4, Joined
    <3>. QED
      BY <1>13, <3>1 DEF QPiConnectState
  <2>6. /\ Shape(calls, a, {b} \cup w)' /\ Tags' = {a[1], b[1]} \cup Names(w)
        /\ Names({b} \cup w) = {b[1]} \cup Names(w) /\ \A name : In(name)' <=> a[1] = name
        /\ Waiting' = {b} \cup w
    <3>1. b[1] \notin Attached /\ Adjacent(a, b)
      BY <1>10, <2>4 DEF Attached, Adjacent
    <3>2. Names(w) \cup {b[1]} \subseteq
            {"removeFirst", "sendCommands", "_q_piFinished", "connectToHost", "_q_piError"} \cup Starting
      BY <2>2, <2>4, Nested
    <3>3. Names(w) \subseteq Beneath(b[1]) /\ Names(w) \cup {b[1]} \subseteq Beneath(a[1])
      BY <1>10, <2>2, <2>4, <3>2, Orders
    <3>. QED
      BY <1>1, <1>10, <2>4, <2>5, <3>1, <3>3, TwoCalled
  <2>7. On(a)'
    BY <1>5, <1>10, <2>1 DEF On, OnSlot, SameQueue
  <2>8. Under(b)'
    <3>1. Rested' /\ Settled'
      BY <1>1, <1>4, <1>11, <2>1 DEF Rested, Virgin, Settled, Looking
    <3>. QED
      BY <1>5, <2>1, <2>4, <3>1 DEF Under, SameQueue
  <2>9. Pairs(a, {b} \cup w)'
    <3>1. Call("removeFirst", FALSE) \notin {b} \cup w
      BY <1>6, <2>4, <2>6, NoRemove
    <3>. QED
      BY <1>1, <1>2, <1>6, <1>10, <1>11, <2>2, <2>4, <2>6, <3>1 DEF Pairs
  <2>10. PICK S : Tags' = S \cup Names(w) /\ S = {"slot", "_q_piFinished"}
    BY <1>10, <2>4, <2>6
  <2>11. PICK v : v = {b} \cup w
    OBVIOUS
  <2>12. /\ Shape(calls, a, v)' /\ Pairs(a, v)' /\ v \subseteq Frame /\ \A g \in v : g \in w \/ Under(g)'
    BY <1>10, <2>4, <2>6, <2>8, <2>9, <2>11
  <2>. QED
    BY <1>8, <1>10, <1>13, <2>6, <2>7, <2>10, <2>12
<1>. QED
  BY <1>12, <1>13

-----------------------------------------------------------------------------
(* The user.                                                               *)

\* What was last reported is about a command that was given.
Heard == ftp.signals # <<>> => ftp.signals[Len(ftp.signals)].id <= ftp.last

\* The signals in whose slots the user may ask for more without being told that
\* a command is finished that was never started: not commandFinished with an
\* error, whose slot may leave processReply a line to send in the state Waiting,
\* and not done.
PlainSlots == Slots \subseteq {"finished", "readyRead", "stateChanged"}

LEMMA AskedParts ==
  ASSUME TypeInv, NEW c \in Commands, Ask(c)
  PROVE  /\ pi'.state = pi.state /\ pi'.cmd = pi.cmd /\ pi'.pending = pi.pending /\ pi'.abort = pi.abort
         /\ pi'.waitConnect = pi.waitConnect /\ pi'.waitClose = pi.waitClose
         /\ pi'.text = pi.text /\ pi'.code = pi.code /\ pi'.to = pi.to
         /\ ftp'.state = ftp.state /\ ftp'.closeWait = ftp.closeWait /\ ftp'.signals = ftp.signals
         /\ ftp'.last = ftp.last + 1 /\ UNCHANGED <<net, dtp, lines>>
         /\ ftp'.timers = IF Empty THEN ftp.timers + 1 ELSE ftp.timers
         /\ ftp'.pending = Append(ftp.pending, [id |-> ftp.last + 1, command |-> c, mode |-> ftp.mode])
         /\ ~Empty' /\ (~Empty => First' = First) /\ (Empty => First'.id = ftp.last + 1)
<1>1. pi \in PiType /\ ftp \in FtpType
  BY DEF TypeInv
<1>2. /\ pi'.state = pi.state /\ pi'.cmd = pi.cmd /\ pi'.pending = pi.pending /\ pi'.abort = pi.abort
      /\ pi'.waitConnect = pi.waitConnect /\ pi'.waitClose = pi.waitClose
      /\ pi'.text = pi.text /\ pi'.code = pi.code /\ pi'.to = pi.to
  BY <1>1 DEF Ask, Extended, PiType
<1>3. PICK new : new = [id |-> ftp.last + 1, command |-> c, mode |-> ftp.mode]
  OBVIOUS
<1>4. PICK t, m, l : /\ t = (IF ftp.pending = <<>> THEN ftp.timers + 1 ELSE ftp.timers) /\ l = ftp.last + 1
                     /\ m = (IF c \in {"Active", "Passive"} THEN c ELSE ftp.mode)
  OBVIOUS
<1>5. PICK q : q = Append(ftp.pending, new)
  OBVIOUS
<1>6. ftp' = [ftp EXCEPT !.pending = q, !.last = l, !.timers = t, !.mode = m]
  BY <1>3, <1>4, <1>5 DEF Ask, Add
<1>7. /\ ftp'.state = ftp.state /\ ftp'.closeWait = ftp.closeWait /\ ftp'.signals = ftp.signals
      /\ ftp'.last = l /\ ftp'.timers = t /\ ftp'.pending = q
  BY <1>1, <1>6 DEF FtpType
<1>8. new \in CommandType /\ new.id = ftp.last + 1
  BY <1>1, <1>3 DEF FtpType, CommandType
<1>9. PICK p \in Seq(CommandType) : p = ftp.pending
  BY <1>1 DEF FtpType
<1>10. /\ q \in Seq(CommandType) /\ Len(q) = Len(p) + 1 /\ Len(p) \in Nat
       /\ \A i \in 1..Len(p) : q[i] = p[i]
       /\ q[Len(p) + 1] = new
  BY <1>5, <1>8, <1>9, AppendProperties, LenProperties
<1>11. q # <<>>
  BY <1>10, EmptySeq
<1>12. p = <<>> <=> Len(p) = 0
  BY <1>9, EmptySeq
<1>13. ~Empty' /\ (Empty <=> p = <<>>) /\ First' = q[1] /\ First = p[1]
  BY <1>7, <1>9, <1>11 DEF Empty, First
<1>14. p # <<>> => q[1] = p[1]
  BY <1>10, <1>12
<1>15. p = <<>> => q[1] = new
  BY <1>10, <1>12
<1>16. ftp'.timers = IF Empty THEN ftp.timers + 1 ELSE ftp.timers
  BY <1>4, <1>7 DEF Empty
<1>. QED
  BY <1>2, <1>3, <1>4, <1>5, <1>7, <1>8, <1>13, <1>14, <1>15, <1>16 DEF Ask

\* A command is added behind others.
LEMMA AskedBehind ==
  ASSUME TypeInv, NoAbort, Pipe, Text, Modes, NEW c \in Commands, Ask(c), ~Empty, SameTags
  PROVE  /\ NoAbort' /\ Pipe' /\ Text' /\ Modes' /\ (Online' <=> Online) /\ (DtpClosed' <=> DtpClosed)
         /\ SameQueue
         /\ \A g : Under(g) /\ ~(g[1] = "removeFirst" /\ g[2]) => Under(g)'
<1>1. /\ pi'.state = pi.state /\ pi'.cmd = pi.cmd /\ pi'.pending = pi.pending /\ pi'.abort = pi.abort
      /\ pi'.waitConnect = pi.waitConnect /\ pi'.waitClose = pi.waitClose
      /\ pi'.text = pi.text /\ pi'.code = pi.code /\ pi'.to = pi.to
      /\ ftp'.state = ftp.state /\ ftp'.closeWait = ftp.closeWait /\ ftp'.signals = ftp.signals
      /\ UNCHANGED <<net, dtp, lines>> /\ ftp'.timers = ftp.timers
      /\ ~Empty' /\ First' = First
  BY AskedParts
<1>2. /\ Pipe' /\ (Silent' <=> Silent) /\ Current' = Current /\ Stream' = Stream
      /\ (Online' <=> Online)
  BY <1>1, KeptPipe DEF SamePipe
<1>3. (Looking' <=> Looking) /\ (Virgin' <=> Virgin) /\ (DtpClosed' <=> DtpClosed) /\ (Ended' <=> Ended)
  BY <1>1, <1>2 DEF Looking, Virgin, DtpClosed, Ended, SameTags
<1>4. (Rested' <=> Rested) /\ (Settled' <=> Settled) /\ (Halted' <=> Halted)
  BY <1>1, <1>3 DEF Rested, Settled, Halted
<1>5. SameQueue
  <2>1. (Running' <=> Running) /\ (Over' <=> Over)
    BY <1>1 DEF Running, Over, Said
  <2>. QED
    BY <1>1, <2>1 DEF Fresh, Connects, SameQueue
<1>6. NoAbort'
  BY <1>1 DEF NoAbort, SameTags
<1>7. Text'
  <2>1. Codes(Current)' = Codes(Current)
    BY <1>2 DEF Codes
  <2>. QED
    BY <1>1, <1>2, <1>3, <2>1 DEF Text, SameTags
<1>8. Modes'
  BY <1>1, <1>2, <1>3, <1>4, <1>5 DEF Modes, SameTags, SameQueue
<1>9. \A g : Under(g) /\ ~(g[1] = "removeFirst" /\ g[2]) => Under(g)'
  BY <1>1, <1>3, <1>4, <1>5 DEF Under, SameQueue
<1>. QED
  BY <1>2, <1>3, <1>5, <1>6, <1>7, <1>8, <1>9

\* A command is added to an empty queue, and a timer is set.
LEMMA AskedFirst ==
  ASSUME TypeInv, NoAbort, Pipe, Text, Modes, Heard, NEW c \in Commands, Ask(c), Empty,
         Tags \subseteq {"slot"}, Tags' = {}, ~In("_q_piConnectState"),
         ~In("readyRead"), ~In("readLines"), ~In("closed")
  PROVE  NoAbort' /\ Pipe' /\ Text' /\ Modes'
<1>1. /\ pi'.state = pi.state /\ pi'.cmd = pi.cmd /\ pi'.pending = pi.pending /\ pi'.abort = pi.abort
      /\ pi'.waitConnect = pi.waitConnect /\ pi'.waitClose = pi.waitClose
      /\ pi'.text = pi.text /\ pi'.code = pi.code /\ pi'.to = pi.to
      /\ ftp'.state = ftp.state /\ ftp'.closeWait = ftp.closeWait /\ ftp'.signals = ftp.signals
      /\ UNCHANGED <<net, dtp, lines>> /\ ftp'.timers = ftp.timers + 1
      /\ ~Empty' /\ First'.id = ftp.last + 1
  BY AskedParts
<1>2. /\ Pipe' /\ (Silent' <=> Silent) /\ Current' = Current /\ (Online' <=> Online)
  BY <1>1, KeptPipe DEF SamePipe
<1>3. (Looking' <=> Looking) /\ (Virgin' <=> Virgin) /\ (DtpClosed' <=> DtpClosed)
  BY <1>1, <1>2 DEF Looking, Virgin, DtpClosed
<1>4. (Rested' <=> Rested) /\ (Settled' <=> Settled)
  BY <1>1, <1>3 DEF Rested, Settled
<1>5. Rested /\ Settled /\ ftp.timers = 0
  <2>1. ~Running /\ ~Fresh
    BY Phases
  <2>. QED
    BY <2>1 DEF Modes
<1>6. Fresh' /\ ~Running' /\ ~Over' /\ ~Connects'
  <2>1. ftp.last \in Nat /\ ftp.signals \in Seq(ReportType)
    BY DEF TypeInv, FtpType
  <2>2. ASSUME NEW what PROVE ~Said(what)'
    <3>1. CASE ftp.signals = <<>>
      BY <1>1, <3>1 DEF Said
    <3>2. CASE ftp.signals # <<>>
      <4>1. ftp.signals[Len(ftp.signals)].id <= ftp.last
        BY <3>2 DEF Heard
      <4>2. ftp.signals[Len(ftp.signals)].id # First'.id
        BY <1>1, <2>1, <4>1
      <4>. QED
        BY <1>1, <4>2 DEF Said, Told
    <3>. QED
      BY <3>1, <3>2
  <2>. QED
    BY <1>1, <2>2 DEF Running, Over, Fresh, Connects
<1>7. /\ ~Has("processed") /\ ~Has("processed")' /\ ~Has("abort")' /\ ~Has("closed") /\ ~Has("closed")'
  BY DEF Has
<1>8. ~pi.waitClose /\ lines = <<>>
  <2>1. ~Ended
    BY <1>5 DEF Ended, Rested, Virgin
  <2>. QED
    BY <1>7, <2>1 DEF Text
<1>9. NoAbort'
  BY <1>1, <1>7 DEF NoAbort
<1>10. Text'
  <2>1. Codes(Current)' = Codes(Current)
    BY <1>2 DEF Codes
  <2>2. ~pi'.waitClose /\ lines' = <<>>
    BY <1>1, <1>8
  <2>. QED
    BY <1>1, <1>2, <1>7, <2>1, <2>2 DEF Text
<1>11. Modes'
  <2>1. /\ pi.state \in {"Idle", "Begin"} /\ dtp.socket # "connecting" /\ (pi.state = "Begin" => Virgin)
        /\ ~Looking /\ ~ftp.closeWait /\ ftp'.timers = 1
    BY <1>1, <1>5 DEF Rested, Virgin, Settled
  <2>2. ftp.state \in {"Connected", "LoggedIn"} => Online
    BY DEF Modes
  <2>. QED
    BY <1>1, <1>2, <1>3, <1>4, <1>5, <1>6, <1>8, <2>1, <2>2 DEF Modes, Harmless
<1>. QED
  BY <1>2, <1>9, <1>10, <1>11

LEMMA ReturnCore ==
  ASSUME NEW f, NEW w, Facing(f, w), Return
  PROVE  Core'
<1>1. f[1] = "slot" /\ Then(<<>>) /\ UNCHANGED <<net, dtp, pi, lines, ftp>>
  BY Base DEF Return
<1>2. SameState
  BY <1>1, SameBut DEF SamePipe
<1>. QED
  BY <1>1, <1>2, Passes

LEMMA AskLaterCore ==
  ASSUME TypeInv, TypeInv', Core, Heard, AskLater
  PROVE  Core'
<1>1. PICK c \in Commands : Ask(c)
  BY DEF AskLater
<1>2. /\ Quiet /\ Quiet' /\ Tags = {} /\ Tags' = {} /\ (\A name : ~In(name) /\ ~In(name)')
      /\ NoAbort /\ Pipe /\ Text /\ Modes /\ calls' = calls /\ Stacked(calls)
  BY DEF AskLater, Quiet, Tags, In, Core, Stack
<1>3. Stack'
  <2>1. Stacked(calls')
    BY <1>2
  <2>. QED
    BY <1>2, <2>1 DEF Stack
<1>4. CASE Empty
  BY <1>1, <1>2, <1>3, <1>4, AskedFirst DEF Core
<1>5. CASE ~Empty
  <2>1. pi'.waitClose = pi.waitClose
    BY <1>1, AskedParts
  <2>2. SameTags
    BY <1>2, <2>1 DEF SameTags, Has, Text, Modes
  <2>. QED
    BY <1>1, <1>2, <1>3, <1>5, <2>2, AskedBehind DEF Core
<1>. QED
  BY <1>4, <1>5

\* No two frames that wait are about to take a command off the queue.
LEMMA OneRemove ==
  ASSUME NEW f, NEW w, Shape(calls, f, w), NEW g \in w, NEW h \in w, g[1] = "removeFirst", h[1] = "removeFirst"
  PROVE  g = h
<1>1. PICK i \in 2..Len(calls), j \in 2..Len(calls) : g = calls[i] /\ h = calls[j]
  BY DEF Shape, Wait
<1>2. "removeFirst" \notin Beneath("removeFirst")
  BY Orders DEF Starting, Reacting, Replying, Reading
<1>3. \A k, l \in 1..Len(calls) : k < l => calls[l][1] \in Beneath(calls[k][1])
  BY DEF Shape, Stacked
<1>4. i \in 1..Len(calls) /\ j \in 1..Len(calls) /\ (i < j \/ j < i \/ i = j)
  <2>1. Len(calls) \in Nat
    BY LenProperties DEF Shape
  <2>. QED
    BY <2>1
<1>5. ~(i < j) /\ ~(j < i)
  BY <1>1, <1>2, <1>3, <1>4
<1>. QED
  BY <1>1, <1>4, <1>5

LEMMA AskInSlotCore ==
  ASSUME PlainSlots, NEW f, NEW w, Facing(f, w), Heard, AskInSlot
  PROVE  Core'
<1>1. /\ f[1] = "slot" /\ Tags = {f[1]} \cup Names(w) /\ \A name : In(name) <=> f[1] = name
      /\ Waiting = w /\ Arg = f[2] /\ Then(<<>>)
  BY Base DEF AskInSlot, Returned
<1>2. NoAbort /\ Text /\ Pipe /\ Modes /\ Pairs(f, w) /\ (\A g \in w : Under(g)) /\ TypeInv /\ Shape(calls, f, w)
  BY DEF Facing
<1>3. PICK c \in Commands : Ask(c)
  BY DEF AskInSlot
<1>4. \/ Running \/ w = {}
      \/ Over /\ Call("removeFirst", FALSE) \in w
  <2>1. f[2].signal \in {"finished", "readyRead", "stateChanged"}
    BY <1>1 DEF AskInSlot, Returned, PlainSlots
  <2>2. OnSlot(f[2])
    BY <1>1 DEF Facing, On
  <2>. QED
    BY <1>1, <2>1, <2>2 DEF OnSlot
<1>5. CASE Empty
  <2>1. w = {}
    BY <1>4, <1>5, Phases
  <2>2. calls' = <<>>
    BY <1>1, <1>2, <2>1, Popped
  <2>3. Tags' = {}
    BY <2>2 DEF Tags, Quiet
  <2>4. Tags \subseteq {"slot"} /\ ~In("_q_piConnectState") /\ ~In("readyRead") /\ ~In("readLines") /\ ~In("closed")
    BY <1>1, <2>1, NamesOf
  <2>5. NoAbort' /\ Pipe' /\ Text' /\ Modes'
    BY <1>2, <1>3, <1>5, <2>3, <2>4, AskedFirst
  <2>6. Stack'
    <3>1. Len(calls') = 0 /\ 1..0 = {} /\ 2..0 = {}
      BY <2>2, EmptySeq
    <3>. QED
      BY <2>2, <3>1 DEF Stack, Stacked, Quiet
  <2>. QED
    BY <2>5, <2>6 DEF Core
<1>6. CASE ~Empty
  <2>1. ASSUME NEW g \in w PROVE ~(g[1] = "removeFirst" /\ g[2])
    <3> SUFFICES ASSUME g[1] = "removeFirst", g[2] PROVE FALSE
      OBVIOUS
    <3>1. Over
      BY <1>2 DEF Under
    <3>2. Call("removeFirst", FALSE) \in w
      BY <1>4, <3>1, Phases
    <3>3. g = Call("removeFirst", FALSE)
      BY <1>2, <3>2, OneRemove DEF Call
    <3>. QED
      BY <3>3 DEF Call
  <2>2. pi'.waitClose = pi.waitClose
    BY <1>2, <1>3, AskedParts
  <2>3. Tags' = Names(w) /\ \A name : In(name)' => name \in Names(w)
    BY <1>1, <1>2, PoppedTags
  <2>4. SameTags
    BY <1>1, <1>2, <2>2, <2>3 DEF SameTags, Has, NoAbort, Text, Modes
  <2>5. /\ NoAbort' /\ Pipe' /\ Text' /\ Modes' /\ (Online' <=> Online) /\ (DtpClosed' <=> DtpClosed)
        /\ \A g : Under(g) /\ ~(g[1] = "removeFirst" /\ g[2]) => Under(g)'
    BY <1>2, <1>3, <1>6, <2>4, AskedBehind
  <2>6. \A g \in w : Under(g)'
    BY <1>2, <2>1, <2>5
  <2>7. /\ "cleared" \in Names(w) => DtpClosed'
        /\ "react" \in Names(w) => Online'
    BY <1>1, <1>2, <2>5 DEF Pairs
  <2>8. Stack'
    BY <1>1, <2>5, <2>6, <2>7, Resumed
  <2>. QED
    BY <2>5, <2>8 DEF Core
<1>. QED
  BY <1>5, <1>6

-----------------------------------------------------------------------------
(* The event loop.                                                         *)

\* When nothing runs.
LEMMA AtRest ==
  ASSUME TypeInv, Core, Quiet
  PROVE  /\ Tags = {} /\ (\A name : ~In(name) /\ ~Has(name))
         /\ NoAbort /\ Pipe /\ Text /\ Modes
         /\ lines # <<>> => pi.waitClose
         /\ pi.waitClose => Ended
         /\ pi.state \notin {"Success", "Failure"}
         /\ ~Over /\ (Fresh => ftp.timers = 1)
         /\ ftp.state \in {"Connected", "LoggedIn"} => Online
         /\ net \in NetType /\ dtp \in DtpType /\ pi \in PiType /\ ftp \in FtpType /\ lines \in Seq(RowType)
<1>1. Tags = {} /\ (\A name : ~In(name) /\ ~Has(name))
  BY DEF Tags, In, Has, Quiet
<1>2. NoAbort /\ Pipe /\ Text /\ Modes
  BY DEF Core
<1>3. /\ lines # <<>> => pi.waitClose
      /\ pi.waitClose => Ended
  BY <1>1, <1>2 DEF Text
<1>4. /\ pi.state \notin {"Success", "Failure"}
      /\ ~Over /\ (Fresh => ftp.timers = 1)
      /\ ftp.state \in {"Connected", "LoggedIn"} => Online
  BY <1>1, <1>2 DEF Modes
<1>. QED
  BY <1>1, <1>2, <1>3, <1>4 DEF TypeInv

LEMMA CalmTags ==
  ASSUME TypeInv, Core, Quiet, SameState, pi'.waitClose = pi.waitClose,
         "abort" \notin Tags', "processed" \notin Tags', Tags' \subseteq Harmless \/ Running
  PROVE  SameTags
<1>1. ftp.timers = 1 => ~Running
  BY AtRest, Phases DEF Modes
<1>. QED
  BY <1>1, AtRest DEF SameTags, Has

LEMMA Happens ==
  ASSUME TypeInv, Core, Quiet, SameState, SameTags,
         NEW a, NEW v, Shape(calls, a, v)', On(a)', Pairs(a, v)', \A g \in v : Under(g)'
  PROVE  Core'
<1>1. NoAbort' /\ Pipe' /\ Text' /\ Modes'
  BY AtRest, Steady
<1>2. Stack'
  BY StackBy
<1>. QED
  BY <1>1, <1>2 DEF Core

LEMMA FewPairs ==
  ASSUME NEW a, NEW v, Names(v) \subseteq {"socketConnectionClosed", "_q_piError"},
         a[1] \notin {"clearPendingCommands", "processReply", "replied", "react"}
  PROVE  Pairs(a, v)'
<1>1. Call("removeFirst", FALSE) \notin v
  BY NoRemove
<1>. QED
  BY <1>1 DEF Pairs, Failing

\* The data connection is there, or was refused.
LEMMA SocketAnswerCore ==
  ASSUME TypeInv, Core, UNCHANGED <<lines, ftp>>, SocketConnected \/ SocketError
  PROVE  Core'
<1>1. Quiet /\ UNCHANGED pi /\ dtp.socket = "connecting"
  BY DEF SocketConnected, SocketError, Event
<1>2. /\ Tags = {} /\ Modes /\ Text /\ Pipe /\ NoAbort /\ (pi.waitClose => Ended)
      /\ pi.state \notin {"Success", "Failure"} /\ net \in NetType /\ dtp \in DtpType
  BY <1>1, AtRest
<1>3. Running /\ pi.state = "Idle" /\ ~pi.waitClose /\ Settled
  <2>1. Running /\ pi.state = "Idle"
    BY <1>1, <1>2 DEF Modes
  <2>2. ~Looking /\ ~ftp.closeWait
    BY <1>1, <1>2 DEF Modes, Rested
  <2>. QED
    BY <1>2, <2>1, <2>2 DEF Ended, Settled
<1>4. /\ dtp'.socket \in {"connected", "unconnected"}
      /\ net'.control = net.control /\ net'.up = net.up /\ net'.down = net.down
      /\ net'.transfer = net.transfer /\ net'.bye = net.bye
  BY <1>2 DEF SocketConnected, SocketError, DtpType, NetType
<1>5. SameState
  <2>1. SameQueue
    BY KeptQueue
  <2>2. SamePipe
    BY <1>1, <1>4 DEF SamePipe
  <2>. QED
    BY <1>1, <1>4, <2>1, <2>2 DEF SameState, Virgin, DtpClosed
<1>6. PICK s \in {"CsConnected", "CsConnectionRefused"} : calls' = <<DtpState(s)>>
  BY DEF SocketConnected, SocketError, Event
<1>7. PICK a : a = DtpState(s)
  OBVIOUS
<1>8. a \in Frame /\ a[1] = "dtpConnectState" /\ a[2] = s /\ calls' = <<a>>
  BY <1>6, <1>7, FrameTypes DEF DtpState, Call
<1>9. Shape(calls, a, {})'
  BY <1>8, Called1 DEF Attached
<1>10. Tags' = {a[1]} /\ Waiting' = {}
  BY <1>9, ShapePrime, NamesOf
<1>11. SameTags
  BY <1>1, <1>3, <1>5, <1>8, <1>10, CalmTags
<1>12. (Settled' <=> Settled) /\ SameQueue
  BY <1>2, <1>5, <1>11, Steady DEF SameState
<1>13. On(a)'
  BY <1>1, <1>3, <1>4, <1>8, <1>10, <1>12 DEF On, OnDtpState, SameQueue
<1>14. Pairs(a, {})'
  BY <1>8, FewPairs, NamesOf
<1>. QED
  BY <1>1, <1>5, <1>9, <1>11, <1>13, <1>14, Happens

\* The server has called, and is taken while nobody waits for it.
LEMMA SetupSocketCore ==
  ASSUME TypeInv, Core, UNCHANGED <<lines, ftp>>, SetupSocket
  PROVE  Core'
<1>1. Quiet /\ calls' = <<>> /\ UNCHANGED pi /\ dtp.listening
  BY DEF SetupSocket, Event
<1>2. /\ Tags = {} /\ Modes /\ Text /\ Pipe /\ NoAbort /\ (pi.waitClose => Ended)
      /\ (\A name : ~In(name) /\ ~Has(name))
      /\ net \in NetType /\ dtp \in DtpType
  BY <1>1, AtRest
<1>3. /\ dtp'.socket = "connected"
      /\ net'.control = net.control /\ net'.up = net.up /\ net'.down = net.down
      /\ net'.transfer = net.transfer /\ net'.bye = net.bye
  BY <1>2 DEF SetupSocket, Accepted, DtpType, NetType
<1>4. Tags' = {} /\ (\A name : ~In(name)' /\ ~Has(name)') /\ Quiet'
  BY <1>1 DEF Tags, In, Has, Quiet
<1>5. /\ Pipe' /\ (Silent' <=> Silent) /\ Current' = Current /\ (Online' <=> Online)
  BY <1>1, <1>2, <1>3, KeptPipe DEF SamePipe
<1>6. SameQueue
  BY KeptQueue
<1>7. ~Virgin /\ (Looking' <=> Looking)
  BY <1>1, <1>3 DEF Virgin, Looking
<1>8. (Rested => Rested') /\ (Settled' <=> Settled) /\ (Ended' <=> Ended)
  BY <1>1, <1>2, <1>3, <1>4, <1>5, <1>7 DEF Rested, Settled, Ended
<1>9. NoAbort'
  BY <1>1, <1>2, <1>4 DEF NoAbort
<1>10. Text'
  <2>1. Codes(Current)' = Codes(Current)
    BY <1>5 DEF Codes
  <2>. QED
    BY <1>1, <1>2, <1>3, <1>4, <1>5, <1>8, <2>1 DEF Text
<1>11. Modes'
  BY <1>1, <1>2, <1>3, <1>4, <1>5, <1>6, <1>7, <1>8 DEF Modes, SameQueue
<1>12. Stack'
  <2>1. Len(calls') = 0 /\ 1..0 = {} /\ 2..0 = {}
    BY <1>1, EmptySeq
  <2>. QED
    BY <1>1, <2>1 DEF Stack, Stacked, Quiet
<1>. QED
  BY <1>5, <1>9, <1>10, <1>11, <1>12 DEF Core

\* Data has come, has been sent or is at its end.
LEMMA DataCore ==
  ASSUME TypeInv, Core, UNCHANGED <<lines, ftp>>, DataArrives \/ DataEnds \/ DataSent
  PROVE  Core'
<1>1. Quiet /\ UNCHANGED pi /\ dtp.socket \in {"connected", "closing"}
  BY DEF DataArrives, DataEnds, DataSent, Event, Usable
<1>2. /\ Tags = {} /\ Modes /\ Text /\ Pipe /\ NoAbort /\ (pi.waitClose => Ended)
      /\ net \in NetType /\ dtp \in DtpType
  BY <1>1, AtRest
<1>3. /\ dtp'.socket \in {dtp.socket, "unconnected"}
      /\ net'.control = net.control /\ net'.up = net.up /\ net'.down = net.down
      /\ net'.transfer = net.transfer /\ net'.bye = net.bye
  <2>1. CASE DataArrives
    BY <1>2, <2>1 DEF DataArrives, DtpType, NetType
  <2>2. CASE DataEnds
    BY <1>2, <2>2 DEF DataEnds, Hungup, DtpType, NetType
  <2>3. CASE DataSent
    <3>1. PICK s : s = net.stored \o dtp.out
      OBVIOUS
    <3>2. \/ dtp' = Shut(dtp) /\ net' = [Hungup(net) EXCEPT !.stored = s, !.sent = TRUE]
          \/ dtp' = [dtp EXCEPT !.out = <<>>] /\ net' = [net EXCEPT !.stored = s]
      BY <2>3, <3>1 DEF DataSent, Hungup
    <3>. QED
      BY <1>2, <3>2 DEF Shut, Hungup, DtpType, NetType
  <2>. QED
    BY <2>1, <2>2, <2>3
<1>4. SameState
  <2>1. SameQueue
    BY KeptQueue
  <2>2. SamePipe
    BY <1>1, <1>3 DEF SamePipe
  <2>. QED
    BY <1>1, <1>3, <2>1, <2>2 DEF SameState, Virgin, DtpClosed
<1>5. PICK a, b : a = Do("socketBytesWritten") /\ b = Do("socketConnectionClosed")
  OBVIOUS
<1>6. a \in Frame /\ b \in Frame /\ a[1] = "socketBytesWritten" /\ b[1] = "socketConnectionClosed"
  BY <1>5, FrameTypes DEF Plain, Do, Call
<1>7. ASSUME NEW h, NEW v, Shape(calls, h, v)', {h[1]} \cup Names(v) \subseteq Harmless, On(h)',
             Names(v) \subseteq {"socketConnectionClosed"}, \A g \in v : Under(g)',
             h[1] \in {"socketReadyRead", "socketConnectionClosed", "socketBytesWritten"}
      PROVE  Core'
  <2>1. Tags' = {h[1]} \cup Names(v)
    BY <1>7, ShapePrime
  <2>2. Tags' \subseteq Harmless /\ "abort" \notin Tags' /\ "processed" \notin Tags'
    BY <1>7, <2>1 DEF Harmless
  <2>3. SameTags
    BY <1>1, <1>4, <2>2, CalmTags
  <2>4. Pairs(h, v)'
    BY <1>7, FewPairs
  <2>. QED
    BY <1>1, <1>4, <1>7, <2>3, <2>4, Happens
<1>8. ASSUME dtp'.socket = "unconnected", ~Has("processed")' PROVE Under(b)'
  <2>1. (Ended' <=> Ended) /\ DtpClosed'
    <3>1. Silent' <=> Silent
      BY <1>2, <1>4, KeptPipe DEF SameState
    <3>. QED
      BY <1>1, <1>2, <1>8, <3>1, AtRest DEF Ended, DtpClosed
  <2>. QED
    BY <1>1, <1>2, <1>6, <2>1 DEF Under
<1>9. CASE DataArrives
  <2>1. PICK h : h = Do("socketReadyRead")
    OBVIOUS
  <2>2. h \in Frame /\ h[1] = "socketReadyRead" /\ calls' = <<h>> /\ dtp'.socket = "connected"
    BY <1>2, <1>9, <2>1, FrameTypes DEF Plain, Do, Call, DataArrives, Event, DtpType
  <2>3. Shape(calls, h, {})'
    BY <2>2, Called1 DEF Attached
  <2>4. On(h)'
    BY <2>2 DEF On
  <2>. QED
    BY <1>7, <2>2, <2>3, <2>4, NamesOf DEF Harmless
<1>10. CASE DataEnds
  <2>1. calls' = <<b>> /\ dtp'.socket = "unconnected"
    BY <1>2, <1>5, <1>10 DEF DataEnds, Event, Disconnected, DtpType
  <2>2. Shape(calls, b, {})'
    BY <1>6, <2>1, Called1 DEF Attached
  <2>3. ~Has("processed")'
    BY <1>6, <2>2, ShapePrime, NamesOf DEF Has
  <2>4. On(b)'
    BY <1>6, <1>8, <2>1, <2>3 DEF On
  <2>. QED
    BY <1>6, <1>7, <2>2, <2>4, NamesOf DEF Harmless
<1>11. On(a)'
  BY <1>6 DEF On
<1>12. CASE DataSent /\ dtp.socket = "closing"
  <2>1. calls' = <<a, b>> /\ dtp'.socket = "unconnected"
    <3>1. <<a>> \o <<b>> = <<a, b>>
      BY <1>6, Joined
    <3>. QED
      BY <1>2, <1>5, <1>12, <3>1 DEF DataSent, Event, Disconnected, Shut, DtpType
  <2>2. Shape(calls, a, {b})'
    <3>1. b[1] \in Beneath(a[1]) /\ Adjacent(a, b) /\ b[1] \notin Attached
      BY <1>6, Orders DEF Adjacent, Attached
    <3>. QED
      BY <1>6, <2>1, <3>1, Called2
  <2>3. Names({b}) = {b[1]}
    BY DEF Names
  <2>4. ~Has("processed")'
    BY <1>6, <2>2, <2>3, ShapePrime DEF Has
  <2>5. Under(b)'
    BY <1>8, <2>1, <2>4
  <2>6. \A g \in {b} : Under(g)'
    BY <2>5
  <2>7. PICK v : v = {b}
    OBVIOUS
  <2>8. Shape(calls, a, v)' /\ Names(v) = {b[1]} /\ \A g \in v : Under(g)'
    BY <2>2, <2>3, <2>6, <2>7
  <2>. QED
    BY <1>6, <1>7, <1>11, <2>8 DEF Harmless
<1>13. CASE DataSent /\ dtp.socket # "closing"
  <2>1. calls' = <<a>>
    BY <1>5, <1>13 DEF DataSent, Event
  <2>2. Shape(calls, a, {})'
    BY <1>6, <2>1, Called1 DEF Attached
  <2>. QED
    BY <1>6, <1>7, <1>11, <2>2, NamesOf DEF Harmless
<1>. QED
  BY <1>9, <1>10, <1>12, <1>13

\* The host is found, or there is no connection to it.
LEMMA LookedCore ==
  ASSUME TypeInv, Core, UNCHANGED ftp, HostFound \/ ControlError
  PROVE  Core'
<1>1. Quiet /\ UNCHANGED <<dtp, pi, lines>> /\ Looking
  BY DEF HostFound, ControlError, Event, Looking
<1>2. /\ Tags = {} /\ Modes /\ Text /\ Pipe /\ NoAbort /\ (pi.waitClose => Ended)
      /\ (\A name : ~In(name) /\ ~Has(name))
      /\ (lines # <<>> => pi.waitClose) /\ pi.state \notin {"Success", "Failure"} /\ net \in NetType
  BY <1>1, AtRest
<1>3. /\ net'.control \in {"connecting", "unconnected"}
      /\ net'.up = net.up /\ net'.down = net.down /\ net'.transfer = net.transfer /\ net'.bye = net.bye
      /\ ControlError => net'.control = "unconnected"
  BY <1>2 DEF HostFound, ControlError, NetType
<1>4. /\ Connects /\ (pi.state = "Idle" \/ Virgin) /\ Running /\ ~Online /\ Silent
      /\ ftp.timers # 1 /\ ~ftp.closeWait
  <2>1. Connects /\ (pi.state = "Idle" \/ Virgin) /\ ~Online /\ Running
    BY <1>1, <1>2 DEF Modes, Looking, Online, Connects
  <2>. QED
    BY <1>2, <2>1, Phases DEF Modes, Pipe
<1>5. ~pi.waitClose /\ ~pi.text
  <2>1. ~pi.waitClose /\ pi.state # "Waiting"
    BY <1>2, <1>4 DEF Ended, Virgin
  <2>2. pi.text => pi.state = "Begin" /\ ~Virgin
    BY <1>2, <2>1 DEF Text, Virgin
  <2>. QED
    BY <1>4, <2>1, <2>2
<1>6. SameQueue
  BY KeptQueue
<1>7. ~Online' /\ Silent' /\ (Virgin' <=> Virgin) /\ (Looking' => Looking)
      /\ (ControlError => ~Looking')
  BY <1>1, <1>3, <1>4 DEF Online, Silent, Virgin, Looking
<1>8. Pipe'
  BY <1>1, <1>4, <1>7, SilentNext DEF Virgin
<1>9. ASSUME NEW a, NEW v, Shape(calls, a, v)', Names(v) \subseteq {"_q_piError"}, a[1] = "_q_piConnectState",
             On(a)', \A g \in v : Under(g)'
      PROVE  Core'
  <2>1. Tags' = {a[1]} \cup Names(v) /\ \A name : In(name)' <=> a[1] = name
    BY <1>9, ShapePrime
  <2>2. ~Has("abort")' /\ ~Has("processed")'
    BY <1>9, <2>1 DEF Has
  <2>3. NoAbort'
    BY <1>1, <1>2, <2>2 DEF NoAbort
  <2>4. Text'
    BY <1>1, <1>2, <1>5, <2>2 DEF Text
  <2>5. Modes'
    <3>1. /\ Running' /\ Connects' /\ ~Fresh' /\ ~Over'
      BY <1>4, <1>6, Phases DEF SameQueue
    <3>2. /\ pi'.pending = <<>> /\ pi'.cmd = NoLine /\ dtp'.socket # "connecting"
          /\ pi'.state \in {"Idle", "Begin"} /\ ~ftp'.closeWait /\ ftp'.timers = 0
      BY <1>1, <1>2, <1>4 DEF Modes
    <3>3. /\ pi'.state = "Begin" => Virgin'
          /\ Looking' => Connects' /\ (pi'.state = "Idle" \/ Virgin')
      BY <1>1, <1>4, <1>7, <3>1
    <3>4. In("_q_piConnectState")'
      BY <1>9, <2>1
    <3>. QED
      BY <3>1, <3>2, <3>3, <3>4 DEF Modes
  <2>6. Pairs(a, v)'
    BY <1>9, FewPairs
  <2>7. Stack'
    BY <1>9, <2>6, StackBy
  <2>. QED
    BY <1>8, <2>3, <2>4, <2>5, <2>7 DEF Core
<1>10. CASE HostFound
  <2>1. PICK a : a = PiConnectState("Connecting")
    OBVIOUS
  <2>2. a \in Frame /\ a[1] = "_q_piConnectState" /\ a[2] = "Connecting" /\ calls' = <<a>>
    BY <1>10, <2>1, FrameTypes DEF PiConnectState, Call, States, HostFound, Event
  <2>3. Shape(calls, a, {})'
    BY <2>2, Called1 DEF Attached
  <2>4. On(a)'
    BY <1>4, <1>6, <2>2 DEF On, OnConnectState, SameQueue
  <2>. QED
    BY <1>9, <2>2, <2>3, <2>4, NamesOf
<1>11. CASE ControlError
  <2>1. PICK a, b : a = PiConnectState("Unconnected") /\ b = PiError("ConnectionRefused")
    OBVIOUS
  <2>2. /\ a \in Frame /\ a[1] = "_q_piConnectState" /\ a[2] = "Unconnected"
        /\ b \in Frame /\ b[1] = "_q_piError" /\ calls' = <<a, b>>
    BY <1>11, <2>1, FrameTypes DEF PiConnectState, PiError, Call, States, ControlError, Event
  <2>3. Shape(calls, a, {b})'
    <3>1. b[1] \in Beneath(a[1]) /\ Adjacent(a, b) /\ b[1] \notin Attached
      BY <2>2, Orders DEF Adjacent, Attached
    <3>. QED
      BY <2>2, <3>1, Called2
  <2>4. On(a)'
    BY <1>4, <1>6, <2>2 DEF On, OnConnectState, SameQueue
  <2>5. Under(b)'
    BY <1>1, <1>4, <1>6, <1>7, <1>11, <2>2 DEF Under, SameQueue
  <2>6. PICK v : v = {b}
    OBVIOUS
  <2>7. Shape(calls, a, v)' /\ Names(v) \subseteq {"_q_piError"} /\ \A g \in v : Under(g)'
    <3>1. Names({b}) = {b[1]}
      BY DEF Names
    <3>. QED
      BY <2>2, <2>3, <2>5, <2>6, <3>1
  <2>. QED
    BY <1>9, <2>2, <2>4, <2>7
<1>. QED
  BY <1>10, <1>11

\* There is a connection, and the server will greet.
LEMMA PiConnectedCore ==
  ASSUME TypeInv, TypeInv', Core, UNCHANGED ftp, PiConnected
  PROVE  Core'
<1>1. Quiet /\ UNCHANGED <<dtp, lines>> /\ Looking /\ ~Online
  BY DEF PiConnected, Event, Looking, Online
<1>2. /\ Tags = {} /\ Modes /\ Text /\ Pipe /\ NoAbort /\ (pi.waitClose => Ended)
      /\ (\A name : ~In(name) /\ ~Has(name)) /\ (lines # <<>> => pi.waitClose)
      /\ net \in NetType /\ pi \in PiType
  BY <1>1, AtRest
<1>3. /\ net'.control = "connected" /\ net'.up = <<Greeting>>
      /\ net'.down = net.down /\ net'.transfer = net.transfer /\ net'.bye = net.bye
  <2>1. PICK u : u = <<Greeting>>
    OBVIOUS
  <2>2. net' = [net EXCEPT !.control = "connected", !.up = u]
    BY <2>1 DEF PiConnected
  <2>. QED
    BY <1>2, <2>1, <2>2 DEF NetType
<1>4. /\ pi'.state = "Begin" /\ pi'.text = pi.text /\ pi'.waitClose = pi.waitClose /\ pi'.abort = pi.abort
      /\ pi'.pending = pi.pending /\ pi'.cmd = pi.cmd
  BY <1>2 DEF PiConnected, PiType
<1>5. Connects /\ (pi.state = "Idle" \/ Virgin) /\ Silent /\ Running /\ ftp.timers # 1
  <2>1. Connects /\ (pi.state = "Idle" \/ Virgin) /\ Running
    BY <1>1, <1>2 DEF Modes, Connects
  <2>. QED
    BY <1>1, <1>2, <2>1, Phases DEF Modes, Pipe
<1>6. ~pi.waitClose /\ ~pi.text
  <2>1. ~pi.waitClose /\ pi.state # "Waiting"
    BY <1>2, <1>5 DEF Ended, Virgin
  <2>2. pi.text => pi.state = "Begin" /\ ~Virgin
    BY <1>2, <2>1 DEF Text, Virgin
  <2>. QED
    BY <1>5, <2>1, <2>2
<1>7. PICK a : a = PiConnectState("Connected")
  OBVIOUS
<1>8. a \in Frame /\ a[1] = "_q_piConnectState" /\ a[2] = "Connected" /\ calls' = <<a>>
  BY <1>7, FrameTypes DEF PiConnectState, Call, States, PiConnected, Event
<1>9. Shape(calls, a, {})'
  BY <1>8, Called1 DEF Attached
<1>10. Tags' = {a[1]} /\ \A name : In(name)' <=> a[1] = name
  BY <1>9, ShapePrime, NamesOf
<1>11. ~Has("abort")' /\ ~Has("processed")'
  BY <1>8, <1>10 DEF Has
<1>12. SameQueue
  BY KeptQueue
<1>13. Online' /\ ~Looking' /\ Current' = Greeting /\ lines' = <<>> /\ Stream' = <<>>
  <2>1. Online' /\ ~Looking' /\ Current' = Greeting
    BY <1>3, <1>4 DEF Online, Looking, Current
  <2>2. lines' = <<>> /\ net'.down = <<>>
    BY <1>1, <1>3, <1>5 DEF Silent
  <2>3. <<>> \o <<>> = <<>>
    OBVIOUS
  <2>. QED
    BY <2>1, <2>2, <2>3 DEF Stream
<1>14. Pipe'
  <2>1. Len(Stream') = 0 /\ \A k \in 1..Len(Stream') : FALSE
    BY <1>13, EmptySeq
  <2>2. net'.transfer = NoLine
    BY <1>3, <1>5 DEF Silent
  <2>. QED
    BY <1>3, <1>4, <1>13, <2>1, <2>2 DEF Pipe
<1>15. NoAbort'
  BY <1>2, <1>4, <1>11 DEF NoAbort
<1>16. Text'
  BY <1>4, <1>6, <1>11, <1>13 DEF Text
<1>17. Modes'
  <2>1. Running' /\ Connects' /\ ~Fresh' /\ ~Over'
    BY <1>5, <1>12, Phases DEF SameQueue
  <2>2. /\ pi'.pending = <<>> /\ pi'.cmd = NoLine /\ dtp'.socket # "connecting"
        /\ ~ftp'.closeWait /\ ftp'.timers = 0
    BY <1>1, <1>2, <1>4, <1>5 DEF Modes
  <2>. QED
    BY <1>4, <1>13, <2>1, <2>2 DEF Modes
<1>18. On(a)'
  BY <1>5, <1>8, <1>12, <1>13 DEF On, OnConnectState, SameQueue
<1>19. Pairs(a, {})'
  BY <1>8, FewPairs, NamesOf
<1>20. Stack'
  BY <1>9, <1>18, <1>19, StackBy
<1>. QED
  BY <1>14, <1>15, <1>16, <1>17, <1>20 DEF Core

LEMMA Regrouped ==
  ASSUME NEW S, NEW x \in Seq(S), NEW y \in Seq(S), NEW z \in Seq(S)
  PROVE  (x \o y) \o z = x \o (y \o z)
<1> DEFINE p == x \o y
           q == y \o z
<1>1. /\ p \in Seq(S) /\ Len(p) = Len(x) + Len(y)
      /\ \A k \in 1..(Len(x) + Len(y)) : p[k] = IF k <= Len(x) THEN x[k] ELSE y[k - Len(x)]
  BY ConcatProperties
<1>2. /\ q \in Seq(S) /\ Len(q) = Len(y) + Len(z)
      /\ \A k \in 1..(Len(y) + Len(z)) : q[k] = IF k <= Len(y) THEN y[k] ELSE z[k - Len(y)]
  BY ConcatProperties
<1> HIDE DEF p, q
<1>a. p \in Seq(S) /\ q \in Seq(S)
  BY <1>1, <1>2
<1> DEFINE l == p \o z
           r == x \o q
<1>3. /\ l \in Seq(S) /\ Len(l) = Len(p) + Len(z)
      /\ \A k \in 1..(Len(p) + Len(z)) : l[k] = IF k <= Len(p) THEN p[k] ELSE z[k - Len(p)]
  BY <1>a, ConcatProperties
<1>4. /\ r \in Seq(S) /\ Len(r) = Len(x) + Len(q)
      /\ \A k \in 1..(Len(x) + Len(q)) : r[k] = IF k <= Len(x) THEN x[k] ELSE q[k - Len(x)]
  BY <1>a, ConcatProperties
<1> HIDE DEF l, r
<1>5. PICK i \in Nat, j \in Nat, n \in Nat : i = Len(x) /\ j = Len(y) /\ n = Len(z)
  BY LenProperties
<1>6. Len(p) = i + j /\ Len(q) = j + n /\ Len(l) = (i + j) + n /\ Len(r) = i + (j + n)
  BY <1>1, <1>2, <1>3, <1>4, <1>5
<1>7. ASSUME NEW k \in 1..Len(l) PROVE l[k] = r[k]
  <2>1. k \in Int /\ 1 <= k /\ k <= i + j + n
    BY <1>5, <1>6
  <2>2. CASE k <= i
    BY <1>1, <1>3, <1>4, <1>5, <1>6, <2>1, <2>2
  <2>3. CASE i < k /\ k <= i + j
    <3>1. l[k] = p[k] /\ p[k] = y[k - i]
      BY <1>1, <1>3, <1>5, <1>6, <2>1, <2>3, SMTT(30)
    <3>2. r[k] = q[k - i] /\ q[k - i] = y[k - i]
      BY <1>2, <1>4, <1>5, <1>6, <2>1, <2>3, SMTT(30)
    <3>. QED
      BY <3>1, <3>2
  <2>4. CASE i + j < k
    <3>1. l[k] = z[k - (i + j)]
      BY <1>3, <1>5, <1>6, <2>1, <2>4
    <3>2. r[k] = q[k - i]
      BY <1>4, <1>5, <1>6, <2>1, <2>4
    <3>4. k - i \in 1..(Len(y) + Len(z)) /\ ~(k - i <= Len(y))
      BY <1>5, <2>1, <2>4
    <3>5. q[k - i] = z[(k - i) - j]
      BY <1>2, <1>5, <3>4
    <3>3. k - (i + j) = (k - i) - j
      BY <1>5, <2>1
    <3>. QED
      BY <3>1, <3>2, <3>3, <3>5
  <2>. QED
    BY <1>5, <2>1, <2>2, <2>3, <2>4
<1>8. Len(l) = Len(r)
  BY <1>5, <1>6
<1>9. l = r
  BY <1>3, <1>4, <1>7, <1>8, SeqEqual
<1>. QED
  BY <1>9 DEF l, r, p, q

LEMMA CutStream ==
  ASSUME NEW S, NEW s \in Seq(S), NEW d \in Seq(S), NEW n \in 1..Len(d)
  PROVE  (s \o SubSeq(d, 1, n)) \o SubSeq(d, n + 1, Len(d)) = s \o d
<1> DEFINE a == SubSeq(d, 1, n)
           b == SubSeq(d, n + 1, Len(d))
<1>1. /\ a \in Seq(S) /\ b \in Seq(S)
      /\ Len(a) = n /\ Len(b) = Len(d) - n
      /\ \A i \in 1..n : a[i] = d[i]
      /\ \A i \in 1..Len(b) : b[i] = d[n + i]
  <2>1. Len(d) \in Nat
    BY LenProperties
  <2>2. a \in Seq(S) /\ Len(a) = n /\ \A i \in 1..n : a[i] = d[i]
    BY <2>1, SubSeqProperties
  <2>3. b \in Seq(S) /\ Len(b) = Len(d) - n /\ \A i \in 1..Len(b) : b[i] = d[n + i]
    BY <2>1, SubSeqProperties
  <2>. QED
    BY <2>2, <2>3
<1> HIDE DEF a, b
<1>2. a \in Seq(S) /\ b \in Seq(S)
  BY <1>1
<1>3. PICK m \in Nat : m = Len(d) /\ n \in 1..m /\ Len(a) = n /\ Len(b) = m - n
  BY <1>1, LenProperties
<1>4. /\ a \o b \in Seq(S) /\ Len(a \o b) = Len(a) + Len(b)
      /\ \A i \in 1..(Len(a) + Len(b)) : (a \o b)[i] = IF i <= Len(a) THEN a[i] ELSE b[i - Len(a)]
  BY <1>2, ConcatProperties
<1>5. Len(a) + Len(b) = m
  BY <1>3
<1>6. Len(a \o b) = m /\ \A i \in 1..m : (a \o b)[i] = IF i <= n THEN a[i] ELSE b[i - n]
  BY <1>3, <1>4, <1>5
<1>7. ASSUME NEW i \in 1..m PROVE (a \o b)[i] = d[i]
  <2>1. CASE i <= n
    BY <1>1, <1>3, <1>6, <2>1
  <2>2. CASE i > n
    <3>1. (a \o b)[i] = b[i - n]
      BY <1>3, <1>6, <2>2
    <3>2. i - n \in 1..Len(b) /\ n + (i - n) = i
      BY <1>3, <2>2
    <3>3. b[i - n] = d[n + (i - n)]
      BY <1>1, <3>2
    <3>. QED
      BY <3>1, <3>2, <3>3
  <2>. QED
    BY <1>3, <2>1, <2>2
<1>8. a \o b = d
  BY <1>3, <1>4, <1>6, <1>7, SeqEqual
<1>9. PICK x \in Seq(S), y \in Seq(S) : x = a /\ y = b
  BY <1>2
<1>10. (s \o x) \o y = s \o (x \o y)
  BY Regrouped, SMTT(60)
<1>. QED
  BY <1>8, <1>9, <1>10 DEF a, b

\* Rows come in: what is to be read is as it was.
LEMMA RowsArriveCore ==
  ASSUME TypeInv, TypeInv', Core, UNCHANGED ftp, RowsArrive
  PROVE  Core'
<1>1. Quiet /\ UNCHANGED <<dtp, pi>> /\ Online /\ net.down # <<>>
  BY DEF RowsArrive, Event
<1>2. /\ Tags = {} /\ Modes /\ Text /\ Pipe /\ NoAbort /\ (pi.waitClose => Ended)
      /\ (\A name : ~In(name) /\ ~Has(name)) /\ pi.state \notin {"Success", "Failure"}
      /\ ~Over /\ (Fresh => ftp.timers = 1) /\ (ftp.state \in {"Connected", "LoggedIn"} => Online)
      /\ net \in NetType /\ lines \in Seq(RowType)
  BY <1>1, AtRest
<1>3. PICK d \in Seq(RowType) : d = net.down
  BY <1>2 DEF NetType
<1>4. PICK n \in 1..Len(d) : /\ lines' = lines \o SubSeq(d, 1, n)
                             /\ net' = [net EXCEPT !.down = SubSeq(d, n + 1, Len(d))]
  BY <1>3 DEF RowsArrive
<1>5. PICK e : e = SubSeq(d, n + 1, Len(d))
  OBVIOUS
<1>6. /\ net'.control = net.control /\ net'.up = net.up /\ net'.down = e
      /\ net'.transfer = net.transfer /\ net'.bye = net.bye
  BY <1>2, <1>4, <1>5 DEF NetType
<1>7. Stream' = Stream
  <2>1. PICK s \in Seq(RowType) : s = lines
    BY <1>2
  <2>2. (s \o SubSeq(d, 1, n)) \o SubSeq(d, n + 1, Len(d)) = s \o d
    BY CutStream
  <2>3. PICK h : h = s \o SubSeq(d, 1, n)
    OBVIOUS
  <2>4. Stream' = h \o e /\ Stream = s \o d
    BY <1>3, <1>4, <1>6, <2>1, <2>3 DEF Stream
  <2>. QED
    BY <1>5, <2>2, <2>3, <2>4
<1>8. Online' /\ Current' = Current /\ (Looking' <=> Looking) /\ (Virgin' <=> Virgin)
  BY <1>1, <1>6 DEF Online, Current, Looking, Virgin
<1>9. ~Silent /\ ~pi.waitClose /\ lines = <<>> /\ pi.state \in {"Waiting", "Begin"}
  <2>1. ~Silent
    BY <1>1 DEF Silent
  <2>. QED
    BY <1>1, <1>2, <2>1, AtRest DEF Ended, Pipe
<1>10. Pipe'
  BY <1>1, <1>2, <1>6, <1>7, <1>8, <1>9 DEF Pipe
<1>11. PICK a : a = Do("readyRead")
  OBVIOUS
<1>12. a \in Frame /\ a[1] = "readyRead" /\ calls' = <<a>>
  BY <1>11, FrameTypes DEF Plain, Do, Call, RowsArrive, Event
<1>13. Shape(calls, a, {})'
  BY <1>12, Called1 DEF Attached
<1>14. Tags' = {"readyRead"} /\ In("readyRead")'
  BY <1>12, <1>13, ShapePrime, NamesOf
<1>15. ~Has("abort")' /\ ~Has("processed")'
  BY <1>14 DEF Has
<1>16. NoAbort'
  BY <1>1, <1>2, <1>15 DEF NoAbort
<1>17. Text'
  <2>1. Codes(Current)' = Codes(Current)
    BY <1>8 DEF Codes
  <2>. QED
    BY <1>1, <1>2, <1>6, <1>8, <1>9, <1>14, <1>15, <2>1 DEF Text
<1>18. SameQueue
  BY KeptQueue
<1>19. Modes'
  <2>1. (Rested' <=> Rested) /\ (Settled' <=> Settled)
    BY <1>1, <1>8 DEF Rested, Settled
  <2>2. Tags' \subseteq Harmless
    BY <1>14 DEF Harmless
  <2>. QED
    BY <1>1, <1>2, <1>8, <1>18, <2>1, <2>2 DEF Modes, SameQueue
<1>20. On(a)' /\ Pairs(a, {})'
  BY <1>12, FewPairs, NamesOf DEF On
<1>21. Stack'
  BY <1>13, <1>20, StackBy
<1>. QED
  BY <1>10, <1>16, <1>17, <1>19, <1>21 DEF Core

\* The server has closed the connection.
LEMMA BrokenCore ==
  ASSUME TypeInv, TypeInv', Core, UNCHANGED ftp, ConnectionClosed
  PROVE  Core'
<1>1. Quiet /\ UNCHANGED <<dtp, pi>> /\ Online /\ net.bye /\ net.down = <<>> /\ lines' = <<>>
  BY DEF ConnectionClosed, Event
<1>2. /\ Tags = {} /\ Modes /\ Text /\ Pipe /\ NoAbort /\ (pi.waitClose => Ended)
      /\ (\A name : ~In(name) /\ ~Has(name)) /\ pi.state \notin {"Success", "Failure"}
      /\ ~Over /\ (Fresh => ftp.timers = 1) /\ (ftp.state \in {"Connected", "LoggedIn"} => Online)
      /\ net \in NetType
  BY <1>1, AtRest
<1>3. /\ net'.control = "unconnected" /\ net'.up = <<>> /\ net'.down = <<>>
      /\ net'.transfer = NoLine /\ ~net'.bye
  <2>1. net.transfer = NoLine
    BY <1>1, <1>2 DEF Pipe
  <2>. QED
    BY <1>1, <1>2, <2>1 DEF ConnectionClosed, NetType
<1>4. Silent' /\ ~Online' /\ ~Looking' /\ ~Virgin /\ ~Looking /\ Current' = Current
  BY <1>1, <1>3 DEF Silent, Online, Looking, Virgin, Current
<1>5. Pipe'
  BY <1>1, <1>2, <1>4, SilentNext DEF Pipe
<1>6. PICK a : a = PiConnectState("Unconnected")
  OBVIOUS
<1>7. a \in Frame /\ a[1] = "_q_piConnectState" /\ a[2] = "Unconnected" /\ calls' = <<a>>
  BY <1>6, FrameTypes DEF PiConnectState, Call, States, ConnectionClosed, Event
<1>8. Shape(calls, a, {})'
  BY <1>7, Called1 DEF Attached
<1>9. Tags' = {"_q_piConnectState"} /\ In("_q_piConnectState")' /\ Waiting' = {}
  BY <1>7, <1>8, ShapePrime, NamesOf
<1>10. ~Has("abort")' /\ ~Has("processed")'
  BY <1>9 DEF Has
<1>11. NoAbort'
  BY <1>1, <1>2, <1>10 DEF NoAbort
<1>12. Text'
  <2>1. Codes(Current)' = Codes(Current)
    BY <1>4 DEF Codes
  <2>2. Ended => Ended'
    BY <1>1, <1>4, <1>10 DEF Ended
  <2>. QED
    BY <1>1, <1>2, <1>3, <1>4, <1>10, <2>1, <2>2 DEF Text
<1>13. SameQueue
  BY KeptQueue
<1>14. Modes'
  <2>1. (Rested => Rested') /\ (Settled => Settled')
    BY <1>1, <1>4 DEF Rested, Settled
  <2>2. Tags' \subseteq Harmless
    BY <1>9 DEF Harmless
  <2>. QED
    BY <1>1, <1>2, <1>4, <1>9, <1>13, <2>1, <2>2 DEF Modes, SameQueue
<1>15. On(a)' /\ Pairs(a, {})'
  BY <1>7, <1>9, FewPairs, NamesOf DEF On, OnConnectState
<1>16. Stack'
  BY <1>8, <1>15, StackBy
<1>. QED
  BY <1>5, <1>11, <1>12, <1>14, <1>16 DEF Core

-----------------------------------------------------------------------------
(* The server.                                                             *)

\* What the server does leaves QFtp alone.
LEMMA ServerCore ==
  ASSUME TypeInv, Core, UNCHANGED <<dtp, pi, calls, lines, ftp>>, net'.control = net.control,
         Silent => Silent', net.up = <<>> => net'.up = <<>>, Pipe'
  PROVE  Core'
<1>1. NoAbort /\ Text /\ Modes /\ Pipe
  BY DEF Core
<1>2. /\ (Online' <=> Online) /\ (Looking' <=> Looking) /\ Current' = Current /\ (Virgin' <=> Virgin)
      /\ Tags' = Tags /\ Waiting' = Waiting /\ (\A name : Has(name)' <=> Has(name))
      /\ (\A name : In(name)' <=> In(name)) /\ (DtpClosed' <=> DtpClosed)
  BY DEF Online, Looking, Current, Virgin, Tags, Waiting, Has, In, Quiet, DtpClosed
<1>3. (Rested' <=> Rested) /\ (Settled' <=> Settled) /\ (Halted' <=> Halted) /\ SameQueue
  BY <1>2, KeptQueue DEF Rested, Settled, Halted
<1>4. Ended => Ended'
  BY <1>2 DEF Ended
<1>5. Codes(Current)' = Codes(Current)
  BY <1>2 DEF Codes
<1>6. NoAbort'
  BY <1>1, <1>2 DEF NoAbort
<1>7. Text'
  BY <1>1, <1>2, <1>4, <1>5 DEF Text
<1>8. Modes'
  BY <1>1, <1>2, <1>3 DEF Modes, SameQueue
<1>9. ASSUME NEW g, Under(g) PROVE Under(g)'
  BY <1>2, <1>3, <1>4, <1>9 DEF Under, SameQueue
<1>10. ASSUME NEW f, On(f) PROVE On(f)'
  <2>1. OnReply => OnReply'
    BY <1>2, <1>5 DEF OnReply
  <2>2. \A a : OnSlot(a) => OnSlot(a)'
    BY <1>2, <1>3 DEF OnSlot, SameQueue
  <2>3. \A s : OnConnectState(s) => OnConnectState(s)'
    BY <1>2, <1>3 DEF OnConnectState, SameQueue
  <2>4. \A s : OnDtpState(s) => OnDtpState(s)'
    BY <1>2, <1>3, <1>4 DEF OnDtpState, SameQueue
  <2>5. \A code : OnReplied(code) => OnReplied(code)'
    BY <1>2, <1>3 DEF OnReplied, SameQueue
  <2>6. Under(f) => Under(f)'
    BY <1>9
  <2>7. ftp' = ftp /\ dtp' = dtp /\ pi' = pi
    OBVIOUS
  <2>. QED
    BY <1>2, <1>3, <1>10, <2>1, <2>2, <2>3, <2>4, <2>5, <2>6, <2>7 DEF On, SameQueue
<1>11. ASSUME NEW f, NEW w, Pairs(f, w) PROVE Pairs(f, w)'
  BY <1>2, <1>3, <1>11 DEF Pairs, SameQueue
<1>12. Stack'
  <2>1. Stack
    BY DEF Core
  <2>2. Stacked(calls)' /\ (Quiet' <=> Quiet) /\ Head(calls)' = Head(calls)
    BY <2>1 DEF Stack, Stacked, Quiet
  <2>. QED
    BY <1>2, <1>9, <1>10, <1>11, <2>1, <2>2 DEF Stack
<1>. QED
  BY <1>6, <1>7, <1>8, <1>12 DEF Core

LEMMA AnswerRows ==
  ASSUME NEW code \in Nat, NEW line \in LineType
  PROVE  LET rows == Answer(code, line)
         IN  /\ rows \in Seq(RowType) /\ Len(rows) \in {1, 2}
             /\ \A k \in 1..Len(rows) : rows[k].code = code /\ rows[k].to = line
             /\ \A i, j \in 1..Len(rows) : i < j => ~rows[i].last
<1> DEFINE a == Row(code, line, FALSE)
           b == Row(code, line, TRUE)
<1>1. /\ a.code = code /\ a.to = line /\ ~a.last
      /\ b.code = code /\ b.to = line
  BY DEF Row
<1>2. Answer(code, line) = <<a, b>> \/ Answer(code, line) = <<b>>
  BY DEF Answer
<1>3. Answer(code, line) \in Seq(RowType)
  BY AnswerType
<1> HIDE DEF a, b
<1>4. CASE Answer(code, line) = <<a, b>>
  <2>1. Len(<<a, b>>) = 2 /\ <<a, b>>[1] = a /\ <<a, b>>[2] = b
    OBVIOUS
  <2>2. \A i \in 1..2 : i = 1 \/ i = 2
    OBVIOUS
  <2>3. \A i, j \in 1..2 : i < j => i = 1
    OBVIOUS
  <2>. QED
    BY <1>1, <1>3, <1>4, <2>1, <2>2, <2>3
<1>5. CASE Answer(code, line) = <<b>>
  <2>1. Len(<<b>>) = 1 /\ <<b>>[1] = b
    OBVIOUS
  <2>2. \A i \in 1..1 : i = 1
    OBVIOUS
  <2>. QED
    BY <1>1, <1>3, <1>5, <2>1, <2>2
<1>. QED
  BY <1>2, <1>4, <1>5

\* The line that was sent is answered.
LEMMA ServeLineCore ==
  ASSUME TypeInv, TypeInv', Core, UNCHANGED <<dtp, pi, calls, lines, ftp>>, ServeLine
  PROVE  Core'
<1>1. Pipe /\ Online /\ net \in NetType /\ pi \in PiType /\ lines \in Seq(RowType) /\ net.up # <<>>
      /\ net.transfer = NoLine /\ ~net.bye
  BY DEF Core, TypeInv, ServeLine, Busy
<1>2. net.up = <<Current>> /\ Stream = <<>>
  BY <1>1 DEF Pipe
<1>3. Current \in SentLines /\ Head(net.up) = Current /\ Tail(net.up) = <<>> /\ Current \in LineType
  <2>1. PICK u \in Seq(SentLines) : u = net.up
    BY <1>1 DEF NetType
  <2>2. PICK c : c = Current
    OBVIOUS
  <2>3. u = <<c>> /\ u # <<>>
    BY <1>1, <1>2, <2>1, <2>2
  <2>4. Head(u) \in SentLines /\ Head(u) = c /\ Tail(u) = <<>>
    BY <2>1, <2>3, HeadTailProperties
  <2>. QED
    BY <2>1, <2>2, <2>4 DEF LineType
<1>4. lines = <<>> /\ net.down = <<>>
  <2>1. PICK d \in Seq(RowType) : d = net.down
    BY <1>1 DEF NetType
  <2>2. PICK s \in Seq(RowType) : s = lines
    BY <1>1
  <2>3. s \o d = <<>>
    BY <1>2, <2>1, <2>2 DEF Stream
  <2>. QED
    BY <2>1, <2>2, <2>3, ConcatEqualIffEmpty
<1>5. PICK code \in Replies[Current.verb] : AnswerLine(Current, code) \/ BeginTransfer(Current, code)
  BY <1>3 DEF ServeLine
<1>6. code \in Nat /\ code \in Codes(Current)
  BY <1>3, <1>5, CodesType DEF SentLines, Codes
<1>7. PICK rows : rows = Answer(code, Current)
  OBVIOUS
<1>8. /\ rows \in Seq(RowType) /\ Len(rows) \in Nat
      /\ \A k \in 1..Len(rows) : rows[k].code = code /\ rows[k].to = Current
      /\ \A i, j \in 1..Len(rows) : i < j => ~rows[i].last
  BY <1>3, <1>6, <1>7, AnswerRows
<1>9. /\ net'.control = net.control /\ net'.up = <<>> /\ net'.down = rows /\ net'.bye \in BOOLEAN
      /\ \/ net'.transfer = NoLine
         \/ net'.transfer = Current /\ Current.verb \in Transfers /\ Prelim(code) /\ net'.bye = net.bye
  <2>1. PICK down : down = net.down \o rows
    OBVIOUS
  <2>2. down = rows
    BY <1>4, <1>8, <2>1, ConcatEmptySeq
  <2>3. CASE AnswerLine(Current, code)
    <3>1. PICK link, bye : net' = [net EXCEPT !.up = <<>>, !.down = down, !.link = link, !.bye = bye]
      BY <1>3, <1>7, <2>1, <2>3, ZenonT(40) DEF AnswerLine
    <3>2. net' \in NetType
      BY DEF TypeInv
    <3>. QED
      BY <1>1, <2>2, <3>1, <3>2 DEF NetType
  <2>4. CASE BeginTransfer(Current, code)
    <3>1. PICK t : t = IF Class(code) = 1 THEN Current ELSE NoLine
      OBVIOUS
    <3>2. PICK link, left : net' = [net EXCEPT !.up = <<>>, !.down = down, !.transfer = t, !.link = link,
                                               !.left = left, !.stored = <<>>, !.sent = FALSE]
      BY <1>3, <1>7, <2>1, <2>4, <3>1 DEF BeginTransfer
    <3>3. /\ net'.control = net.control /\ net'.up = <<>> /\ net'.down = rows /\ net'.bye = net.bye
          /\ net'.transfer = t
      BY <1>1, <2>2, <3>2 DEF NetType
    <3>4. net.bye \in BOOLEAN /\ Current.verb \in Transfers
      BY <1>1, <2>4 DEF BeginTransfer, NetType
    <3>5. CASE Class(code) = 1
      <4>1. t = Current /\ Prelim(code)
        BY <3>1, <3>5 DEF Prelim
      <4>. QED
        BY <3>3, <3>4, <4>1
    <3>6. CASE Class(code) # 1
      <4>1. t = NoLine
        BY <3>1, <3>6
      <4>. QED
        BY <3>3, <3>4, <4>1
    <3>. QED
      BY <3>5, <3>6
  <2>. QED
    BY <1>5, <2>3, <2>4
<1>10. Stream' = rows /\ Current' = Current /\ Codes(Current)' = Codes(Current) /\ Online'
  <2>1. Stream' = <<>> \o rows
    BY <1>4, <1>9 DEF Stream
  <2>2. <<>> \o rows = rows
    BY <1>8, ConcatEmptySeq
  <2>3. Current' = Current
    BY DEF Current
  <2>. QED
    BY <1>1, <1>9, <2>1, <2>2, <2>3 DEF Online, Codes
<1>11. ~Silent /\ pi.state \in {"Waiting", "Begin"}
  <2>1. ~Silent
    BY <1>1 DEF Silent
  <2>. QED
    BY <1>1, <2>1 DEF Pipe, PiType
<1>12. Pipe'
  <2>1. /\ \A k \in 1..Len(Stream') : Stream'[k].to = Current' /\ Stream'[k].code \in Codes(Current)'
        /\ \A i, j \in 1..Len(Stream') :
             i < j /\ Stream'[i].last => Prelim(Stream'[i].code) /\ ~Prelim(Stream'[j].code)
    BY <1>6, <1>8, <1>10
  <2>2. net'.transfer # NoLine => /\ net'.transfer = Current' /\ Current'.verb \in Transfers
                                  /\ \A k \in 1..Len(Stream') : Prelim(Stream'[k].code)
    BY <1>8, <1>9, <1>10
  <2>3. pi'.state = "Waiting" => pi'.cmd.verb \in Verbs
    BY <1>1 DEF Pipe
  <2>4. net'.bye => net'.transfer = NoLine
    BY <1>1, <1>9
  <2>. QED
    BY <1>9, <1>10, <1>11, <2>1, <2>2, <2>3, <2>4 DEF Pipe
<1>. QED
  BY <1>9, <1>11, <1>12, ServerCore

\* A transfer comes to its end, on a connection that may have gone.
LEMMA EndTransferCore ==
  ASSUME TypeInv, TypeInv', Core, UNCHANGED <<dtp, pi, calls, lines, ftp>>, EndTransfer
  PROVE  Core'
<1>1. Pipe /\ net \in NetType /\ pi \in PiType /\ lines \in Seq(RowType) /\ net.transfer # NoLine
  BY DEF Core, TypeInv, EndTransfer, Busy
<1>2. /\ net.transfer = Current /\ Current.verb \in Transfers /\ net.up = <<>> /\ Online /\ ~net.bye
      /\ pi.state \in {"Waiting", "Begin"} /\ ~Silent
      /\ \A k \in 1..Len(Stream) : Prelim(Stream[k].code)
  <2>1. ~Silent
    BY <1>1 DEF Silent
  <2>. QED
    BY <1>1, <2>1 DEF Pipe, PiType
<1>3. PICK code \in Finals[Current.verb] : \E eof :
        net' = [net EXCEPT !.down = @ \o Answer(code, Current), !.transfer = NoLine, !.eof = eof, !.left = <<>>]
  BY <1>2 DEF EndTransfer
<1>4. code \in Nat /\ code \in Codes(Current) /\ ~Prelim(code)
  <2>0. PICK v \in Transfers : v = Current.verb
    BY <1>2
  <2>1. code \in 200..559
    <3>1. Finals[v] \in SUBSET (200..559)
      BY RepliesAssumption
    <3>2. code \in Finals[v]
      BY <2>0
    <3>. QED
      BY <3>1, <3>2
  <2>2. code \div 100 # 1
    BY <2>1
  <2>3. code \in Nat
    BY <2>1
  <2>4. code \in Codes(Current)
    <3>1. Current.verb \in Transfers /\ code \in Finals[Current.verb]
      BY <1>2
    <3>. QED
      BY <3>1 DEF Codes
  <2>5. ~Prelim(code)
    BY <2>1, <2>2 DEF Prelim, Class
  <2>. QED
    BY <2>3, <2>4, <2>5
<1>5. Current \in LineType
  BY <1>1, <1>2 DEF NetType, Moved, LineType, SentLines, Verbs
<1>6. PICK rows : rows = Answer(code, Current)
  OBVIOUS
<1>7. /\ rows \in Seq(RowType) /\ Len(rows) \in Nat
      /\ \A k \in 1..Len(rows) : rows[k].code = code /\ rows[k].to = Current
      /\ \A i, j \in 1..Len(rows) : i < j => ~rows[i].last
  BY <1>4, <1>5, <1>6, AnswerRows
<1>8. PICK d \in Seq(RowType), s \in Seq(RowType) : d = net.down /\ s = lines
  BY <1>1 DEF NetType
<1>9. PICK e : e = d \o rows
  OBVIOUS
<1>10. /\ net'.control = net.control /\ net'.up = net.up /\ net'.down = e /\ net'.transfer = NoLine
       /\ net'.bye = net.bye
  <2>0. PICK eof : net' = [net EXCEPT !.down = @ \o Answer(code, Current), !.transfer = NoLine,
                                     !.eof = eof, !.left = <<>>]
    BY <1>3
  <2>1. net' = [net EXCEPT !.down = e, !.transfer = NoLine, !.eof = eof, !.left = <<>>]
    BY <2>0, <1>6, <1>8, <1>9
  <2>. QED
    BY <1>1, <2>1 DEF NetType
<1>11. Current' = Current /\ Codes(Current)' = Codes(Current) /\ (Online' <=> Online)
  BY <1>10 DEF Current, Codes, Online
<1>12. PICK t \in Seq(RowType) : t = Stream
  BY <1>8, ConcatProperties DEF Stream
<1>13. Stream' = t \o rows
  <2>1. Stream' = s \o (d \o rows)
    BY <1>8, <1>9, <1>10 DEF Stream
  <2>2. (s \o d) \o rows = s \o (d \o rows)
    BY <1>7, Regrouped, SMTT(60)
  <2>. QED
    BY <1>8, <1>12, <2>1, <2>2 DEF Stream
<1>14. PICK m \in Nat, n \in Nat : m = Len(t) /\ n = Len(rows)
  BY <1>7, LenProperties
<1>15. PICK u : u = t \o rows
  OBVIOUS
<1>16. /\ Len(u) = m + n
       /\ \A k \in 1..(m + n) : u[k] = IF k <= m THEN t[k] ELSE rows[k - m]
  BY <1>7, <1>14, <1>15, ConcatProperties
<1>17. \A k \in 1..(m + n) : k > m => k - m \in 1..n
  BY <1>14
<1>18. /\ \A k \in 1..m : t[k].to = Current /\ t[k].code \in Codes(Current) /\ Prelim(t[k].code)
       /\ \A i, j \in 1..m : i < j => ~t[i].last
  <2>1. /\ \A k \in 1..m : t[k].to = Current /\ t[k].code \in Codes(Current) /\ Prelim(t[k].code)
        /\ \A i, j \in 1..m : i < j /\ t[i].last => ~Prelim(t[j].code)
    BY <1>1, <1>2, <1>12, <1>14 DEF Pipe
  <2>. QED
    BY <2>1
<1>19. ASSUME NEW k \in 1..(m + n) PROVE u[k].to = Current /\ u[k].code \in Codes(Current)
  <2>1. CASE k <= m
    BY <1>14, <1>16, <1>18, <2>1
  <2>2. CASE k > m
    <3>1. u[k] = rows[k - m] /\ k - m \in 1..Len(rows)
      BY <1>14, <1>16, <1>17, <2>2
    <3>. QED
      BY <1>4, <1>7, <3>1
  <2>. QED
    BY <1>14, <2>1, <2>2
<1>20. ASSUME NEW i \in 1..(m + n), NEW j \in 1..(m + n), i < j, u[i].last
       PROVE  Prelim(u[i].code) /\ ~Prelim(u[j].code)
  <2>1. CASE j <= m
    <3>1. i \in 1..m /\ j \in 1..m /\ u[i] = t[i]
      BY <1>14, <1>16, <1>20, <2>1
    <3>. QED
      BY <1>18, <1>20, <3>1
  <2>2. CASE i > m
    <3>1. i - m \in 1..Len(rows) /\ j - m \in 1..Len(rows) /\ i - m < j - m /\ u[i] = rows[i - m]
      BY <1>14, <1>16, <1>17, <1>20, <2>2
    <3>. QED
      BY <1>7, <1>20, <3>1
  <2>3. CASE i <= m /\ j > m
    <3>1. i \in 1..m /\ u[i] = t[i]
      BY <1>14, <1>16, <2>3
    <3>2. j - m \in 1..Len(rows)
      BY <1>14, <1>17, <2>3
    <3>3. u[j] = rows[j - m]
      <4>1. ~(j <= m)
        BY <1>14, <2>3
      <4>. QED
        BY <1>16, <4>1
    <3>. QED
      BY <1>4, <1>7, <1>18, <3>1, <3>2, <3>3
  <2>. QED
    BY <1>14, <1>20, <2>1, <2>2, <2>3
<1>21. Pipe'
  <2>1. Stream' = u /\ Len(Stream') = m + n
    BY <1>13, <1>15, <1>16
  <2>2. /\ \A k \in 1..Len(Stream') : Stream'[k].to = Current' /\ Stream'[k].code \in Codes(Current)'
        /\ \A i, j \in 1..Len(Stream') :
             i < j /\ Stream'[i].last => Prelim(Stream'[i].code) /\ ~Prelim(Stream'[j].code)
    BY <1>11, <1>19, <1>20, <2>1
  <2>3. pi'.state = "Waiting" => pi'.cmd.verb \in Verbs
    BY <1>1 DEF Pipe
  <2>. QED
    BY <1>2, <1>10, <1>11, <2>2, <2>3 DEF Pipe
<1>. QED
  BY <1>2, <1>10, <1>21, ServerCore

LEMMA WorldCore ==
  ASSUME TypeInv, TypeInv', Core, World
  PROVE  Core'
<1>1. Pipe /\ net \in NetType /\ UNCHANGED <<dtp, pi, calls, lines, ftp>> /\ Server
  BY DEF Core, TypeInv, World
<1>2. CASE ServeLine
  BY <1>1, <1>2, ServeLineCore
<1>3. CASE EndTransfer
  BY <1>1, <1>3, EndTransferCore
<1>4. CASE SendCell \/ SendText
  <2>1. /\ net'.control = net.control /\ net'.up = net.up /\ net'.down = net.down
        /\ net'.transfer = net.transfer /\ net'.bye = net.bye
    BY <1>1, <1>4 DEF SendCell, SendText, NetType
  <2>2. Pipe' /\ (Silent' <=> Silent)
    BY <1>1, <2>1, KeptPipe DEF SamePipe
  <2>. QED
    BY <1>1, <2>1, <2>2, ServerCore
\* Nothing is sent while the server is busy, unless it is told to abort.
<1>5. CASE ServeAbort
  BY <1>1, <1>5 DEF ServeAbort, Busy, Pipe
<1>6. CASE GiveUp
  <2>1. /\ net'.control = net.control /\ net'.up = net.up /\ net'.down = net.down
        /\ net'.transfer = NoLine /\ Online
    BY <1>1, <1>6 DEF GiveUp, NetType
  <2>2. /\ Stream' = Stream /\ Current' = Current /\ (Online' <=> Online) /\ (Silent => Silent')
        /\ Codes(Current)' = Codes(Current)
    BY <1>1, <2>1 DEF Stream, Current, Online, Silent, Codes
  <2>3. Pipe'
    BY <1>1, <2>1, <2>2 DEF Pipe
  <2>. QED
    BY <1>1, <2>1, <2>2, <2>3, ServerCore
<1>. QED
  BY <1>1, <1>2, <1>3, <1>4, <1>5, <1>6 DEF Server

-----------------------------------------------------------------------------
(* The steps together.                                                     *)

LEMMA InitCore == ASSUME UserInit PROVE Core /\ Heard
<1>1. /\ net = Closed /\ lines = <<>> /\ calls = <<>> /\ ftp.pending = <<>> /\ ftp.signals = <<>>
      /\ ~ftp.closeWait /\ ftp.timers = 0 /\ ftp.state = "Unconnected"
  BY DEF UserInit, LibraryInit, NetInit, PiInit, FtpInit
<1>2. /\ dtp.socket = "none" /\ ~dtp.listening /\ pi.state = "Begin" /\ pi.abort = "None" /\ pi.pending = <<>>
      /\ pi.cmd = NoLine /\ ~pi.waitConnect /\ ~pi.waitClose /\ ~pi.text
  BY DEF UserInit, LibraryInit, DtpInit, PiInit
<1>3. /\ net.up = <<>> /\ net.down = <<>> /\ net.transfer = NoLine /\ ~net.bye /\ ~Online /\ ~Looking
  BY <1>1 DEF Closed, Online, Looking
<1>4. Quiet /\ Tags = {} /\ Empty /\ ~Running /\ ~Over /\ ~Fresh /\ Silent /\ Virgin
  BY <1>1, <1>2, <1>3 DEF Quiet, Tags, Empty, Running, Over, Fresh, Said, Silent, Virgin
<1>5. Pipe
  BY <1>2, <1>4, SilentPipe
<1>6. NoAbort /\ Text
  BY <1>1, <1>2, <1>4 DEF NoAbort, Text, Has
<1>7. Modes
  BY <1>1, <1>2, <1>3, <1>4 DEF Modes, Rested, Settled, Connects, Has, In, Quiet
<1>8. Stack
  BY <1>1, <1>4, NoFrames DEF Stack, Piled
<1>. QED
  BY <1>1, <1>5, <1>6, <1>7, <1>8 DEF Core, Heard

\* The steps of the library's own code.
LEMMA TransferCore ==
  ASSUME NEW f, NEW w, Facing(f, w), TransferCode, UNCHANGED <<lines, ftp>>
  PROVE  Core'
BY DtpConnectToHostCore, AbortConnectionCore, WaitForConnectionCore, WriteDataCore, AfterWriteCore,
   WrittenCore, ReadyReadCore, ConnectionClosedCore DEF TransferCode

LEMMA ControlCore ==
  ASSUME PlainGreeting, NEW f, NEW w, Facing(f, w), ControlCode, UNCHANGED ftp
  PROVE  Core'
<1>1. ~PiAbort
  <2>1. f[1] # "abort" /\ (In("abort") <=> f[1] = "abort")
    BY Base DEF Facing, NoAbort, Has
  <2>. QED
    BY <2>1 DEF PiAbort
<1>2. CASE PiConnectToHost \/ SendCommands \/ PiClear \/ PiCleared
  BY <1>2, ConnectToHostCore, SendCommandsCore, ClearPendingCore, ClearedCore
<1>3. CASE ReadyRead \/ ReadLines \/ Processed \/ ProcessReply
  BY <1>3, ReadyReadLoopCore, ReadLinesCore, ProcessedCore, ProcessReplyCore
<1>4. CASE React \/ ClearError \/ Failed \/ StartNextCmd
  BY <1>4, ReactCore, ClearErrorCore, FailedCore, StartNextCmdCore
<1>5. CASE DtpConnectState \/ DtpConnectionClosed
  BY <1>5, DtpConnectStateCore, ClosedCore
<1>6. CASE TransferCode /\ UNCHANGED lines
  BY <1>6, TransferCore
<1>. QED
  BY <1>1, <1>2, <1>3, <1>4, <1>5, <1>6 DEF ControlCode

LEMMA CodeCore ==
  ASSUME PlainGreeting, NEW f, NEW w, Facing(f, w), Code
  PROVE  Core'
<1>1. CASE StartNextCommand \/ QPiFinished \/ QPiError \/ CommandFailed
  BY <1>1, StartNextCommandCore, PiFinishedCore, QPiErrorCore, CommandFailedCore
<1>2. CASE RemoveFirstCommand \/ QPiConnectState \/ QPiFtpReply
  BY <1>2, RemoveFirstCore, QPiConnectStateCore, RepliedCore
<1>3. CASE ControlCode /\ UNCHANGED ftp
  BY <1>3, ControlCore
<1>. QED
  BY <1>1, <1>2, <1>3 DEF Code

\* Code runs in a call.
LEMMA CodeRuns == ASSUME Code PROVE ~Quiet
<1>1. ASSUME NEW name, In(name) PROVE ~Quiet
  BY <1>1 DEF In, Quiet
<1>2. ASSUME TransferCode PROVE ~Quiet
  BY <1>1, <1>2 DEF TransferCode, DtpConnectToHost, AbortConnection, WaitForConnection, WriteData, AfterWrite,
     SocketBytesWritten, SocketReadyRead, SocketConnectionClosed
<1>3. ASSUME ControlCode PROVE ~Quiet
  <2>1. CASE PiConnectToHost \/ SendCommands \/ PiClear \/ PiCleared \/ PiAbort
    BY <1>1, <2>1 DEF PiConnectToHost, SendCommands, PiClear, PiCleared, PiAbort
  <2>2. CASE ReadyRead \/ ReadLines \/ Processed \/ ProcessReply \/ React \/ ClearError
    BY <1>1, <2>2 DEF ReadyRead, ReadLines, Processed, ProcessReply, React, ClearError
  <2>3. CASE Failed \/ StartNextCmd \/ DtpConnectState \/ DtpConnectionClosed
    BY <1>1, <2>3 DEF Failed, StartNextCmd, DtpConnectState, DtpConnectionClosed
  <2>. QED
    BY <1>2, <1>3, <2>1, <2>2, <2>3 DEF ControlCode
<1>4. CASE StartNextCommand \/ QPiFinished \/ QPiError \/ CommandFailed
  BY <1>1, <1>4 DEF StartNextCommand, QPiFinished, QPiError, CommandFailed
<1>5. CASE RemoveFirstCommand \/ QPiConnectState \/ QPiFtpReply
  BY <1>1, <1>5 DEF RemoveFirstCommand, QPiConnectState, QPiFtpReply, Special
<1>. QED
  BY <1>3, <1>4, <1>5 DEF Code

LEMMA EventsCore ==
  ASSUME TypeInv, TypeInv', Core, Events
  PROVE  Core'
<1>1. CASE Timer
  BY <1>1, TimerCore
<1>2. CASE (HostFound \/ ControlError) /\ UNCHANGED ftp
  BY <1>2, LookedCore
<1>3. CASE (PiConnected \/ RowsArrive \/ ConnectionClosed) /\ UNCHANGED ftp
  BY <1>3, PiConnectedCore, RowsArriveCore, BrokenCore
<1>4. CASE TransferEvents /\ UNCHANGED <<lines, ftp>>
  BY <1>4, SocketAnswerCore, SetupSocketCore, DataCore DEF TransferEvents
<1>. QED
  BY <1>1, <1>2, <1>3, <1>4 DEF Events, ControlEvents

\* A step without abort().
Calm == AskLater \/ AskInSlot \/ Return \/ (Library /\ UNCHANGED aborts)
LEMMA CalmCore ==
  ASSUME PlainGreeting, PlainSlots, TypeInv, TypeInv', Core, Heard, Calm
  PROVE  Core'
<1>1. CASE AskLater
  BY <1>1, AskLaterCore
<1>2. CASE AskInSlot \/ Return \/ Code
  <2>1. ~Quiet
    BY <1>2, CodeRuns DEF AskInSlot, Return, Returned, In, Quiet
  <2>2. PICK f, w : Facing(f, w)
    BY <2>1, Faced
  <2>. QED
    BY <1>2, <2>2, AskInSlotCore, ReturnCore, CodeCore
<1>3. CASE Events \/ World
  BY <1>3, EventsCore, WorldCore
<1>. QED
  BY <1>1, <1>2, <1>3 DEF Calm, Library

-----------------------------------------------------------------------------
(* What a step does to the queue and to what was told of it.               *)

Kept  == ftp'.pending = ftp.pending /\ ftp'.last = ftp.last /\ ftp'.signals = ftp.signals
Grown == /\ \E c \in Commands : ftp'.pending = Append(ftp.pending, [id |-> ftp.last + 1, command |-> c, mode |-> ftp.mode])
         /\ ftp'.last = ftp.last + 1 /\ ftp.last < MaxCommands /\ ftp'.signals = ftp.signals
Begun == /\ Fresh /\ ftp'.pending = ftp.pending /\ ftp'.last = ftp.last
         /\ ftp'.signals = Append(ftp.signals, Told("started", First.id))
Ends  == /\ Running /\ ftp'.pending \in {ftp.pending, <<First>>} /\ ftp'.last = ftp.last
         /\ ftp'.signals = Append(ftp.signals, Told("finished", First.id))
Left  == /\ Over /\ ftp'.pending = Tail(ftp.pending) /\ ftp'.last = ftp.last /\ ftp'.signals = ftp.signals
Moves == Kept \/ Grown \/ Begun \/ Ends \/ Left

LEMMA CodeMoves ==
  ASSUME NEW f, NEW w, Facing(f, w), Code
  PROVE  Moves
<1>1. /\ Arg = f[2] /\ (\A name : In(name) <=> f[1] = name) /\ ftp \in FtpType /\ On(f)
  BY Base DEF Facing
<1>2. QueueTypes
  BY DEF Facing, TypeInv, QueueTypes
<1>3. CASE StartNextCommand
  <2>1. Fresh /\ ~Empty
    BY <1>1, <1>3, Phases DEF StartNextCommand, On
  <2>2. PICK s, state : ftp' = [ftp EXCEPT !.signals = s, !.state = state]
                        /\ s = Append(ftp.signals, Told("started", First.id))
    BY <1>3, <2>1 DEF StartNextCommand
  <2>. QED
    BY <1>1, <2>1, <2>2 DEF FtpType, Moves, Begun
<1>4. CASE QPiFinished
  <2>1. CASE Empty \/ (First.command = "Close" /\ ftp.state # "Unconnected")
    BY <1>1, <1>4, <2>1 DEF QPiFinished, FtpType, Moves, Kept
  <2>2. CASE ~Empty /\ ~(First.command = "Close" /\ ftp.state # "Unconnected")
    <3>1. Running
      BY <1>1, <1>4, <2>2 DEF QPiFinished, On
    <3>2. PICK s, failed : ftp' = [ftp EXCEPT !.signals = s, !.failed = failed]
                           /\ s = Append(ftp.signals, Told("finished", First.id))
      BY <1>4, <2>2 DEF QPiFinished, Finish
    <3>. QED
      BY <1>1, <3>1, <3>2 DEF FtpType, Moves, Ends
  <2>. QED
    BY <2>1, <2>2
<1>5. CASE CommandFailed
  <2>1. Running /\ f[2] = First.id /\ ~Empty
    BY <1>1, <1>5, Phases DEF CommandFailed, On, Under
  <2>2. KeepFirst(ftp) = [ftp EXCEPT !.pending = <<First>>]
    BY <1>2, <2>1, KeepFirstTypes
  <2>3. /\ ftp'.pending = <<First>> /\ ftp'.signals = Append(ftp.signals, Told("finished", First.id))
        /\ ftp'.last = ftp.last
    BY <1>1, <1>5, <2>1, <2>2 DEF CommandFailed, FtpType
  <2>. QED
    BY <2>1, <2>3 DEF Moves, Ends
<1>6. CASE RemoveFirstCommand
  <2>1. Over
    BY <1>1, <1>6 DEF RemoveFirstCommand, On, Under
  <2>. QED
    BY <1>1, <1>6, <2>1 DEF RemoveFirstCommand, FtpType, Moves, Left
<1>7. CASE QPiConnectState
  <2>1. PICK state : ftp' = [ftp EXCEPT !.state = state, !.closeWait = FALSE]
    BY <1>7 DEF QPiConnectState
  <2>. QED
    BY <1>1, <2>1 DEF FtpType, Moves, Kept
<1>8. CASE UNCHANGED ftp
  BY <1>8 DEF Moves, Kept
<1>. QED
  BY <1>3, <1>4, <1>5, <1>6, <1>7, <1>8 DEF Code, QPiError, QPiFtpReply

LEMMA CalmMoves ==
  ASSUME TypeInv, TypeInv', Core, Calm
  PROVE  Moves
<1>1. ftp \in FtpType
  BY DEF TypeInv
<1>2. ASSUME NEW c \in Commands, Ask(c) PROVE Moves
  <2>1. /\ ftp'.pending = Append(ftp.pending, [id |-> ftp.last + 1, command |-> c, mode |-> ftp.mode])
        /\ ftp'.last = ftp.last + 1 /\ ftp'.signals = ftp.signals
    BY <1>2, AskedParts
  <2>. QED
    BY <1>2, <2>1 DEF Ask, Moves, Grown
<1>3. CASE AskLater \/ AskInSlot
  BY <1>2, <1>3 DEF AskLater, AskInSlot
<1>4. CASE Code
  <2>1. PICK f, w : Facing(f, w)
    BY <1>4, CodeRuns, Faced
  <2>. QED
    BY <1>4, <2>1, CodeMoves
<1>5. CASE Timer
  BY <1>1, <1>5 DEF Timer, FtpType, Moves, Kept
<1>6. CASE UNCHANGED ftp
  BY <1>6 DEF Moves, Kept
<1>. QED
  BY <1>3, <1>4, <1>5, <1>6 DEF Calm, Return, Library, Events, World

\* What was told last is told of a command that was added.
LEMMA MovesHeard ==
  ASSUME TypeInv, Heard, Moves
  PROVE  Heard'
<1>1. ftp \in FtpType /\ QueueTypes
  BY DEF TypeInv, QueueTypes
<1>2. PICK s \in Seq(ReportType) : s = ftp.signals
  BY <1>1 DEF FtpType
<1>3. ASSUME NEW what \in {"started", "finished"}, ~Empty,
             ftp'.signals = Append(ftp.signals, Told(what, First.id)), ftp'.last = ftp.last
      PROVE  Heard'
  <2>1. First.id \in 1..ftp.last /\ First.id \in Nat
    <3>1. First = ftp.pending[1] /\ Len(ftp.pending) \in Nat \ {0} /\ First \in CommandType
      BY <1>1, <1>3, FirstType DEF First
    <3>. QED
      BY <1>1, <3>1 DEF QueueTypes, Queued, CommandType
  <2>2. PICK r \in ReportType : r = Told(what, First.id)
    BY <2>1 DEF Told, ReportType
  <2>3. PICK t : t = Append(s, r)
    OBVIOUS
  <2>4. Len(t) = Len(s) + 1 /\ t[Len(s) + 1] = r
    BY <1>2, <2>2, <2>3, AppendProperties
  <2>5. ftp'.signals = t /\ r.id = First.id
    BY <1>2, <1>3, <2>2, <2>3 DEF Told
  <2>. QED
    BY <1>1, <1>3, <2>1, <2>4, <2>5 DEF Heard, FtpType
<1>4. CASE Kept \/ Left
  BY <1>4 DEF Kept, Left, Heard
<1>5. CASE Grown
  <2>1. s # <<>> => s[Len(s)].id \in Nat
    <3>1. PICK n \in Nat : n = Len(s)
      BY <1>2, LenProperties
    <3>2. s # <<>> => s[n] \in ReportType
      BY <1>2, <3>1, EmptySeq, ElementOfSeq
    <3>. QED
      BY <3>1, <3>2 DEF ReportType
  <2>. QED
    BY <1>1, <1>2, <1>5, <2>1 DEF Grown, Heard, FtpType
<1>6. CASE Begun
  BY <1>3, <1>6, Phases DEF Begun
<1>7. CASE Ends
  BY <1>3, <1>7, Phases DEF Ends
<1>. QED
  BY <1>4, <1>5, <1>6, <1>7 DEF Moves

-----------------------------------------------------------------------------
(* The invariant, of the runs in which nothing was aborted.                *)

Sound == aborts = 0 => Core /\ Heard

LEMMA Calmly ==
  ASSUME TypeInv, UserNext, aborts' = 0
  PROVE  Calm /\ aborts = 0
<1>1. ~AskAbort
  BY DEF AskAbort, TypeInv
<1>2. UNCHANGED aborts
  BY <1>1 DEF UserNext, AskLater, AskInSlot, Ask, Return
<1>. QED
  BY <1>1, <1>2 DEF UserNext, Calm

LEMMA SoundStep ==
  ASSUME PlainGreeting, PlainSlots, TypeInv, TypeInv', Sound, [UserNext]_userVars
  PROVE  Sound'
<1>1. CASE UserNext
  <2> SUFFICES ASSUME aborts' = 0 PROVE Core' /\ Heard'
    BY DEF Sound
  <2>1. Calm /\ Core /\ Heard
    BY <1>1, Calmly DEF Sound
  <2>. QED
    BY <2>1, CalmCore, CalmMoves, MovesHeard
<1>2. CASE UNCHANGED userVars
  <2>1. UNCHANGED <<net, dtp, pi, calls, lines, ftp, aborts>>
    BY <1>2 DEF userVars, vars
  <2>2. Core' <=> Core
    <3>1. /\ (Quiet' <=> Quiet) /\ (Online' <=> Online) /\ Tags' = Tags /\ Waiting' = Waiting
          /\ Current' = Current /\ Stream' = Stream /\ (Silent' <=> Silent) /\ (DtpClosed' <=> DtpClosed)
          /\ (Looking' <=> Looking) /\ \A name : In(name)' <=> In(name)
      BY <2>1 DEF Quiet, Online, Tags, Waiting, Wait, Current, Stream, Silent, DtpClosed, Looking, In
    <3>2. SameQueue /\ \A name : Has(name)' <=> Has(name)
      BY <2>1, <3>1, KeptQueue DEF Has
    <3>3. /\ (Virgin' <=> Virgin) /\ (Ended' <=> Ended) /\ (Settled' <=> Settled)
          /\ Codes(Current)' = Codes(Current)
      BY <2>1, <3>1, <3>2 DEF Virgin, Ended, Settled, Codes
    <3>4. (Rested' <=> Rested) /\ (Halted' <=> Halted)
      BY <2>1, <3>1, <3>3 DEF Rested, Halted
    <3>5. (NoAbort' <=> NoAbort) /\ (Pipe' <=> Pipe) /\ (Text' <=> Text)
      BY <2>1, <3>1, <3>2, <3>3 DEF NoAbort, Pipe, Text
    <3>6. Modes' <=> Modes
      BY <2>1, <3>1, <3>2, <3>3, <3>4 DEF Modes, SameQueue
    <3>7. \A f : Under(f)' <=> Under(f)
      BY <2>1, <3>1, <3>2, <3>3, <3>4 DEF Under, SameQueue
    <3>8. \A f : On(f)' <=> On(f)
      <4>1. OnReply' <=> OnReply
        BY <2>1, <3>1, <3>3 DEF OnReply
      <4>2. /\ \A a : OnSlot(a)' <=> OnSlot(a)
            /\ \A s : OnConnectState(s)' <=> OnConnectState(s)
            /\ \A s : OnDtpState(s)' <=> OnDtpState(s)
            /\ \A code : OnReplied(code)' <=> OnReplied(code)
        BY <2>1, <3>1, <3>2, <3>3, ZenonT(40) DEF OnSlot, OnConnectState, OnDtpState, OnReplied, SameQueue
      <4>. QED
        BY <2>1, <3>1, <3>2, <3>3, <3>4, <3>7, <4>1, <4>2 DEF On, SameQueue
    <3>9. ASSUME NEW f, NEW w PROVE Pairs(f, w)' <=> Pairs(f, w)
      <4>1. PICK names : names = Names(w)
        OBVIOUS
      <4>2. (Running' <=> Running) /\ First' = First /\ pi' = pi /\ (Online' <=> Online) /\ (DtpClosed' <=> DtpClosed)
        BY <2>1, <3>1, <3>2 DEF SameQueue
      <4>. QED
        BY <4>1, <4>2 DEF Pairs
    <3>10. Stack' <=> Stack
      <4>1. PICK f, w : f = Head(calls) /\ w = Waiting
        OBVIOUS
      <4>2. Head(calls)' = f /\ Waiting' = w
        BY <2>1, <3>1, <4>1
      <4>3. Stack' <=> Stacked(calls) /\ (~Quiet => On(f)' /\ Pairs(f, w)' /\ \A g \in w : Under(g)')
        BY <2>1, <3>1, <4>2 DEF Stack
      <4>4. Stack <=> Stacked(calls) /\ (~Quiet => On(f) /\ Pairs(f, w) /\ \A g \in w : Under(g))
        BY <4>1 DEF Stack
      <4>. QED
        BY <3>7, <3>8, <3>9, <4>3, <4>4
    <3>. QED
      BY <3>5, <3>6, <3>10 DEF Core
  <2>. QED
    BY <2>1, <2>2 DEF Sound, Heard
<1>. QED
  BY <1>1, <1>2

LEMMA AlwaysSound == ASSUME PlainGreeting, PlainSlots PROVE UserSpec => []Sound
<1>1. UserInit => Sound
  BY InitCore DEF Sound
<1>2. Sound /\ TypeInv /\ TypeInv' /\ [UserNext]_userVars => Sound'
  BY SoundStep
<1>3. UserSpec => []TypeInv
  BY AlwaysTypes
<1>. QED
  BY <1>1, <1>2, <1>3, PTL DEF UserSpec

-----------------------------------------------------------------------------
(* The identifiers of a queue.                                             *)

IdsOf(q) == [i \in DOMAIN q |-> q[i].id]

LEMMA IdsType ==
  ASSUME NEW q \in Seq(CommandType)
  PROVE  /\ IdsOf(q) \in Seq(Nat) /\ Len(IdsOf(q)) = Len(q)
         /\ \A i \in 1..Len(q) : IdsOf(q)[i] = q[i].id
<1>1. PICK n \in Nat : n = Len(q) /\ DOMAIN q = 1..n
  BY LenProperties
<1>2. \A i \in 1..n : q[i].id \in Nat
  <2> SUFFICES ASSUME NEW i \in 1..n PROVE q[i].id \in Nat
    OBVIOUS
  <2>1. q[i] \in CommandType
    BY <1>1, ElementOfSeq
  <2>. QED
    BY <2>1 DEF CommandType
<1>3. IdsOf(q) = [i \in 1..n |-> q[i].id]
  BY <1>1 DEF IdsOf
<1>4. IdsOf(q) \in [1..n -> Nat]
  BY <1>2, <1>3
<1>. QED
  BY <1>1, <1>3, <1>4

LEMMA IdsAppend ==
  ASSUME NEW q \in Seq(CommandType), NEW c \in CommandType
  PROVE  IdsOf(Append(q, c)) = Append(IdsOf(q), c.id)
<1>1. PICK n \in Nat : n = Len(q)
  BY LenProperties
<1>2. PICK r \in Seq(CommandType) : r = Append(q, c)
  BY AppendProperties
<1>3. Len(r) = n + 1 /\ (\A i \in 1..n : r[i] = q[i]) /\ r[n + 1] = c
  BY <1>1, <1>2, AppendProperties
<1>4. PICK s \in Seq(Nat) : s = IdsOf(q)
  BY IdsType
<1>5. Len(s) = n /\ \A i \in 1..n : s[i] = q[i].id
  BY <1>1, <1>4, IdsType
<1>6. PICK u \in Seq(Nat) : u = IdsOf(r)
  BY IdsType
<1>7. Len(u) = n + 1 /\ \A i \in 1..(n + 1) : u[i] = r[i].id
  BY <1>3, <1>6, IdsType
<1>8. c.id \in Nat
  BY DEF CommandType
<1>9. PICK v \in Seq(Nat) : v = Append(s, c.id)
  BY <1>8, AppendProperties
<1>10. Len(v) = n + 1 /\ (\A i \in 1..n : v[i] = s[i]) /\ v[n + 1] = c.id
  BY <1>5, <1>8, <1>9, AppendProperties
<1>11. \A i \in 1..(n + 1) : u[i] = v[i]
  <2> SUFFICES ASSUME NEW i \in 1..(n + 1) PROVE u[i] = v[i]
    OBVIOUS
  <2>1. CASE i = n + 1
    <3>1. n + 1 \in 1..(n + 1)
      BY <1>1
    <3>2. u[n + 1] = r[n + 1].id
      BY <1>7, <3>1
    <3>. QED
      BY <1>3, <1>10, <2>1, <3>2
  <2>2. CASE i \in 1..n
    <3>1. u[i] = r[i].id
      BY <1>7
    <3>2. r[i] = q[i] /\ v[i] = s[i] /\ s[i] = q[i].id
      BY <1>3, <1>5, <1>10, <2>2
    <3>. QED
      BY <3>1, <3>2
  <2>. QED
    <3>1. i \in 1..n \/ i = n + 1
      BY <1>1
    <3>. QED
      BY <2>1, <2>2, <3>1
<1>12. u = v
  BY <1>7, <1>10, <1>11, SeqEqual
<1>. QED
  BY <1>2, <1>4, <1>6, <1>9, <1>12

LEMMA IdsTail ==
  ASSUME NEW q \in Seq(CommandType), q # <<>>
  PROVE  /\ IdsOf(q) # <<>> /\ Head(IdsOf(q)) = q[1].id
         /\ IdsOf(Tail(q)) = Tail(IdsOf(q))
         /\ IdsOf(<<q[1]>>) = SubSeq(IdsOf(q), 1, 1)
<1>1. PICK n \in Nat : n = Len(q) /\ n > 0
  BY EmptySeq, LenProperties
<1>2. PICK s \in Seq(Nat) : s = IdsOf(q)
  BY IdsType
<1>3. Len(s) = n /\ \A i \in 1..n : s[i] = q[i].id
  BY <1>1, <1>2, IdsType
<1>4. s # <<>> /\ Head(s) = s[1]
  BY <1>1, <1>3, EmptySeq
<1>5. Head(s) = q[1].id
  BY <1>1, <1>3, <1>4
<1>6. PICK r \in Seq(CommandType) : r = Tail(q)
  BY HeadTailProperties
<1>7. Len(r) = n - 1 /\ \A i \in 1..(n - 1) : r[i] = q[i + 1]
  BY <1>1, <1>6, HeadTailProperties
<1>8. PICK t \in Seq(Nat) : t = Tail(s)
  BY <1>4, HeadTailProperties
<1>9. Len(t) = n - 1 /\ \A i \in 1..(n - 1) : t[i] = s[i + 1]
  BY <1>3, <1>4, <1>8, HeadTailProperties
<1>10. PICK u \in Seq(Nat) : u = IdsOf(r)
  BY IdsType
<1>11. Len(u) = n - 1 /\ \A i \in 1..(n - 1) : u[i] = r[i].id
  BY <1>7, <1>10, IdsType
<1>12. \A i \in 1..(n - 1) : u[i] = t[i]
  <2> SUFFICES ASSUME NEW i \in 1..(n - 1) PROVE u[i] = t[i]
    OBVIOUS
  <2>1. i + 1 \in 1..n
    BY <1>1
  <2>. QED
    BY <1>3, <1>7, <1>9, <1>11, <2>1
<1>13. u = t
  BY <1>9, <1>11, <1>12, SeqEqual
<1>14. IdsOf(<<q[1]>>) = SubSeq(s, 1, 1)
  <2>1. PICK c \in CommandType : c = q[1]
    BY <1>1, ElementOfSeq
  <2>2. IdsOf(<<c>>) = <<c.id>>
    BY DEF IdsOf
  <2>3. PICK x : x = s[1]
    OBVIOUS
  <2>4. SubSeq(s, 1, 1) = <<x>>
    <3>1. x \in Nat
      BY <1>1, <1>3, <2>3, ElementOfSeq
    <3>2. PICK y : y = SubSeq(s, 1, 1)
      OBVIOUS
    <3>3. \A i \in 1..1 : s[i] \in Nat
      BY <2>3, <3>1
    <3>4. y \in Seq(Nat) /\ Len(y) = 1 /\ \A i \in 1..1 : y[i] = s[1 + i - 1]
      BY <3>2, <3>3, SubSeqProperties
    <3>5. y[1] = x
      BY <2>3, <3>4
    <3>6. PICK z \in Seq(Nat) : z = <<x>>
      BY <3>1, SingleSeq
    <3>7. Len(z) = 1 /\ z[1] = x
      BY <3>1, <3>6, SingleSeq
    <3>8. \A i \in 1..1 : y[i] = z[i]
      BY <3>5, <3>7
    <3>. QED
      BY <3>2, <3>4, <3>6, <3>7, <3>8, SeqEqual
  <2>5. x = c.id
    BY <1>1, <1>3, <2>1, <2>3
  <2>. QED
    BY <2>1, <2>2, <2>4, <2>5
<1>. QED
  BY <1>2, <1>4, <1>5, <1>6, <1>8, <1>10, <1>13, <1>14

LEMMA MovesNext ==
  ASSUME TypeInv, Moves
  PROVE  [Promised!Next]_<<Ids, ftp.last, ftp.signals>>
<1>1. ftp \in FtpType /\ ftp.last \in Nat
  BY DEF TypeInv, FtpType
<1>2. PICK q \in Seq(CommandType) : q = ftp.pending
  BY <1>1 DEF FtpType
<1>3. Ids = IdsOf(ftp.pending) /\ Ids' = IdsOf(ftp'.pending)
  BY DEF Ids, IdsOf
<1>4. ~Empty => /\ Ids # <<>> /\ Head(Ids) = First.id
                /\ IdsOf(Tail(q)) = Tail(Ids) /\ IdsOf(<<First>>) = SubSeq(Ids, 1, 1)
  BY <1>2, <1>3, IdsTail DEF Empty, First
<1>5. \A what, id : Promised!Report(what, id) = Told(what, id)
  BY DEF Promised!Report, Told
<1>6. \A what \in {"started", "finished"} : ~Empty => (Promised!Reported(what, Head(Ids)) <=> Said(what))
  BY <1>4, <1>5 DEF Promised!Reported, Said
<1>7. CASE Kept
  BY <1>3, <1>7 DEF Kept
<1>8. CASE Grown
  <2>1. PICK c \in Commands : ftp'.pending = Append(q, [id |-> ftp.last + 1, command |-> c, mode |-> ftp.mode])
    BY <1>2, <1>8 DEF Grown
  <2>2. PICK new \in CommandType : new = [id |-> ftp.last + 1, command |-> c, mode |-> ftp.mode]
    <3>1. ftp.mode \in {"Active", "Passive"} /\ ftp.last + 1 \in Nat
      BY <1>1 DEF FtpType
    <3>. QED
      BY <3>1 DEF CommandType
  <2>3. Ids' = Append(Ids, ftp.last + 1)
    BY <1>2, <1>3, <2>1, <2>2, IdsAppend
  <2>4. ftp.last + 1 \in 1..MaxCommands /\ ftp'.last = ftp.last + 1 /\ ftp'.signals = ftp.signals
    BY <1>1, <1>8, UserBounds DEF Grown
  <2>5. Promised!Add
    BY <2>3, <2>4 DEF Promised!Add
  <2>. QED
    BY <2>5 DEF Promised!Next
<1>9. CASE Begun
  <2>1. ~Empty /\ ~Said("started") /\ ~Said("finished") /\ Ids' = Ids
    BY <1>3, <1>9, Phases DEF Begun, Fresh, Running, Over
  <2>2. Promised!Start
    BY <1>4, <1>5, <1>6, <1>9, <2>1 DEF Begun, Promised!Start
  <2>. QED
    BY <2>2 DEF Promised!Next
<1>10. CASE Ends
  <2>1. ~Empty /\ Said("started")
    BY <1>10, Phases DEF Ends, Running
  <2>2. Ids' \in {Ids, SubSeq(Ids, 1, 1)}
    BY <1>2, <1>3, <1>4, <1>10, <2>1 DEF Ends
  <2>3. Promised!Finish
    BY <1>4, <1>5, <1>6, <1>10, <2>1, <2>2 DEF Ends, Promised!Finish
  <2>. QED
    BY <2>3 DEF Promised!Next
<1>11. CASE Left
  <2>1. ~Empty /\ Said("finished")
    BY <1>11, Phases DEF Left, Over
  <2>2. Ids' = Tail(Ids)
    BY <1>2, <1>3, <1>4, <1>11, <2>1 DEF Left
  <2>3. Promised!Remove
    BY <1>4, <1>6, <1>11, <2>1, <2>2 DEF Left, Promised!Remove
  <2>. QED
    BY <2>3 DEF Promised!Next
<1>. QED
  BY <1>7, <1>8, <1>9, <1>10, <1>11 DEF Moves

-----------------------------------------------------------------------------
(* What is proved of every run in which nothing was aborted.               *)

\* An answer that moves QFtpPI on is the answer to the line it has sent,
\* whatever the server, the network and the user do, however long an answer is
\* and in whatever pieces it comes.
THEOREM Answered == ASSUME PlainGreeting, PlainSlots PROVE UserSpec => []RightReply
<1>1. ASSUME TypeInv, Sound PROVE RightReply
  <2> SUFFICES ASSUME aborts = 0, In("processReply"), pi.state = "Waiting" PROVE pi.to = pi.cmd
    BY DEF RightReply
  <2>1. Core /\ ~Quiet
    BY <1>1 DEF Sound, In, Quiet
  <2>2. On(Head(calls)) /\ Head(calls)[1] = "processReply"
    BY <2>1 DEF Core, Stack, In
  <2>. QED
    BY <2>2 DEF On, OnReply, Current
<1>. QED
  BY <1>1, AlwaysTypes, AlwaysSound, PTL

\* The next line of a command is sent in the state Idle only.
THEOREM LinesInTurn ==
  ASSUME PlainGreeting, PlainSlots PROVE UserSpec => [](aborts = 0 => StartsIdle)
<1>1. ASSUME Sound, aborts = 0 PROVE StartsIdle
  <2> SUFFICES ASSUME In("startNextCmd") PROVE pi.state = "Idle"
    BY DEF StartsIdle
  <2>1. Core /\ ~Quiet
    BY <1>1 DEF Sound, In, Quiet
  <2>2. On(Head(calls)) /\ Head(calls)[1] = "startNextCmd"
    BY <2>1 DEF Core, Stack, In
  <2>. QED
    BY <2>2 DEF On, Under
<1>2. Sound => (aborts = 0 => StartsIdle)
  BY <1>1
<1>. QED
  BY <1>2, AlwaysSound, PTL

\* state() says Connected or LoggedIn only while there is a connection.
THEOREM TrueState ==
  ASSUME PlainGreeting, PlainSlots PROVE UserSpec => [](aborts = 0 => StateTrue)
<1>1. ASSUME Sound, aborts = 0 PROVE StateTrue
  BY <1>1 DEF Sound, Core, Modes, StateTrue, In, Quiet
<1>2. Sound => (aborts = 0 => StateTrue)
  BY <1>1
<1>. QED
  BY <1>2, AlwaysSound, PTL

Unaborted == aborts = 0

\* QFtp implements CommandQueue for a user that does not abort and adds no
\* command in the slot of a commandFinished with an error: commands are
\* started one at a time and in their order, each is reported started and then
\* finished, once, and those that a failed one takes along are not heard of.
THEOREM PromiseKept ==
  ASSUME PlainGreeting, PlainSlots, MaxAborts = 0 PROVE UserSpec => Promise
<1>1. UserInit => Unaborted /\ Promised!Init
  <2>1. ASSUME UserInit PROVE Ids = <<>> /\ ftp.last = 0 /\ ftp.signals = <<>> /\ aborts = 0
    BY <2>1, EmptySeq DEF UserInit, LibraryInit, FtpInit, Ids
  <2>. QED
    BY <2>1 DEF Promised!Init, Unaborted
<1>2. ASSUME Unaborted, TypeInv, TypeInv', Sound, [UserNext]_userVars
      PROVE  Unaborted' /\ [Promised!Next]_<<Ids, ftp.last, ftp.signals>>
  <2>1. CASE UserNext
    <3>1. ~AskAbort
      BY <1>2 DEF AskAbort, Unaborted
    <3>2. aborts' = 0
      BY <1>2, <2>1, <3>1 DEF UserNext, AskLater, AskInSlot, Ask, Return, Unaborted
    <3>3. Calm /\ Core
      BY <1>2, <2>1, <3>2, Calmly DEF Sound
    <3>. QED
      BY <1>2, <3>2, <3>3, CalmMoves, MovesNext DEF Unaborted
  <2>2. CASE UNCHANGED userVars
    BY <1>2, <2>2 DEF userVars, vars, Ids, Unaborted
  <2>. QED
    BY <1>2, <2>1, <2>2
<1>3. Unaborted /\ TypeInv /\ TypeInv' /\ Sound /\ [UserNext]_userVars =>
        Unaborted' /\ [Promised!Next]_<<Ids, ftp.last, ftp.signals>>
  BY <1>2
<1>4. UserSpec => []TypeInv
  BY AlwaysTypes
<1>5. UserSpec => []Sound
  BY AlwaysSound
<1>6. UserSpec => Promised!Init /\ [][Promised!Next]_<<Ids, ftp.last, ftp.signals>>
  BY <1>1, <1>3, <1>4, <1>5, PTL DEF UserSpec
<1>. QED
  BY <1>6 DEF Promise, Promised!Spec
=============================================================================
