-------------------------- MODULE StuffServerProofs --------------------------
(***************************************************************************)
(* For any number of clients, slots and descriptors, and clients that send *)
(* no line the server does not know: what select() watches is what the     *)
(* client table names, every name is the client's own open file, streamed  *)
(* data reaches no other client, and descriptors are lost in two ways      *)
(* only: an upload whose client went away, a file that was opened and      *)
(* could not be stat()ed.  And how many descriptors the server needs: one  *)
(* for the listening socket, two for each slot and one for a client that   *)
(* is about to be refused are enough for any number of clients, if they    *)
(* send what they announce, the files they name can be opened and those    *)
(* they upload are not empty, and the network resets no connection.        *)
(***************************************************************************)
EXTENDS StuffServer, SequenceTheorems, FiniteSetTheorems, TLAPS

-----------------------------------------------------------------------------
(* The inductive invariant.                                                *)

\* A connection waits to be accepted once, and is then nobody's; the
\* listening socket is in the snapshot only if one waits.
BacklogFresh ==
  /\ \A i \in 1..Len(backlog) : /\ conn[backlog[i]] \notin {"new", "done"}
                               /\ \A s \in Used : Owner(s) # backlog[i]
  /\ \A i, j \in 1..Len(backlog) : backlog[i] = backlog[j] => i = j
  /\ \A s \in Used : conn[Owner(s)] # "new"
  /\ ServerSocket \in ready => backlog # <<>>

\* A client that streams asks for nothing else: no second file takes the
\* place of the first in its slot.
StreamsLast == \A s \in Streaming : in_cmd[s] /\ current_cmd[s] = "stream"

\* On the way to the server every payload follows its line, and a line is
\* without payload only if nothing more comes.
Paired(q) ==
  \A i \in 1..Len(q) :
    /\ (q[i] = "put" /\ i < Len(q)) => q[i + 1] = "payload"
    /\ (q[i] = "payload" /\ i > 1) => q[i - 1] = "put"

Coming(c) == conn[c] \in {"new", "made"}

PayloadsFollow ==
  \A c \in Conns :
    /\ Paired(inbox[c])
    /\ (inbox[c] # <<>> /\ inbox[c][Len(inbox[c])] = "put") => ~Coming(c)
    /\ \A i \in 1..Len(inbox[c]) : inbox[c][i] # "unknown"

\* What a slot waits for is what comes next, if anything does.
Expecting(s) ==
  (in_cmd[s] /\ left[s] = 1) =>
    /\ inbox[Owner(s)] = <<>> => ~Coming(Owner(s))
    /\ inbox[Owner(s)] # <<>> => inbox[Owner(s)][1] = "payload"

\* A payload that comes next is waited for, or its upload has no file: it is
\* never taken for a line that a later one could close a file with.
Expected(s) ==
  (inbox[Owner(s)] # <<>> /\ inbox[Owner(s)][1] = "payload") =>
    current_cmd[s] = "put" /\ ((in_cmd[s] /\ left[s] = 1) \/ upload_file_fd[s] = 0)

PayloadsAwaited ==
  /\ \A s \in Used : left[s] = 1 => in_cmd[s]
  /\ \A s \in Used : Expecting(s) /\ Expected(s)
  /\ \A c \in Conns : (inbox[c] # <<>> /\ inbox[c][1] = "payload") =>
                        \E s \in Used : Owner(s) = c

\* What is said of the tables, which every step keeps if what is said of the
\* payloads holds before it.
Tables ==
  /\ ServerTypeOK
  /\ ActiveSetExact /\ DescriptorsOwned /\ StreamsLast
  /\ BacklogFresh
  /\ Isolation /\ LeaksKnown

IInv == Tables /\ PayloadsFollow /\ PayloadsAwaited

-----------------------------------------------------------------------------
(* Descriptors.                                                            *)

\* What the client table names is an open descriptor, of a kind that says in
\* which field.
LEMMA NamesOpen ==
  ASSUME ServerTypeOK, DescriptorsOwned
  PROVE  /\ fds[ServerSocket].kind = "listen"
         /\ \A s \in Used : /\ socket_fd[s] \in FD /\ socket_fd[s] # ServerSocket
                            /\ fds[socket_fd[s]].kind = "socket"
                            /\ Owner(s) \in Conns
         /\ \A s \in Streaming : /\ s \in Used /\ file_to_stream[s] \in FD
                                 /\ fds[file_to_stream[s]].kind = "device"
                                 /\ fds[file_to_stream[s]].of = Owner(s)
         /\ \A s \in Uploading : /\ s \in Used /\ upload_file_fd[s] \in FD
                                 /\ fds[upload_file_fd[s]].kind = "upload"
                                 /\ fds[upload_file_fd[s]].of = Owner(s)
<1>1. fds[ServerSocket].kind = "listen"
  BY DEF DescriptorsOwned, Listen, File
<1>2. /\ socket_fd \in [Slot -> Numbers] /\ file_to_stream \in [Slot -> Numbers]
      /\ upload_file_fd \in [Slot -> Numbers]
      /\ Numbers = FD \cup {0}
  BY DEF ServerTypeOK, Numbers
<1>3. ASSUME NEW s \in Used
      PROVE  /\ socket_fd[s] \in FD /\ socket_fd[s] # ServerSocket
             /\ fds[socket_fd[s]].kind = "socket" /\ Owner(s) \in Conns
  <2>1. s \in Slot /\ socket_fd[s] # 0
    BY <1>3 DEF Used
  <2>2. Owner(s) \in Conns /\ fds[socket_fd[s]] = File("socket", Owner(s))
    BY <1>3 DEF DescriptorsOwned
  <2>3. fds[socket_fd[s]].kind = "socket"
    BY <2>2 DEF File
  <2>4. QED
    BY <1>1, <1>2, <2>1, <2>2, <2>3
<1>4. ASSUME NEW s \in Streaming
      PROVE  /\ s \in Used /\ file_to_stream[s] \in FD
             /\ fds[file_to_stream[s]].kind = "device" /\ fds[file_to_stream[s]].of = Owner(s)
  <2>1. s \in Slot /\ s \in Used /\ file_to_stream[s] # 0
    BY <1>4 DEF Streaming, Used
  <2>2. fds[file_to_stream[s]] = File("device", Owner(s))
    BY <1>4 DEF DescriptorsOwned
  <2>3. QED
    BY <1>2, <2>1, <2>2 DEF File
<1>5. ASSUME NEW s \in Uploading
      PROVE  /\ s \in Used /\ upload_file_fd[s] \in FD
             /\ fds[upload_file_fd[s]].kind = "upload" /\ fds[upload_file_fd[s]].of = Owner(s)
  <2>1. s \in Slot /\ s \in Used /\ upload_file_fd[s] # 0
    BY <1>5 DEF Uploading, Used
  <2>2. fds[upload_file_fd[s]] = File("upload", Owner(s))
    BY <1>5 DEF DescriptorsOwned
  <2>3. QED
    BY <1>2, <2>1, <2>2 DEF File
<1>6. QED
  BY <1>1, <1>3, <1>4, <1>5

\* A descriptor the kernel may hand out is nobody's, and not in the set.
LEMMA FreeIsNobodys ==
  ASSUME IInv, NEW g \in FD, fds[g] = Free
  PROVE  /\ g # ServerSocket /\ g \notin active_set
         /\ \A s \in Used : g # socket_fd[s]
         /\ \A s \in Streaming : g # file_to_stream[s]
         /\ \A s \in Uploading : g # upload_file_fd[s]
<1>1. fds[g].kind = "free"
  BY DEF Free, File
<1>2. /\ g # ServerSocket
      /\ \A s \in Used : g # socket_fd[s]
      /\ \A s \in Streaming : g # file_to_stream[s]
      /\ \A s \in Uploading : g # upload_file_fd[s]
  BY <1>1, NamesOpen DEF IInv, Tables
<1>3. QED
  BY <1>2 DEF IInv, Tables, ActiveSetExact

\* Two slots never share a descriptor, and no two fields of one slot do.
LEMMA NamesDistinct ==
  ASSUME IInv
  PROVE  /\ \A s, t \in Used : socket_fd[s] = socket_fd[t] => s = t
         /\ \A s, t \in Streaming : file_to_stream[s] = file_to_stream[t] => s = t
         /\ \A s, t \in Uploading : upload_file_fd[s] = upload_file_fd[t] => s = t
         /\ \A s \in Used, t \in Streaming : socket_fd[s] # file_to_stream[t]
         /\ \A s \in Used, t \in Uploading : socket_fd[s] # upload_file_fd[t]
         /\ \A s \in Streaming, t \in Uploading : file_to_stream[s] # upload_file_fd[t]
<1>1. ServerTypeOK /\ DescriptorsOwned
  BY DEF IInv, Tables
<1>2. \A s, t \in Used : socket_fd[s] = socket_fd[t] => s = t
  BY <1>1 DEF DescriptorsOwned, Owner
<1>3. \A s, t \in Streaming : file_to_stream[s] = file_to_stream[t] => s = t
  BY <1>1, NamesOpen DEF DescriptorsOwned
<1>4. \A s, t \in Uploading : upload_file_fd[s] = upload_file_fd[t] => s = t
  BY <1>1, NamesOpen DEF DescriptorsOwned
<1>5. QED
  BY <1>1, <1>2, <1>3, <1>4, NamesOpen

\* Steps that leave the table, the set and the kernel's files alone keep
\* what is said about them.
LEMMA TablesKept ==
  ASSUME IInv, UNCHANGED <<active_set, fds, slotVars>>
  PROVE  /\ ActiveSetExact' /\ DescriptorsOwned' /\ StreamsLast'
         /\ Used' = Used /\ \A s \in Used : Owner(s)' = Owner(s)
<1>1. Used' = Used /\ Streaming' = Streaming /\ Uploading' = Uploading
  BY DEF slotVars, Used, Streaming, Uploading
<1>2. \A s \in Slot : Owner(s)' = Owner(s)
  BY DEF slotVars, Owner
<1>3. ActiveSetExact' /\ StreamsLast'
  BY <1>1 DEF IInv, Tables, slotVars, ActiveSetExact, StreamsLast
<1>4. DescriptorsOwned'
  BY <1>1, <1>2 DEF IInv, Tables, slotVars, DescriptorsOwned, Used, Streaming, Uploading
<1>5. QED
  BY <1>1, <1>2, <1>3, <1>4 DEF Used

\* What may become of connections: none is new again, and those are done
\* whose end the server has read, for good.
ConnsAge ==
  \A c \in Conns :
    /\ conn'[c] = "new" => conn[c] = "new"
    /\ conn[c] = "done" => conn'[c] = "done"
    /\ conn'[c] = "done" => conn[c] = "done" \/ \E s \in Used : c = Owner(s)

\* A descriptor that was accounted for still is, if it is as it was or what
\* becomes of it is known.
LEMMA LeaksStay ==
  ASSUME IInv, ConnsAge,
         \A f \in FD \ active_set' : Accounted(f)' \/ (f \notin active_set /\ fds'[f] = fds[f]),
         \A f \in FD, s \in Uploading : upload_file_fd[s] = f => Accounted(f)'
  PROVE  LeaksKnown'
<1>1. SUFFICES ASSUME NEW f \in FD, f \notin active_set, fds'[f] = fds[f] PROVE Accounted(f)'
  BY DEF LeaksKnown
<1>2. Accounted(f)
  BY <1>1 DEF IInv, Tables, LeaksKnown
<1>3. CASE \E s \in Uploading : upload_file_fd[s] = f
  BY <1>3
<1>4. CASE \E c \in Conns : fds[f] = File("upload", c) /\ conn[c] = "done"
  BY <1>1, <1>4 DEF ConnsAge, Accounted, File
<1>5. QED
  BY <1>1, <1>2, <1>3, <1>4 DEF Accounted

\* Steps that end no upload.
LEMMA LeaksSame ==
  ASSUME IInv, ConnsAge,
         \A f \in FD \ active_set' : f \notin active_set /\ fds'[f] = fds[f],
         \A s \in Uploading : s \in Uploading' /\ upload_file_fd'[s] = upload_file_fd[s]
  PROVE  LeaksKnown'
<1>1. ASSUME NEW f \in FD, NEW s \in Uploading, upload_file_fd[s] = f PROVE Accounted(f)'
  BY <1>1 DEF Accounted
<1>2. QED
  BY <1>1, LeaksStay

\* Steps that leave the table, the set and the kernel's files alone.
LEMMA LeaksKept ==
  ASSUME IInv, ConnsAge, UNCHANGED <<active_set, fds, slotVars>>
  PROVE  LeaksKnown'
<1>1. Uploading' = Uploading /\ UNCHANGED upload_file_fd
  BY DEF slotVars, Used, Uploading
<1>2. QED
  BY <1>1, LeaksSame

\* Adding a request to what is on the way keeps payloads after their lines.
LEMMA PairedConcat ==
  ASSUME NEW S, NEW q \in Seq(S), NEW m \in Seq(S), Paired(q), Paired(m),
         m # <<>>, m[1] # "payload", q # <<>> => q[Len(q)] # "put"
  PROVE  /\ q \o m \in Seq(S) /\ Paired(q \o m) /\ q \o m # <<>>
         /\ (q \o m)[Len(q \o m)] = m[Len(m)]
         /\ q # <<>> => (q \o m)[1] = q[1]
         /\ q = <<>> => (q \o m)[1] = m[1]
<1>1. /\ q \o m \in Seq(S)
      /\ Len(q \o m) = Len(q) + Len(m) /\ Len(q) \in Nat /\ Len(m) \in Nat /\ Len(m) > 0
      /\ \A i \in 1..(Len(q) + Len(m)) : (q \o m)[i] = IF i <= Len(q) THEN q[i] ELSE m[i - Len(q)]
      /\ q # <<>> => Len(q) > 0
      /\ q = <<>> => Len(q) = 0
  BY ConcatProperties, LenProperties, EmptySeq
<1> DEFINE p == q \o m
<1> HIDE DEF p
<1>2. Paired(p)
  <2>1. SUFFICES ASSUME NEW i \in 1..Len(p)
                 PROVE  /\ (p[i] = "put" /\ i < Len(p)) => p[i + 1] = "payload"
                        /\ (p[i] = "payload" /\ i > 1) => p[i - 1] = "put"
    BY DEF Paired
  <2>2. CASE i < Len(q)
    BY <1>1, <2>2 DEF Paired, p
  <2>3. CASE i = Len(q)
    BY <1>1, <2>3 DEF Paired, p
  <2>4. CASE i = Len(q) + 1
    BY <1>1, <2>4 DEF Paired, p
  <2>5. CASE i > Len(q) + 1
    <3>1. /\ p[i] = m[i - Len(q)] /\ p[i - 1] = m[i - Len(q) - 1]
          /\ i < Len(p) => p[i + 1] = m[i - Len(q) + 1]
      BY <1>1, <2>5 DEF p
    <3>2. i - Len(q) \in 1..Len(m) /\ i - Len(q) > 1
      BY <1>1, <2>5 DEF p
    <3>3. i < Len(p) => i - Len(q) < Len(m)
      BY <1>1 DEF p
    <3>4. QED
      BY <3>1, <3>2, <3>3 DEF Paired
  <2>6. QED
    BY <1>1, <2>2, <2>3, <2>4, <2>5 DEF p
<1>3. p # <<>> /\ p[Len(p)] = m[Len(m)] /\ (q # <<>> => p[1] = q[1]) /\ (q = <<>> => p[1] = m[1])
  BY <1>1, EmptySeq DEF p
<1>4. QED
  BY <1>1, <1>2, <1>3 DEF p

\* Reading what comes next keeps payloads after their lines.
LEMMA PairedTail ==
  ASSUME NEW S, NEW q \in Seq(S), Paired(q), q # <<>>
  PROVE  /\ Tail(q) \in Seq(S) /\ Paired(Tail(q)) /\ Head(q) = q[1]
         /\ Tail(q) # <<>> =>
              /\ Tail(q)[1] = "payload" <=> q[1] = "put"
              /\ Tail(q)[Len(Tail(q))] = q[Len(q)]
         /\ Tail(q) = <<>> => q[Len(q)] = q[1]
         /\ \A i \in 1..Len(Tail(q)) : \E j \in 1..Len(q) : Tail(q)[i] = q[j]
<1>1. /\ Tail(q) \in Seq(S) /\ Head(q) = q[1]
      /\ Len(Tail(q)) = Len(q) - 1 /\ Len(q) \in Nat /\ Len(q) > 0
      /\ \A i \in 1..(Len(q) - 1) : Tail(q)[i] = q[i + 1]
      /\ Tail(q) # <<>> => Len(Tail(q)) > 0
      /\ Tail(q) = <<>> => Len(q) = 1
  <2>1. /\ Tail(q) \in Seq(S) /\ Head(q) = q[1]
        /\ Len(Tail(q)) = Len(q) - 1 /\ Len(q) \in Nat /\ Len(q) > 0
        /\ \A i \in 1..(Len(q) - 1) : Tail(q)[i] = q[i + 1]
    BY HeadTailProperties, LenProperties, EmptySeq
  <2>2. Tail(q) # <<>> => Len(Tail(q)) > 0
    BY <2>1, LenProperties, EmptySeq
  <2>3. \A t \in Seq(S) : t = <<>> => Len(t) = 0
    BY EmptySeq
  <2>4. \A n, k \in Nat : (n = k - 1 /\ n = 0) => k = 1
    OBVIOUS
  <2>5. Tail(q) = <<>> => Len(q) = 1
    <3>1. Len(Tail(q)) \in Nat
      BY <2>1, LenProperties
    <3>2. QED
      BY <2>1, <2>3, <2>4, <3>1, Zenon
  <2>6. QED
    BY <2>1, <2>2, <2>5
<1> DEFINE p == Tail(q)
<1> HIDE DEF p
<1>2. Paired(p)
  BY <1>1 DEF Paired, p
<1>3. p # <<>> => (p[1] = "payload" <=> q[1] = "put") /\ p[Len(p)] = q[Len(q)]
  BY <1>1 DEF Paired, p
<1>4. \A i \in 1..Len(p) : \E j \in 1..Len(q) : p[i] = q[j]
  BY <1>1 DEF p
<1>5. QED
  BY <1>1, <1>2, <1>3, <1>4 DEF p

\* Steps that leave the table and what is on the way alone keep what is said
\* about payloads.
LEMMA PayloadsKept ==
  ASSUME IInv, UNCHANGED <<active_set, fds, slotVars, inbox>>,
         \A c \in Conns : Coming(c)' => Coming(c)
  PROVE  PayloadsFollow' /\ PayloadsAwaited'
<1>1. Used' = Used /\ \A s \in Used : Owner(s)' = Owner(s) /\ Owner(s) \in Conns
  BY TablesKept, NamesOpen DEF IInv, Tables
<1>2. PayloadsFollow'
  BY DEF IInv, Tables, PayloadsFollow
<1>3. \A s \in Used : Expecting(s)' /\ Expected(s)'
  BY <1>1 DEF IInv, Tables, PayloadsAwaited, Expecting, Expected, slotVars
<1>4. QED
  BY <1>1, <1>2, <1>3 DEF IInv, Tables, PayloadsAwaited, slotVars

\* Steps for the client of slot s keep what is said about the others.
LEMMA OthersKept ==
  ASSUME IInv, NEW s \in Used,
         Used' = Used, \A t \in Used : Owner(t)' = Owner(t),
         \A t \in Used \ {s} : /\ in_cmd'[t] = in_cmd[t] /\ current_cmd'[t] = current_cmd[t]
                               /\ left'[t] = left[t] /\ upload_file_fd'[t] = upload_file_fd[t],
         \A c \in Conns : c # Owner(s) => inbox'[c] = inbox[c],
         \A c \in Conns : Coming(c)' => Coming(c),
         Paired(inbox'[Owner(s)]),
         (inbox'[Owner(s)] # <<>> /\ inbox'[Owner(s)][Len(inbox'[Owner(s)])] = "put")
            => ~Coming(Owner(s)),
         \A i \in 1..Len(inbox'[Owner(s)]) : inbox'[Owner(s)][i] # "unknown",
         left'[s] = 1 => in_cmd'[s],
         Expecting(s)', Expected(s)'
  PROVE  PayloadsFollow' /\ PayloadsAwaited'
<1>1. \A t \in Used : Owner(t) \in Conns
  BY NamesOpen DEF IInv, Tables
<1>2. PayloadsFollow'
  <2>1. SUFFICES ASSUME NEW c \in Conns
                 PROVE  /\ Paired(inbox'[c])
                        /\ (inbox'[c] # <<>> /\ inbox'[c][Len(inbox'[c])] = "put") => ~Coming(c)'
                        /\ \A i \in 1..Len(inbox'[c]) : inbox'[c][i] # "unknown"
    BY DEF PayloadsFollow
  <2>2. CASE c = Owner(s)
    BY <2>2
  <2>3. CASE c # Owner(s)
    BY <2>3 DEF IInv, Tables, PayloadsFollow
  <2>4. QED
    BY <2>2, <2>3
<1>3. ASSUME NEW t \in Used, t # s PROVE Expecting(t)' /\ Expected(t)'
  <2>1. Owner(t) # Owner(s) /\ Owner(t) \in Conns /\ Owner(t)' = Owner(t)
    BY <1>1, <1>3 DEF IInv, Tables, DescriptorsOwned
  <2>2. /\ inbox'[Owner(t)] = inbox[Owner(t)] /\ Coming(Owner(t))' => Coming(Owner(t))
        /\ Expecting(t) /\ Expected(t)
    BY <2>1 DEF IInv, Tables, PayloadsAwaited
  <2>3. Expecting(t)'
    BY <1>3, <2>1, <2>2 DEF IInv, Tables, PayloadsAwaited, Expecting, Coming
  <2>4. Expected(t)'
    BY <1>3, <2>1, <2>2 DEF IInv, Tables, PayloadsAwaited, Expected
  <2>5. QED
    BY <2>3, <2>4
<1>4. \A t \in Used : left'[t] = 1 => in_cmd'[t]
  BY DEF IInv, Tables, PayloadsAwaited
<1>5. ASSUME NEW c \in Conns, inbox'[c] # <<>>, inbox'[c][1] = "payload"
      PROVE  \E t \in Used : Owner(t)' = c
  BY <1>5 DEF IInv, Tables, PayloadsAwaited
<1>6. QED
  BY <1>2, <1>3, <1>4, <1>5 DEF PayloadsAwaited

-----------------------------------------------------------------------------
(* The initial state.                                                      *)

\* The empty table satisfies the invariant.
LEMMA InitInv == Init => IInv
<1> SUFFICES ASSUME Init PROVE IInv
  OBVIOUS
<1>1. ServerTypeOK
  <2>1. Listen \in Files /\ Free \in Files
    BY DEF Listen, Free, File, Files
  <2>2. ServerSocket \in FD
    BY FDAssumption DEF ServerSocket, FD
  <2>3. scanning \in BOOLEAN /\ calling \in BOOLEAN /\ in_cmd \in [Slot -> BOOLEAN]
    BY DEF Init
  <2>4. <<>> \in Seq(Conns) /\ <<>> \in Seq({"command", "get", "stream", "put", "empty", "unknown", "payload"})
    BY EmptySeq
  <2>5. QED
    BY <2>1, <2>2, <2>3, <2>4 DEF Init, ServerTypeOK, Numbers
<1>2. Used = {} /\ Streaming = {} /\ Uploading = {}
  BY DEF Init, Used, Streaming, Uploading
<1>3. fds[ServerSocket] = Listen
  BY FDAssumption DEF Init, FD, ServerSocket
<1>4. ActiveSetExact /\ DescriptorsOwned /\ StreamsLast
  BY <1>2, <1>3 DEF Init, ActiveSetExact, DescriptorsOwned, StreamsLast
<1>5. BacklogFresh
  BY <1>2, EmptySeq DEF Init, BacklogFresh
<1>6. Isolation /\ LeaksKnown
  BY DEF Init, Isolation, LeaksKnown, Accounted
<1>7. PayloadsFollow /\ PayloadsAwaited
  <2>1. \A c \in Conns : inbox[c] = <<>> /\ Len(inbox[c]) = 0
    BY EmptySeq DEF Init
  <2>2. QED
    BY <1>2, <2>1 DEF PayloadsFollow, PayloadsAwaited, Paired
<1>8. QED
  BY <1>1, <1>4, <1>5, <1>6, <1>7 DEF IInv, Tables

-----------------------------------------------------------------------------
(* Clients, the network and the devices.                                   *)

\* A connection that was never made joins the backlog, where it was not.
LEMMA ConnectStep ==
  ASSUME IInv, NEW c \in Conns, Connect(c)
  PROVE  IInv'
<1>1. UNCHANGED <<active_set, fds, slotVars, loopVars, status, got, unread, inbox, sent, full>>
  BY DEF Connect, ServerUnchanged
<1>2. ServerTypeOK
  BY DEF IInv, Tables
<1>3. /\ backlog' \in Seq(Conns)
      /\ Len(backlog') = Len(backlog) + 1 /\ Len(backlog) \in Nat
      /\ \A i \in 1..Len(backlog) : backlog'[i] = backlog[i]
      /\ backlog'[Len(backlog) + 1] = c
      /\ \A i \in 1..Len(backlog) : backlog[i] \in Conns
      /\ backlog' # <<>>
  <2>1. backlog' = Append(backlog, c) /\ backlog \in Seq(Conns)
    BY <1>2 DEF Connect, ServerTypeOK
  <2>2. QED
    BY <2>1, AppendProperties, LenProperties
<1>4. conn' = [conn EXCEPT ![c] = "made"] /\ conn[c] = "new"
  BY DEF Connect
<1>5. ServerTypeOK'
  BY <1>1, <1>2, <1>3, <1>4, SMTT(60) DEF ServerTypeOK, slotVars, loopVars
<1>6. BacklogFresh'
  <2>1. \A i \in 1..Len(backlog) : backlog[i] # c
    BY <1>4 DEF IInv, Tables, BacklogFresh
  <2>2. \A i, j \in 1..Len(backlog') : backlog'[i] = backlog'[j] => i = j
    BY <1>3, <2>1 DEF IInv, Tables, BacklogFresh
  <2>3. Used' = Used /\ \A s \in Used : Owner(s)' = Owner(s) /\ Owner(s) \in Conns
    BY <1>1, <1>2, TablesKept, NamesOpen DEF IInv, Tables
  <2>4. \A s \in Used : Owner(s) # c /\ conn'[Owner(s)] # "new"
    BY <1>2, <1>4, <2>3 DEF IInv, Tables, BacklogFresh, ServerTypeOK
  <2>5. \A i \in 1..Len(backlog) :
           conn'[backlog[i]] \notin {"new", "done"} /\ \A s \in Used : Owner(s) # backlog[i]
    BY <1>2, <1>3, <1>4 DEF IInv, Tables, BacklogFresh, ServerTypeOK
  <2>6. conn'[c] \notin {"new", "done"}
    BY <1>2, <1>4 DEF ServerTypeOK
  <2>7. \A i \in 1..Len(backlog') :
           conn'[backlog'[i]] \notin {"new", "done"} /\ \A s \in Used' : Owner(s)' # backlog'[i]
    BY <1>3, <2>3, <2>4, <2>5, <2>6
  <2>8. QED
    BY <1>3, <2>2, <2>3, <2>4, <2>7 DEF BacklogFresh
<1>7. Isolation'
  BY <1>1 DEF IInv, Tables, Isolation
<1>8. PayloadsFollow' /\ PayloadsAwaited'
  <2>1. \A d \in Conns : Coming(d)' => Coming(d)
    BY <1>2, <1>4 DEF ServerTypeOK, Coming
  <2>2. QED
    BY <1>1, <2>1, PayloadsKept
<1>9. LeaksKnown'
  <2>1. ConnsAge
    BY <1>2, <1>4 DEF ServerTypeOK, ConnsAge
  <2>2. QED
    BY <1>1, <2>1, LeaksKept
<1>10. QED
  BY <1>1, <1>5, <1>6, <1>7, <1>8, <1>9, TablesKept DEF IInv, Tables

\* Steps that accept nobody keep what is said about the backlog.
LEMMA BacklogKept ==
  ASSUME IInv, UNCHANGED backlog,
         Used' \subseteq Used, \A s \in Used' : Owner(s)' = Owner(s),
         ServerSocket \in ready' => backlog # <<>>,
         ConnsAge
  PROVE  BacklogFresh'
<1>1. \A s \in Used : Owner(s) \in Conns
  BY NamesOpen DEF IInv, Tables
<1>2. \A i \in 1..Len(backlog) : backlog[i] \in Conns
  BY LenProperties DEF IInv, Tables, ServerTypeOK
<1>3. ASSUME NEW k \in 1..Len(backlog)
      PROVE  conn'[backlog[k]] \notin {"new", "done"} /\ \A s \in Used' : Owner(s)' # backlog[k]
  BY <1>2 DEF IInv, Tables, BacklogFresh, ConnsAge
<1>4. \A s \in Used' : conn'[Owner(s)'] # "new"
  BY <1>1 DEF IInv, Tables, BacklogFresh, ConnsAge
<1>5. QED
  BY <1>3, <1>4 DEF IInv, Tables, BacklogFresh

\* What a client's step leaves as it was.
LEMMA ClientsStep ==
  ASSUME IInv, ServerUnchanged, UNCHANGED backlog,
         inbox' \in [Conns -> Seq({"command", "get", "stream", "put", "empty", "unknown", "payload"})],
         unread' \in [FD -> Nat], sent' \in Nat, full' \subseteq full,
         conn' \in [Conns -> {"new", "made", "closed", "bounced", "reset", "refused", "done"}],
         ConnsAge,
         PayloadsFollow' /\ PayloadsAwaited'
  PROVE  IInv'
<1>1. UNCHANGED <<active_set, fds, slotVars, loopVars, status, got>>
  BY DEF ServerUnchanged
<1>2. ServerTypeOK'
  BY <1>1, SMTT(60) DEF IInv, Tables, ServerTypeOK, slotVars, loopVars
<1>3. BacklogFresh'
  BY <1>1, BacklogKept, TablesKept DEF loopVars, IInv, Tables, BacklogFresh
<1>4. QED
  BY <1>1, <1>2, <1>3, TablesKept, LeaksKept DEF IInv, Tables, Isolation

\* What a client sends goes behind what it sent before.
LEMMA SentFollows ==
  ASSUME IInv, ServerUnchanged, NEW c \in Conns, conn[c] = "made",
         NEW m \in Seq({"command", "get", "stream", "put", "empty", "unknown", "payload"}),
         m # <<>>, Paired(m), m[1] # "payload", \A i \in 1..Len(m) : m[i] # "unknown",
         inbox' = [inbox EXCEPT ![c] = @ \o m],
         \A d \in Conns : Coming(d)' => Coming(d),
         m[Len(m)] = "put" => ~Coming(c)'
  PROVE  /\ inbox' \in [Conns -> Seq({"command", "get", "stream", "put", "empty", "unknown", "payload"})]
         /\ PayloadsFollow' /\ PayloadsAwaited'
<1> DEFINE Kinds == {"command", "get", "stream", "put", "empty", "unknown", "payload"}
           q == inbox[c]
           p == q \o m
<1>1. /\ UNCHANGED <<active_set, fds, slotVars>> /\ ServerTypeOK
      /\ inbox \in [Conns -> Seq(Kinds)]
  BY DEF ServerUnchanged, IInv, Tables, ServerTypeOK
<1>2. q \in Seq(Kinds) /\ Paired(q) /\ (q # <<>> => q[Len(q)] # "put")
  BY <1>1 DEF IInv, Tables, PayloadsFollow, Coming
<1>3. /\ p \in Seq(Kinds) /\ Paired(p) /\ p # <<>> /\ p[Len(p)] = m[Len(m)]
      /\ q # <<>> => p[1] = q[1]
      /\ q = <<>> => p[1] = m[1]
  BY <1>2, PairedConcat
<1>4. /\ inbox'[c] = p /\ \A d \in Conns : d # c => inbox'[d] = inbox[d]
      /\ inbox' \in [Conns -> Seq(Kinds)]
  BY <1>1, <1>3
<1>5. \A i \in 1..Len(p) : p[i] # "unknown"
  <2>1. \A i \in 1..Len(q) : q[i] # "unknown"
    BY DEF IInv, Tables, PayloadsFollow
  <2>2. /\ Len(p) = Len(q) + Len(m) /\ Len(q) \in Nat /\ Len(m) \in Nat
        /\ \A i \in 1..(Len(q) + Len(m)) : p[i] = IF i <= Len(q) THEN q[i] ELSE m[i - Len(q)]
    BY <1>2, ConcatProperties, LenProperties
  <2>3. QED
    BY <2>1, <2>2
<1> HIDE DEF p, Kinds
<1>6. PayloadsFollow'
  <2>1. SUFFICES ASSUME NEW d \in Conns
                 PROVE  /\ Paired(inbox'[d])
                        /\ (inbox'[d] # <<>> /\ inbox'[d][Len(inbox'[d])] = "put") => ~Coming(d)'
                        /\ \A i \in 1..Len(inbox'[d]) : inbox'[d][i] # "unknown"
    BY DEF PayloadsFollow
  <2>2. CASE d = c
    BY <1>3, <1>4, <1>5, <2>2
  <2>3. CASE d # c
    BY <1>4, <2>3 DEF IInv, Tables, PayloadsFollow
  <2>4. QED
    BY <2>2, <2>3
<1>7. Used' = Used /\ \A s \in Used : Owner(s)' = Owner(s) /\ Owner(s) \in Conns
  BY <1>1, TablesKept, NamesOpen DEF IInv, Tables
<1>8. ASSUME NEW s \in Used PROVE Expecting(s)' /\ Expected(s)' /\ (left'[s] = 1 => in_cmd'[s])
  <2>1. /\ Expecting(s) /\ Expected(s)
        /\ UNCHANGED <<in_cmd, left, current_cmd, upload_file_fd>>
        /\ left'[s] = 1 => in_cmd'[s]
    BY <1>1 DEF IInv, Tables, PayloadsAwaited, slotVars
  <2>2. CASE Owner(s) = c
    <3>1. (in_cmd[s] /\ left[s] = 1) => q # <<>> /\ q[1] = "payload"
      BY <2>1, <2>2 DEF Expecting, Coming
    <3>2. (p[1] = "payload") => (q # <<>> /\ q[1] = "payload")
      BY <1>3
    <3>3. Expecting(s)'
      BY <1>3, <1>4, <1>7, <2>1, <2>2, <3>1 DEF Expecting
    <3>4. Expected(s)'
      BY <1>4, <1>7, <2>1, <2>2, <3>2 DEF Expected
    <3>5. QED
      BY <2>1, <3>3, <3>4
  <2>3. CASE Owner(s) # c
    <3>1. Expecting(s)'
      BY <1>4, <1>7, <2>1, <2>3 DEF Expecting, Coming
    <3>2. Expected(s)'
      BY <1>4, <1>7, <2>1, <2>3 DEF Expected
    <3>3. QED
      BY <2>1, <3>1, <3>2
  <2>4. QED
    BY <2>2, <2>3
<1>9. ASSUME NEW d \in Conns, inbox'[d] # <<>>, inbox'[d][1] = "payload"
      PROVE  \E s \in Used : Owner(s) = d
  BY <1>3, <1>4, <1>9 DEF IInv, Tables, PayloadsAwaited
<1>10. PayloadsAwaited'
  BY <1>7, <1>8, <1>9 DEF PayloadsAwaited
<1>11. QED
  BY <1>4, <1>6, <1>10 DEF Kinds

\* Clients, the network and the devices change nothing of the server's.
LEMMA EnvironmentStep == "unknown" \notin Requests /\ IInv /\ Environment => IInv'
<1> SUFFICES ASSUME "unknown" \notin Requests, IInv, Environment PROVE IInv'
  OBVIOUS
<1> DEFINE Kinds == {"command", "get", "stream", "put", "empty", "unknown", "payload"}
           States == {"new", "made", "closed", "bounced", "reset", "refused", "done"}
<1>0. /\ ServerTypeOK /\ \A c \in Conns : inbox[c] \in Seq(Kinds)
      /\ inbox \in [Conns -> Seq(Kinds)] /\ unread \in [FD -> Nat] /\ sent \in Nat
      /\ conn \in [Conns -> States] /\ full \in SUBSET Conns
  BY DEF IInv, Tables, ServerTypeOK
<1>00. UNCHANGED conn => ConnsAge
  BY DEF ConnsAge
<1>1. ASSUME NEW c \in Conns, NEW r \in Requests, Send(c, r) PROVE IInv'
  <2> DEFINE m == IF r = "put" THEN <<"put", "payload">> ELSE <<r>>
  <2>1. r \in {"command", "get", "stream", "put", "empty"}
    BY ServerRequests
  <2>2. /\ m \in Seq(Kinds) /\ m # <<>> /\ m[1] # "payload" /\ m[Len(m)] # "put"
        /\ \A i \in 1..Len(m) : m[i] # "unknown"
    <3>1. CASE r = "put"
      BY <3>1
    <3>2. CASE r # "put"
      BY <2>1, <3>2
    <3>3. QED
      BY <3>1, <3>2
  <2>3. Paired(m)
    BY <2>1 DEF Paired
  <2>4. /\ conn[c] = "made" /\ inbox' = [inbox EXCEPT ![c] = @ \o m] /\ ServerUnchanged
        /\ UNCHANGED <<unread, backlog, conn, full>> /\ sent' = sent + 1
    BY <1>1 DEF Send
  <2>5. inbox' \in [Conns -> Seq(Kinds)] /\ PayloadsFollow' /\ PayloadsAwaited'
    <3> HIDE DEF m
    <3>1. \A d \in Conns : Coming(d)' => Coming(d)
      BY <2>4 DEF Coming
    <3>2. QED
      BY <2>2, <2>3, <2>4, <3>1, SentFollows
  <2>6. QED
    BY <1>0, <1>00, <2>4, <2>5, ClientsStep
<1>2. ASSUME NEW c \in Conns, SendCut(c) PROVE IInv'
  <2>1. /\ conn[c] = "made" /\ inbox' = [inbox EXCEPT ![c] = @ \o <<"put">>] /\ ServerUnchanged
        /\ UNCHANGED <<unread, backlog>> /\ sent' = sent + 1
        /\ conn' = [conn EXCEPT ![c] = "closed"] /\ full' \subseteq full
    BY <1>2 DEF SendCut
  <2>2. /\ <<"put">> \in Seq(Kinds) /\ <<"put">> # <<>> /\ <<"put">>[1] # "payload"
        /\ Paired(<<"put">>) /\ \A i \in 1..Len(<<"put">>) : <<"put">>[i] # "unknown"
    BY DEF Paired
  <2>3. /\ conn' \in [Conns -> States] /\ conn'[c] = "closed"
        /\ \A d \in Conns : d # c => conn'[d] = conn[d]
    BY <1>0, <2>1
  <2>4. ~Coming(c)' /\ \A d \in Conns : Coming(d)' => Coming(d)
    BY <2>3 DEF Coming
  <2>5. inbox' \in [Conns -> Seq(Kinds)] /\ PayloadsFollow' /\ PayloadsAwaited'
    BY <2>1, <2>2, <2>4, SentFollows
  <2>6. ConnsAge
    BY <2>1, <2>3 DEF ConnsAge
  <2>7. QED
    BY <1>0, <2>1, <2>3, <2>5, <2>6, ClientsStep
<1>3. ASSUME NEW c \in Conns, Close(c) PROVE IInv'
  <2>1. /\ ServerUnchanged /\ UNCHANGED <<unread, backlog, inbox, sent>>
        /\ conn' = [conn EXCEPT ![c] = "closed"] /\ conn[c] = "made" /\ full' \subseteq full
    BY <1>3 DEF Close
  <2>2. \A d \in Conns : Coming(d)' => Coming(d)
    BY <1>0, <2>1 DEF Coming
  <2>3. PayloadsFollow' /\ PayloadsAwaited'
    BY <2>1, <2>2, PayloadsKept DEF ServerUnchanged
  <2>4. ConnsAge
    BY <1>0, <2>1 DEF ConnsAge
  <2>5. QED
    BY <1>0, <2>1, <2>3, <2>4, ClientsStep
<1>4. ASSUME NEW c \in Conns, Reset(c) PROVE IInv'
  <2>1. /\ ServerUnchanged /\ UNCHANGED <<unread, backlog, sent>>
        /\ conn' = [conn EXCEPT ![c] = "reset"] /\ conn[c] \in {"made", "bounced"}
        /\ full' \subseteq full
    BY <1>4 DEF Reset
  <2>2. PICK rest \in {<<>>, inbox[c]} : inbox' = [inbox EXCEPT ![c] = rest]
    BY <1>4 DEF Reset
  <2>3. /\ rest \in Seq(Kinds) /\ Paired(rest) /\ \A i \in 1..Len(rest) : rest[i] # "unknown"
    <3>1. CASE rest = <<>>
      BY <3>1, EmptySeq DEF Paired
    <3>2. CASE rest = inbox[c]
      BY <1>0, <3>2 DEF IInv, Tables, PayloadsFollow
    <3>3. QED
      BY <3>1, <3>2
  <2>4. /\ inbox' \in [Conns -> Seq(Kinds)] /\ inbox'[c] = rest
        /\ \A d \in Conns : d # c => inbox'[d] = inbox[d]
    BY <1>0, <2>2, <2>3
  <2>5. ~Coming(c)' /\ \A d \in Conns : Coming(d)' => Coming(d)
    BY <1>0, <2>1 DEF Coming
  <2>6. PayloadsFollow'
    <3>1. SUFFICES ASSUME NEW d \in Conns
                   PROVE  /\ Paired(inbox'[d])
                          /\ (inbox'[d] # <<>> /\ inbox'[d][Len(inbox'[d])] = "put") => ~Coming(d)'
                          /\ \A i \in 1..Len(inbox'[d]) : inbox'[d][i] # "unknown"
      BY DEF PayloadsFollow
    <3>2. CASE d = c
      BY <2>3, <2>4, <2>5, <3>2
    <3>3. CASE d # c
      BY <2>4, <2>5, <3>3 DEF IInv, Tables, PayloadsFollow
    <3>4. QED
      BY <3>2, <3>3
  <2>7. PayloadsAwaited'
    <3>1. UNCHANGED <<active_set, fds, slotVars>>
      BY <2>1 DEF ServerUnchanged
    <3>2. Used' = Used /\ \A s \in Used : Owner(s)' = Owner(s) /\ Owner(s) \in Conns
      BY <3>1, TablesKept, NamesOpen DEF IInv, Tables
    <3>3. ASSUME NEW s \in Used PROVE Expecting(s)' /\ Expected(s)'
      <4>1. Expecting(s) /\ Expected(s)
        BY DEF IInv, Tables, PayloadsAwaited
      <4>2. CASE Owner(s) = c
        BY <2>2, <2>4, <2>5, <3>1, <3>2, <4>1, <4>2 DEF Expecting, Expected, slotVars
      <4>3. CASE Owner(s) # c
        BY <2>4, <2>5, <3>1, <3>2, <4>1, <4>3 DEF Expecting, Expected, slotVars
      <4>4. QED
        BY <4>2, <4>3
    <3>4. ASSUME NEW d \in Conns, inbox'[d] # <<>>, inbox'[d][1] = "payload"
          PROVE  \E s \in Used : Owner(s) = d
      BY <2>4, <3>4 DEF IInv, Tables, PayloadsAwaited
    <3>5. \A s \in Used : left'[s] = 1 => in_cmd'[s]
      BY <3>1 DEF IInv, Tables, PayloadsAwaited, slotVars
    <3>6. QED
      BY <3>2, <3>3, <3>4, <3>5 DEF PayloadsAwaited
  <2>8. ConnsAge
    BY <1>0, <2>1 DEF ConnsAge
  <2>9. QED
    BY <1>0, <2>1, <2>4, <2>6, <2>7, <2>8, ClientsStep
<1>5. ASSUME NEW f \in FD, DeviceEvent(f) PROVE IInv'
  <2>1. /\ ServerUnchanged /\ UNCHANGED <<backlog, conn, inbox, sent, full>>
        /\ unread' \in [FD -> Nat]
    BY <1>0, <1>5 DEF DeviceEvent, netVars
  <2>2. PayloadsFollow' /\ PayloadsAwaited'
    BY <2>1, PayloadsKept DEF ServerUnchanged, Coming
  <2>3. QED
    BY <1>0, <1>00, <2>1, <2>2, ClientsStep
<1>6. ASSUME NEW c \in Conns, Take(c) PROVE IInv'
  <2>1. ServerUnchanged /\ UNCHANGED <<unread, backlog, conn, inbox, sent>> /\ full' \subseteq full
    BY <1>6 DEF Take
  <2>2. PayloadsFollow' /\ PayloadsAwaited'
    BY <2>1, PayloadsKept DEF ServerUnchanged, Coming
  <2>3. QED
    BY <1>0, <1>00, <2>1, <2>2, ClientsStep
<1>7. QED
  BY <1>1, <1>2, <1>3, <1>4, <1>5, <1>6, ConnectStep DEF Environment

-----------------------------------------------------------------------------
(* The server's loop.                                                      *)

\* What a pass has handled leaves the snapshot.
LEMMA HandledType ==
  ASSUME IInv, NEW f, Handled(f)
  PROVE  /\ ready' \in SUBSET FD /\ ready' \subseteq ready \ {f}
         /\ scanning' \in BOOLEAN /\ calling' \in BOOLEAN
         /\ ServerSocket \in ready' => backlog # <<>>
<1>1. ready' = ready \ {f} /\ ready \in SUBSET FD
  BY DEF IInv, Tables, ServerTypeOK, Handled
<1>2. scanning' \in BOOLEAN /\ calling' \in BOOLEAN
  BY DEF Handled
<1>3. QED
  BY <1>1, <1>2 DEF IInv, Tables, BacklogFresh

\* The loop stays where it is, whether or not a call begins.
LEMMA StaysType ==
  ASSUME IInv, UNCHANGED <<scanning, ready>>, calling' \in BOOLEAN
  PROVE  /\ ready' \in SUBSET FD /\ scanning' \in BOOLEAN /\ calling' \in BOOLEAN
         /\ ServerSocket \in ready' => backlog # <<>>
BY DEF IInv, Tables, ServerTypeOK, BacklogFresh

\* Answering a client makes no connection new, whatever becomes of the server.
LEMMA WriteType ==
  ASSUME IInv, NEW c \in Conns, Write(c)
  PROVE  /\ status' \in {"up", "exited", "crashed", "killed", "hung"}
         /\ conn' \in [Conns -> {"new", "made", "closed", "bounced", "reset", "refused", "done"}]
         /\ full' \in SUBSET Conns
         /\ ConnsAge
         /\ \A d \in Conns : Coming(d)' => Coming(d)
<1>1. /\ conn \in [Conns -> {"new", "made", "closed", "bounced", "reset", "refused", "done"}]
      /\ full \in SUBSET Conns /\ status \in {"up", "exited", "crashed", "killed", "hung"}
  BY DEF IInv, Tables, ServerTypeOK
<1>2. /\ full' \in {full, full \cup {c}} /\ status' \in {status, "killed"}
      /\ conn' = [conn EXCEPT ![c] = IF @ = "closed" THEN "bounced" ELSE @]
  BY DEF Write
<1>3. QED
  BY <1>1, <1>2 DEF Coming, ConnsAge

\* The snapshot holds open descriptors, the listening one if a client waits.
LEMMA SelectStep == IInv /\ Select => IInv'
<1> SUFFICES ASSUME IInv, Select PROVE IInv'
  OBVIOUS
<1>1. UNCHANGED <<calling, active_set, fds, unread, slotVars, backlog, conn, inbox, sent, full, got>>
  BY DEF Select, kernelVars, netVars
<1>2. ServerTypeOK
  BY DEF IInv, Tables
<1>3. ready' \in SUBSET FD /\ \A f \in ready' : Readable(f)
  BY <1>2 DEF Select, ServerTypeOK
<1>4. status' \in {"up", "exited", "crashed", "killed", "hung"}
  BY <1>2 DEF Select, ServerTypeOK
<1>5. scanning' \in BOOLEAN
  BY DEF Select
<1>6. ServerTypeOK'
  BY <1>1, <1>2, <1>3, <1>4, <1>5, SMTT(60) DEF ServerTypeOK, slotVars
<1>7. ServerSocket \in ready' => backlog # <<>>
  <2>1. fds[ServerSocket].kind = "listen"
    BY <1>2, NamesOpen DEF IInv, Tables
  <2>2. Readable(ServerSocket) => backlog # <<>>
    BY <2>1, Zenon DEF Readable
  <2>3. QED
    BY <1>3, <2>2
<1>8. BacklogFresh' /\ LeaksKnown'
  <2>1. ConnsAge
    BY <1>1 DEF ConnsAge
  <2>2. QED
    BY <1>1, <1>7, <2>1, BacklogKept, TablesKept, LeaksKept
<1>9. PayloadsFollow' /\ PayloadsAwaited'
  BY <1>1, PayloadsKept DEF Coming
<1>10. QED
  BY <1>1, <1>6, <1>8, <1>9, TablesKept DEF IInv, Tables, Isolation

\* Steps that leave the tables and what clients sent alone.
LEMMA LoopStep ==
  ASSUME IInv, UNCHANGED <<active_set, fds, slotVars, backlog, inbox, sent>>,
         unread' \in [FD -> Nat], full' \in SUBSET Conns,
         status' \in {"up", "exited", "crashed", "killed", "hung"},
         conn' \in [Conns -> {"new", "made", "closed", "bounced", "reset", "refused", "done"}],
         ConnsAge, \A d \in Conns : Coming(d)' => Coming(d),
         ready' \in SUBSET FD, scanning' \in BOOLEAN, calling' \in BOOLEAN,
         ServerSocket \in ready' => backlog # <<>>,
         got' \in [Conns -> SUBSET Conns], Isolation'
  PROVE  IInv'
<1>1. ServerTypeOK'
  BY SMTT(60) DEF IInv, Tables, ServerTypeOK, slotVars
<1>2. BacklogFresh' /\ LeaksKnown'
  BY BacklogKept, TablesKept, LeaksKept
<1>3. PayloadsFollow' /\ PayloadsAwaited'
  BY PayloadsKept
<1>4. QED
  BY <1>1, <1>2, <1>3, TablesKept DEF IInv, Tables

\* A streamed file's data goes to the client whose slot names it, which is
\* the one that asked for the file.
LEMMA StreamDataStep ==
  ASSUME IInv, NEW f \in FD, StreamData(f)
  PROVE  IInv'
<1>1. /\ UNCHANGED <<scanning, ready, calling, active_set, fds, slotVars, backlog, inbox, sent>>
      /\ unread' = [unread EXCEPT ![f] = @ - 1] /\ unread[f] > 0
  BY DEF StreamData, loopVars
<1>2. PICK s \in Slot :
        LET c == fds[socket_fd[s]].of IN
        /\ IsStreaming(s, f)
        /\ Write(c)
        /\ got' = [got EXCEPT ![c] = @ \cup {fds[f].of}]
  BY DEF StreamData
<1>3. s \in Streaming /\ file_to_stream[s] = f
  BY <1>2 DEF IsStreaming, Streaming, Used, FD, ServerSocket
<1>4. Owner(s) \in Conns /\ fds[f].of = Owner(s)
  BY <1>3, NamesOpen DEF IInv, Tables
<1>5. Write(Owner(s)) /\ got' = [got EXCEPT ![Owner(s)] = @ \cup {Owner(s)}]
  BY <1>2, <1>4 DEF Owner
<1>6. /\ unread' \in [FD -> Nat]
      /\ got' \in [Conns -> SUBSET Conns]
      /\ Isolation'
  <2>1. unread \in [FD -> Nat] /\ got \in [Conns -> SUBSET Conns] /\ Isolation
    BY DEF IInv, Tables, ServerTypeOK
  <2>2. unread' \in [FD -> Nat]
    BY <1>1, <2>1
  <2>3. got[Owner(s)] \cup {Owner(s)} \in SUBSET Conns
    BY <1>4, <2>1
  <2>4. got' \in [Conns -> SUBSET Conns]
    BY <1>5, <2>1, <2>3
  <2>5. ASSUME NEW d \in Conns PROVE got'[d] \subseteq {d}
    BY <1>4, <1>5, <2>1 DEF Isolation
  <2>6. QED
    BY <2>2, <2>4, <2>5 DEF Isolation
<1>7. /\ ready' \in SUBSET FD /\ scanning' \in BOOLEAN /\ calling' \in BOOLEAN
      /\ ServerSocket \in ready' => backlog # <<>>
  BY <1>1, StaysType DEF IInv, Tables, ServerTypeOK
<1>8. QED
  BY <1>1, <1>4, <1>5, <1>6, <1>7, WriteType, LoopStep

\* What a step leaves when nothing is written.
LEMMA QuietType ==
  ASSUME IInv, UNCHANGED <<unread, conn, full, got>>
  PROVE  /\ unread' \in [FD -> Nat] /\ full' \in SUBSET Conns
         /\ conn' \in [Conns -> {"new", "made", "closed", "bounced", "reset", "refused", "done"}]
         /\ ConnsAge /\ \A d \in Conns : Coming(d)' => Coming(d)
         /\ got' \in [Conns -> SUBSET Conns] /\ Isolation'
BY DEF IInv, Tables, ServerTypeOK, Isolation, Coming, ConnsAge

\* The end of the loop changes nothing but the place of the for loop.
LEMMA StreamEndsStep ==
  ASSUME IInv, NEW f \in FD, StreamEnds(f)
  PROVE  IInv'
<1>1. /\ UNCHANGED <<status, active_set, fds, unread, slotVars, backlog, conn, inbox, sent, full, got>>
      /\ Handled(f)
  BY DEF StreamEnds, kernelVars, netVars
<1>2. status' \in {"up", "exited", "crashed", "killed", "hung"}
  BY <1>1 DEF IInv, Tables, ServerTypeOK
<1>3. QED
  BY <1>1, <1>2, HandledType, QuietType, LoopStep

\* The steps that end the service change nothing else.
LEMMA EndStep ==
  ASSUME IInv, status' \in {"crashed", "hung"},
         UNCHANGED <<loopVars, active_set, kernelVars, slotVars, netVars, got>>
  PROVE  IInv'
<1>1. UNCHANGED <<scanning, ready, calling, active_set, fds, unread, slotVars, backlog, conn,
                  inbox, sent, full, got>>
  BY DEF loopVars, kernelVars, netVars
<1>2. calling' \in BOOLEAN
  BY <1>1 DEF IInv, Tables, ServerTypeOK
<1>3. QED
  BY <1>1, <1>2, StaysType, QuietType, LoopStep

\* A new client gets a free slot and a descriptor that nobody names, a
\* refused one leaves everything as it was.
LEMMA AcceptStep == IInv /\ Accept => IInv'
<1> SUFFICES ASSUME IInv, Accept PROVE IInv'
  OBVIOUS
<1>1. /\ ServerTypeOK /\ Handled(ServerSocket) /\ UNCHANGED <<unread, inbox, sent, full, got>>
      /\ ServerSocket \in ready
  BY DEF IInv, Tables, Accept, Reached
<1>2. /\ ready' \in SUBSET FD /\ scanning' \in BOOLEAN /\ calling' \in BOOLEAN
      /\ ServerSocket \notin ready'
  BY <1>1, HandledType
<1>3. backlog # <<>>
  BY <1>1 DEF IInv, Tables, BacklogFresh
<1> DEFINE c == Head(backlog)
<1>4. /\ c \in Conns /\ c = backlog[1] /\ 1 \in 1..Len(backlog)
      /\ Tail(backlog) \in Seq(Conns)
      /\ Len(Tail(backlog)) = Len(backlog) - 1 /\ Len(backlog) \in Nat
      /\ \A i \in 1..Len(Tail(backlog)) : Tail(backlog)[i] = backlog[i + 1]
      /\ \A i \in 1..Len(backlog) : backlog[i] \in Conns
  BY <1>1, <1>3, HeadTailProperties, LenProperties DEF ServerTypeOK
<1>5. /\ conn[c] \notin {"new", "done"} /\ \A s \in Used : Owner(s) # c
      /\ \A i \in 1..Len(Tail(backlog)) : Tail(backlog)[i] # c
      /\ \A i \in 1..Len(Tail(backlog)) :
           conn[Tail(backlog)[i]] \notin {"new", "done"} /\ \A s \in Used : Owner(s) # Tail(backlog)[i]
      /\ \A i, j \in 1..Len(Tail(backlog)) : Tail(backlog)[i] = Tail(backlog)[j] => i = j
  BY <1>4 DEF IInv, Tables, BacklogFresh
<1>6. CASE NoneFree /\ status' = "exited" /\ UNCHANGED <<active_set, fds, slotVars, backlog, conn>>
  <2>1. ServerTypeOK'
    BY <1>1, <1>2, <1>6, SMTT(60) DEF ServerTypeOK, slotVars
  <2>2. BacklogFresh' /\ LeaksKnown'
    <3>1. ConnsAge
      BY <1>6 DEF ConnsAge
    <3>2. QED
      BY <1>2, <1>6, <3>1, BacklogKept, TablesKept, LeaksKept
  <2>3. PayloadsFollow' /\ PayloadsAwaited'
    BY <1>1, <1>6, PayloadsKept DEF Coming
  <2>4. QED
    BY <1>1, <1>6, <2>1, <2>2, <2>3, TablesKept DEF IInv, Tables, Isolation
<1>7. CASE backlog' = Tail(backlog) /\ Refuse(c) /\ UNCHANGED status
  <2>1. /\ conn' = [conn EXCEPT ![c] = "refused"]
        /\ UNCHANGED <<active_set, fds, slotVars>>
    BY <1>7 DEF Refuse
  <2>2. ServerTypeOK'
    BY <1>1, <1>2, <1>4, <1>7, <2>1, SMTT(60) DEF ServerTypeOK, slotVars
  <2>3. /\ \A d \in Conns : conn[d] # "new" => conn'[d] # "new"
        /\ \A d \in Conns : conn[d] # "done" => conn'[d] # "done"
        /\ ConnsAge
    BY <1>1, <1>4, <1>5, <2>1 DEF ServerTypeOK, ConnsAge
  <2>4. Used' = Used /\ \A s \in Used : Owner(s)' = Owner(s) /\ Owner(s) \in Conns
    BY <1>1, <2>1, TablesKept, NamesOpen DEF IInv, Tables
  <2>5. \A i \in 1..Len(Tail(backlog)) : Tail(backlog)[i] \in Conns
    BY <1>4, LenProperties
  <2>6. BacklogFresh'
    BY <1>2, <1>5, <1>7, <2>3, <2>4, <2>5 DEF IInv, Tables, BacklogFresh
  <2>7. \A d \in Conns : Coming(d)' => Coming(d)
    BY <1>1, <1>4, <2>1 DEF ServerTypeOK, Coming
  <2>8. PayloadsFollow' /\ PayloadsAwaited'
    BY <1>1, <2>1, <2>7, PayloadsKept
  <2>9. LeaksKnown'
    BY <2>1, <2>3, LeaksKept
  <2>10. QED
    BY <1>1, <2>1, <2>2, <2>6, <2>8, <2>9, TablesKept DEF IInv, Tables, Isolation
<1>8. ASSUME NEW s \in Slot, NEW f \in FD, Lowest(f), AddToClients(s, f),
             fds' = [fds EXCEPT ![f] = File("socket", c)],
             backlog' = Tail(backlog), UNCHANGED <<conn, status>>
      PROVE  IInv'
  <2>1. /\ s \notin Used
        /\ active_set' = active_set \cup {f}
        /\ socket_fd' = [socket_fd EXCEPT ![s] = f]
        /\ file_to_stream' = [file_to_stream EXCEPT ![s] = 0]
        /\ upload_file_fd' = [upload_file_fd EXCEPT ![s] = 0]
        /\ in_cmd' = [in_cmd EXCEPT ![s] = FALSE]
        /\ left' = [left EXCEPT ![s] = 0]
        /\ current_cmd' = current_cmd
    BY <1>8 DEF AddToClients, FirstFree, Used
  <2>2. /\ f # ServerSocket /\ f # 0 /\ f \notin active_set
        /\ \A t \in Used : f # socket_fd[t]
        /\ \A t \in Streaming : f # file_to_stream[t]
        /\ \A t \in Uploading : f # upload_file_fd[t]
    BY <1>8, FreeIsNobodys DEF Lowest, FD, ServerSocket
  <2>3. File("socket", c) \in Files
    BY <1>4 DEF File, Files
  <2>4. in_cmd' \in [Slot -> BOOLEAN]
    BY <1>1, <2>1 DEF ServerTypeOK
  <2>5. /\ socket_fd' \in [Slot -> Numbers] /\ file_to_stream' \in [Slot -> Numbers]
        /\ upload_file_fd' \in [Slot -> Numbers]
    BY <1>1, <2>1 DEF ServerTypeOK, Numbers
  <2>6. fds' \in [FD -> Files] /\ left' \in [Slot -> {0, 1}] /\ active_set' \in SUBSET FD
    BY <1>1, <1>8, <2>1, <2>3 DEF ServerTypeOK
  <2>7. ServerTypeOK'
    BY <1>1, <1>2, <1>4, <1>8, <2>1, <2>4, <2>5, <2>6, SMTT(60) DEF ServerTypeOK
  <2>8. Used' = Used \cup {s} /\ Streaming' = Streaming /\ Uploading' = Uploading
    <3>1. Used' = Used \cup {s}
      BY <1>1, <2>1, <2>2 DEF ServerTypeOK, Used
    <3>2. QED
      BY <1>1, <2>1, <3>1 DEF ServerTypeOK, Streaming, Uploading, Used
  <2>9. /\ \A t \in Used : t # s /\ socket_fd'[t] = socket_fd[t] /\ Owner(t)' = Owner(t)
        /\ socket_fd'[s] = f /\ Owner(s)' = c
    <3>1. \A t \in Used : t # s /\ t \in Slot /\ socket_fd'[t] = socket_fd[t]
      BY <1>1, <2>1 DEF ServerTypeOK, Used
    <3>2. \A t \in Used : fds'[socket_fd[t]] = fds[socket_fd[t]]
      BY <1>1, <1>8, <2>2, NamesOpen DEF IInv, Tables, ServerTypeOK
    <3>3. socket_fd'[s] = f /\ fds'[f] = File("socket", c)
      BY <1>1, <1>8, <2>1 DEF ServerTypeOK
    <3>4. QED
      BY <3>1, <3>2, <3>3 DEF Owner, File
  <2>10. ActiveSetExact'
    <3>1. {socket_fd'[t] : t \in Used'} = {socket_fd[t] : t \in Used} \cup {f}
      BY <2>8, <2>9
    <3>2. \A t \in Streaming : file_to_stream'[t] = file_to_stream[t]
      BY <1>1, <2>1 DEF ServerTypeOK, Streaming
    <3>3. QED
      BY <2>1, <2>8, <3>1, <3>2 DEF IInv, Tables, ActiveSetExact
  <2>11. DescriptorsOwned'
    <3>1. /\ fds'[f] = File("socket", c)
          /\ \A g \in FD : g # f => fds'[g] = fds[g]
      BY <1>1, <1>8 DEF ServerTypeOK
    <3>2. fds'[ServerSocket] = Listen
      BY <1>8, <2>2 DEF IInv, Tables, DescriptorsOwned
    <3>3. ASSUME NEW t \in Used'
          PROVE  Owner(t)' \in Conns /\ fds'[socket_fd'[t]] = File("socket", Owner(t)')
      <4>1. CASE t = s
        BY <1>4, <2>9, <3>1, <4>1
      <4>2. CASE t \in Used
        <5>1. /\ fds[socket_fd[t]] = File("socket", Owner(t)) /\ Owner(t) \in Conns
              /\ socket_fd[t] \in FD /\ socket_fd[t] # f
          BY <2>2, <4>2, NamesOpen DEF IInv, Tables, DescriptorsOwned
        <5>2. QED
          BY <2>9, <3>1, <4>2, <5>1
      <4>3. QED
        BY <2>8, <4>1, <4>2
    <3>4. \A t, u \in Used' : Owner(t)' = Owner(u)' => t = u
      BY <1>5, <2>8, <2>9 DEF IInv, Tables, DescriptorsOwned
    <3>5. ASSUME NEW t \in Streaming'
          PROVE  fds'[file_to_stream'[t]] = File("device", Owner(t)')
      <4>1. t \in Streaming /\ t \in Used /\ file_to_stream'[t] = file_to_stream[t]
        BY <1>1, <2>1, <2>8 DEF ServerTypeOK, Streaming
      <4>2. /\ fds[file_to_stream[t]] = File("device", Owner(t))
            /\ file_to_stream[t] \in FD /\ file_to_stream[t] # f
        BY <2>2, <4>1, NamesOpen DEF IInv, Tables, DescriptorsOwned
      <4>3. QED
        BY <2>9, <3>1, <4>1, <4>2
    <3>6. ASSUME NEW t \in Uploading'
          PROVE  fds'[upload_file_fd'[t]] = File("upload", Owner(t)')
      <4>1. t \in Uploading /\ t \in Used /\ upload_file_fd'[t] = upload_file_fd[t]
        BY <1>1, <2>1, <2>8 DEF ServerTypeOK, Uploading
      <4>2. /\ fds[upload_file_fd[t]] = File("upload", Owner(t))
            /\ upload_file_fd[t] \in FD /\ upload_file_fd[t] # f
        BY <2>2, <4>1, NamesOpen DEF IInv, Tables, DescriptorsOwned
      <4>3. QED
        BY <2>9, <3>1, <4>1, <4>2
    <3>7. QED
      BY <3>2, <3>3, <3>4, <3>5, <3>6 DEF DescriptorsOwned
  <2>12. StreamsLast'
    BY <1>1, <2>1, <2>8 DEF IInv, Tables, StreamsLast, ServerTypeOK, Streaming
  <2>13. BacklogFresh'
    BY <1>2, <1>5, <1>8, <2>8, <2>9 DEF IInv, Tables, BacklogFresh
  <2>14. LeaksKnown'
    <3>1. ConnsAge
      BY <1>8 DEF ConnsAge
    <3>2. \A g \in FD \ active_set' : g \notin active_set /\ fds'[g] = fds[g]
      BY <1>1, <1>8, <2>1 DEF ServerTypeOK
    <3>3. \A t \in Uploading : t \in Slot /\ t # s
      BY <2>1 DEF Uploading, Used
    <3>4. \A t \in Uploading : t \in Uploading' /\ upload_file_fd'[t] = upload_file_fd[t]
      BY <1>1, <2>1, <2>8, <3>3 DEF ServerTypeOK
    <3>5. QED
      BY <3>1, <3>2, <3>4, LeaksSame
  <2>15. PayloadsFollow'
    BY <1>1, <1>8 DEF IInv, PayloadsFollow, Coming
  <2>16. PayloadsAwaited'
    <3>1. inbox[c] = <<>> \/ inbox[c][1] # "payload"
      BY <1>4, <1>5 DEF IInv, PayloadsAwaited
    <3>2. ~in_cmd'[s] /\ left'[s] = 0
      BY <1>1, <2>1 DEF ServerTypeOK
    <3>3. Expecting(s)' /\ Expected(s)'
      BY <1>1, <2>9, <3>1, <3>2 DEF Expecting, Expected
    <3>4. ASSUME NEW t \in Used
          PROVE  Expecting(t)' /\ Expected(t)' /\ (left'[t] = 1 => in_cmd'[t])
      <4>1. /\ t # s /\ t \in Slot /\ Owner(t)' = Owner(t)
            /\ Expecting(t) /\ Expected(t) /\ (left[t] = 1 => in_cmd[t])
        BY <2>9 DEF IInv, PayloadsAwaited, Used
      <4>2. /\ in_cmd'[t] = in_cmd[t] /\ left'[t] = left[t]
            /\ current_cmd'[t] = current_cmd[t] /\ upload_file_fd'[t] = upload_file_fd[t]
        BY <1>1, <2>1, <4>1 DEF ServerTypeOK
      <4>3. Expecting(t)'
        BY <1>1, <1>8, <4>1, <4>2 DEF Expecting, Coming
      <4>4. Expected(t)'
        BY <1>1, <4>1, <4>2 DEF Expected
      <4>5. QED
        BY <4>1, <4>2, <4>3, <4>4
    <3>5. ASSUME NEW d \in Conns, inbox'[d] # <<>>, inbox'[d][1] = "payload"
          PROVE  \E t \in Used' : Owner(t)' = d
      BY <1>1, <2>8, <2>9, <3>5 DEF IInv, PayloadsAwaited
    <3>6. QED
      BY <2>8, <3>2, <3>3, <3>4, <3>5 DEF PayloadsAwaited
  <2>17. QED
    BY <1>1, <2>7, <2>10, <2>11, <2>12, <2>13, <2>14, <2>15, <2>16 DEF IInv, Tables, Isolation
<1>9. QED
  BY <1>6, <1>7, <1>8 DEF Accept

-----------------------------------------------------------------------------
(* A client's data.                                                        *)

\* get_client finds the slot that names the descriptor.
LEMMA AtClientType ==
  ASSUME IInv, NEW s \in Slot, NEW f \in FD, AtClient(s, f)
  PROVE  /\ s \in Used /\ socket_fd[s] = f /\ f # ServerSocket /\ f # 0
         /\ Client(f) = Owner(s) /\ Owner(s) \in Conns
         /\ inbox[Owner(s)] \in Seq({"command", "get", "stream", "put", "empty", "unknown", "payload"})
<1>1. socket_fd[s] = f /\ f # ServerSocket /\ f # 0
  BY DEF AtClient, IsClient, FD, ServerSocket
<1>2. s \in Used
  BY <1>1 DEF Used
<1>3. Client(f) = Owner(s) /\ Owner(s) \in Conns
  BY <1>1, <1>2, NamesOpen DEF IInv, Tables, Client, Owner
<1>4. QED
  BY <1>1, <1>2, <1>3 DEF IInv, Tables, ServerTypeOK

\* A line is read for a client that neither streams nor uploads.
LEMMA LineType ==
  ASSUME IInv, NEW s \in Slot, NEW f \in FD, NEW r, Line(s, f, r)
  PROVE  /\ s \in Used /\ socket_fd[s] = f /\ f # ServerSocket /\ f # 0
         /\ Client(f) = Owner(s) /\ Owner(s) \in Conns
         /\ ~in_cmd[s] /\ left[s] = 0 /\ s \notin Streaming /\ s \notin Uploading
         /\ inbox' \in [Conns -> Seq({"command", "get", "stream", "put", "empty", "unknown", "payload"})]
         /\ UNCHANGED <<socket_fd, backlog, sent, got>>
<1>1. AtClient(s, f) /\ ~in_cmd[s]
  BY DEF Line, ReachedClient
<1>2. s \notin Streaming /\ s \notin Uploading /\ left[s] = 0
  <2>1. s \notin Streaming /\ s \notin Uploading
    BY <1>1 DEF IInv, Tables, StreamsLast, Uploading
  <2>2. s \in Used /\ left[s] \in {0, 1}
    BY <1>1, AtClientType DEF IInv, Tables, ServerTypeOK
  <2>3. left[s] # 1
    BY <1>1, <2>2 DEF IInv, PayloadsAwaited
  <2>4. QED
    BY <2>1, <2>2, <2>3
<1>3. inbox[Owner(s)] # <<>> /\ Owner(s) = Client(f)
  BY <1>1, AtClientType DEF Line
<1>4. Tail(inbox[Owner(s)]) \in Seq({"command", "get", "stream", "put", "empty", "unknown", "payload"})
  BY <1>1, <1>3, AtClientType, HeadTailProperties
<1>5. inbox' \in [Conns -> Seq({"command", "get", "stream", "put", "empty", "unknown", "payload"})]
  BY <1>3, <1>4 DEF IInv, Tables, ServerTypeOK, Line
<1>6. UNCHANGED <<socket_fd, backlog, sent, got>>
  BY DEF Line
<1>7. QED
  BY <1>1, <1>2, <1>5, <1>6, AtClientType

\* What a step must leave of the descriptors for every name to stay owned.
LEMMA StillOwned ==
  ASSUME IInv,
         Used' \subseteq Used, \A t \in Used' : socket_fd'[t] = socket_fd[t],
         fds'[ServerSocket] = fds[ServerSocket],
         \A t \in Used' : fds'[socket_fd[t]] = fds[socket_fd[t]],
         \A t \in Streaming' : t \in Used' /\ fds'[file_to_stream'[t]] = File("device", Owner(t)),
         \A t \in Uploading' : t \in Used' /\ fds'[upload_file_fd'[t]] = File("upload", Owner(t))
  PROVE  DescriptorsOwned' /\ \A t \in Used' : Owner(t)' = Owner(t)
<1>1. \A t \in Used' : Owner(t)' = Owner(t)
  BY DEF Owner
<1>2. fds'[ServerSocket] = Listen
  BY DEF IInv, Tables, DescriptorsOwned
<1>3. \A t \in Used' : Owner(t)' \in Conns /\ fds'[socket_fd'[t]] = File("socket", Owner(t)')
  BY <1>1 DEF IInv, Tables, DescriptorsOwned
<1>4. \A t, u \in Used' : Owner(t)' = Owner(u)' => t = u
  BY <1>1 DEF IInv, Tables, DescriptorsOwned
<1>5. /\ \A t \in Streaming' : fds'[file_to_stream'[t]] = File("device", Owner(t)')
      /\ \A t \in Uploading' : fds'[upload_file_fd'[t]] = File("upload", Owner(t)')
  BY <1>1
<1>6. QED
  BY <1>1, <1>2, <1>3, <1>4, <1>5 DEF DescriptorsOwned

\* A line that says whether payload follows it keeps what is said of payloads.
LEMMA LinePayloads ==
  ASSUME IInv, NEW s \in Slot, NEW f \in FD, NEW r, Line(s, f, r),
         Used' = Used, \A t \in Used : Owner(t)' = Owner(t),
         \A t \in Used \ {s} : /\ in_cmd'[t] = in_cmd[t] /\ current_cmd'[t] = current_cmd[t]
                               /\ left'[t] = left[t] /\ upload_file_fd'[t] = upload_file_fd[t],
         \A c \in Conns : Coming(c)' => Coming(c),
         left'[s] = 1 => in_cmd'[s] /\ r = "put",
         r = "put" => current_cmd'[s] = "put"
                        /\ ((in_cmd'[s] /\ left'[s] = 1) \/ upload_file_fd'[s] = 0)
  PROVE  PayloadsFollow' /\ PayloadsAwaited'
<1> DEFINE q == inbox[Owner(s)]
           Kinds == {"command", "get", "stream", "put", "empty", "unknown", "payload"}
<1>1. /\ s \in Used /\ Client(f) = Owner(s) /\ Owner(s) \in Conns /\ Owner(s)' = Owner(s)
      /\ q \in Seq(Kinds)
  BY LineType DEF IInv, Tables, ServerTypeOK
<1>2. /\ q # <<>> /\ Head(q) = r
      /\ inbox' = [inbox EXCEPT ![Owner(s)] = Tail(@)]
  BY <1>1 DEF Line
<1>3. /\ Paired(q) /\ (q[Len(q)] = "put" => ~Coming(Owner(s)))
      /\ \A i \in 1..Len(q) : q[i] # "unknown"
  BY <1>1, <1>2 DEF IInv, PayloadsFollow
<1> DEFINE p == Tail(q)
<1>4. /\ inbox'[Owner(s)] = p
      /\ \A c \in Conns : c # Owner(s) => inbox'[c] = inbox[c]
  BY <1>1, <1>2 DEF IInv, Tables, ServerTypeOK
<1>5. /\ Paired(p) /\ q[1] = r
      /\ p # <<>> => (p[1] = "payload" <=> r = "put") /\ p[Len(p)] = q[Len(q)]
      /\ p = <<>> => q[Len(q)] = r
      /\ \A i \in 1..Len(p) : \E j \in 1..Len(q) : p[i] = q[j]
  <2> HIDE DEF q, Kinds
  <2>1. QED
    BY <1>1, <1>2, <1>3, PairedTail
<1> HIDE DEF p, q
<1>6. Coming(Owner(s))' => Coming(Owner(s))
  BY <1>1
<1>7. Expecting(s)'
  BY <1>1, <1>3, <1>4, <1>5, <1>6 DEF Expecting, Coming
<1>8. Expected(s)'
  BY <1>1, <1>4, <1>5 DEF Expected
<1>9. /\ (p # <<>> /\ p[Len(p)] = "put") => ~Coming(Owner(s))
      /\ \A i \in 1..Len(p) : p[i] # "unknown"
  BY <1>3, <1>5
<1>10. QED
  BY <1>1, <1>4, <1>5, <1>7, <1>8, <1>9, OthersKept

\* The descriptors of a client that left go with it, and nobody else's.
LEMMA DisconnectStep ==
  ASSUME IInv, NEW s \in Slot, NEW f \in FD, Disconnect(s, f)
  PROVE  IInv'
<1> DEFINE gone == {f, file_to_stream[s]}
<1>1. /\ ServerTypeOK /\ AtClient(s, f) /\ Handled(f) /\ Forget(s, f)
      /\ conn' = [conn EXCEPT ![Client(f)] = "done"]
      /\ UNCHANGED <<status, file_to_stream, upload_file_fd, in_cmd, current_cmd, left,
                     backlog, inbox, sent, full, got>>
  BY DEF IInv, Tables, Disconnect, ReachedClient
<1>2. /\ active_set' = active_set \ gone
      /\ fds' = [g \in FD |-> IF g \in gone THEN Free ELSE fds[g]]
      /\ unread' = [g \in FD |-> IF g \in gone THEN 0 ELSE unread[g]]
      /\ socket_fd' = [socket_fd EXCEPT ![s] = 0]
  BY <1>1 DEF Forget
<1>3. /\ s \in Used /\ socket_fd[s] = f /\ f # ServerSocket /\ f # 0
      /\ Client(f) = Owner(s) /\ Owner(s) \in Conns
  BY <1>1, AtClientType
<1>4. ServerTypeOK'
  <2>1. fds' \in [FD -> Files]
    BY <1>1, <1>2 DEF ServerTypeOK, Free, File, Files
  <2>2. unread' \in [FD -> Nat] /\ active_set' \in SUBSET FD /\ socket_fd' \in [Slot -> Numbers]
    BY <1>1, <1>2 DEF ServerTypeOK, Numbers
  <2>3. conn' \in [Conns -> {"new", "made", "closed", "bounced", "reset", "refused", "done"}]
    BY <1>1, <1>3 DEF ServerTypeOK
  <2>4. QED
    BY <1>1, <2>1, <2>2, <2>3, HandledType, SMTT(60) DEF ServerTypeOK
<1>5. /\ Used' = Used \ {s} /\ Streaming' = Streaming \ {s} /\ Uploading' = Uploading \ {s}
      /\ \A t \in Used' : socket_fd'[t] = socket_fd[t]
  <2>1. Used' = Used \ {s} /\ \A t \in Used' : socket_fd'[t] = socket_fd[t]
    BY <1>1, <1>2 DEF ServerTypeOK, Used
  <2>2. QED
    BY <1>1, <2>1 DEF Streaming, Uploading
<1>6. file_to_stream[s] \in FD => s \in Streaming
  BY <1>3 DEF Streaming, FD, ServerSocket
<1>7. /\ ServerSocket \notin gone
      /\ \A t \in Used \ {s} : socket_fd[t] \in FD \ gone
      /\ \A t \in Streaming \ {s} : file_to_stream[t] \in FD \ gone
      /\ \A t \in Uploading \ {s} : upload_file_fd[t] \in FD \ gone
  <2>1. \A t \in Streaming : t \in Used
    BY DEF Streaming
  <2>2. \A t \in Uploading : t \in Used
    BY DEF Uploading
  <2>3. ServerSocket \in FD /\ file_to_stream[s] # ServerSocket
    BY <1>1, <1>6, NamesOpen, FDAssumption DEF IInv, Tables, FD, ServerSocket
  <2>4. \A t \in Used \ {s} : socket_fd[t] \in FD \ gone
    BY <1>1, <1>3, <1>6, NamesDistinct, NamesOpen DEF IInv, Tables
  <2>5. \A t \in Streaming \ {s} : file_to_stream[t] \in FD \ gone
    BY <1>1, <1>3, <1>6, <2>1, NamesDistinct, NamesOpen DEF IInv, Tables
  <2>6. \A t \in Uploading \ {s} : upload_file_fd[t] \in FD \ gone
    BY <1>1, <1>3, <1>6, <2>2, NamesDistinct, NamesOpen DEF IInv, Tables
  <2>7. QED
    BY <1>3, <2>3, <2>4, <2>5, <2>6
<1>8. ActiveSetExact'
  <2>1. /\ {socket_fd'[t] : t \in Used'} = {socket_fd[t] : t \in Used} \ gone
        /\ {file_to_stream'[t] : t \in Streaming'} = {file_to_stream[t] : t \in Streaming} \ gone
    BY <1>1, <1>3, <1>5, <1>7
  <2>2. QED
    BY <1>2, <1>7, <2>1 DEF IInv, Tables, ActiveSetExact
<1>9. DescriptorsOwned' /\ \A t \in Used' : Owner(t)' = Owner(t)
  <2>1. ServerSocket \in FD /\ \A g \in FD \ gone : fds'[g] = fds[g]
    BY <1>2, FDAssumption DEF FD, ServerSocket
  <2>2. /\ fds'[ServerSocket] = fds[ServerSocket]
        /\ \A t \in Used' : fds'[socket_fd[t]] = fds[socket_fd[t]]
    BY <1>5, <1>7, <2>1
  <2>3. \A t \in Streaming' : t \in Used' /\ fds'[file_to_stream'[t]] = File("device", Owner(t))
    BY <1>1, <1>5, <1>7, <2>1, NamesOpen DEF IInv, Tables, DescriptorsOwned
  <2>4. \A t \in Uploading' : t \in Used' /\ fds'[upload_file_fd'[t]] = File("upload", Owner(t))
    BY <1>1, <1>5, <1>7, <2>1, NamesOpen DEF IInv, Tables, DescriptorsOwned
  <2>5. QED
    BY <1>5, <2>2, <2>3, <2>4, StillOwned
<1>10. StreamsLast'
  BY <1>1, <1>5 DEF IInv, Tables, StreamsLast
<1>11. BacklogFresh'
  <2>1. ConnsAge
    BY <1>1, <1>3 DEF ServerTypeOK, ConnsAge
  <2>2. QED
    BY <1>1, <1>5, <1>9, <2>1, HandledType, BacklogKept
<1>12. LeaksKnown'
  <2>1. ConnsAge
    BY <1>1, <1>3 DEF ServerTypeOK, ConnsAge
  <2>2. ASSUME NEW g \in FD \ active_set'
        PROVE  Accounted(g)' \/ (g \notin active_set /\ fds'[g] = fds[g])
    BY <1>2 DEF Accounted
  <2>3. ASSUME NEW g \in FD, NEW t \in Uploading, upload_file_fd[t] = g
        PROVE  Accounted(g)'
    <3>1. CASE t = s
      <4>1. fds[g] = File("upload", Owner(s)) /\ conn'[Owner(s)] = "done"
        BY <1>1, <1>3, <2>3, <3>1 DEF IInv, Tables, DescriptorsOwned, ServerTypeOK
      <4>2. fds'[g] = fds[g] \/ fds'[g] = Free
        BY <1>2
      <4>3. QED
        BY <1>3, <4>1, <4>2 DEF Accounted, File
    <3>2. CASE t # s
      BY <1>1, <1>5, <2>3, <3>2 DEF Accounted
    <3>3. QED
      BY <3>1, <3>2
  <2>4. QED
    BY <2>1, <2>2, <2>3, LeaksStay
<1>13. PayloadsFollow'
  <2>1. \A d \in Conns : Coming(d)' => Coming(d)
    BY <1>1, <1>3 DEF ServerTypeOK, Coming
  <2>2. QED
    BY <1>1, <2>1 DEF IInv, PayloadsFollow
<1>14. PayloadsAwaited'
  <2>1. inbox[Owner(s)] = <<>>
    BY <1>3 DEF Disconnect
  <2>2. ASSUME NEW t \in Used'
        PROVE  Expecting(t)' /\ Expected(t)' /\ (left'[t] = 1 => in_cmd'[t])
    <3>1. /\ t \in Used /\ t # s /\ Owner(t)' = Owner(t) /\ Owner(t) \in Conns
          /\ Expecting(t) /\ Expected(t) /\ (left[t] = 1 => in_cmd[t])
      BY <1>1, <1>5, <1>9, NamesOpen DEF IInv, Tables, PayloadsAwaited
    <3>2. Coming(Owner(t))' => Coming(Owner(t))
      BY <1>1, <1>3, <3>1 DEF ServerTypeOK, Coming
    <3>3. Expecting(t)'
      BY <1>1, <3>1, <3>2 DEF Expecting, Coming
    <3>4. Expected(t)'
      BY <1>1, <3>1 DEF Expected
    <3>5. QED
      BY <1>1, <3>1, <3>3, <3>4
  <2>3. ASSUME NEW d \in Conns, inbox'[d] # <<>>, inbox'[d][1] = "payload"
        PROVE  \E t \in Used' : Owner(t)' = d
    <3>1. PICK t \in Used : Owner(t) = d
      BY <1>1, <2>3 DEF IInv, PayloadsAwaited
    <3>2. t # s
      BY <1>1, <2>1, <2>3, <3>1
    <3>3. QED
      BY <1>5, <1>9, <3>1, <3>2
  <2>4. QED
    BY <2>2, <2>3 DEF PayloadsAwaited
<1>15. QED
  BY <1>1, <1>4, <1>8, <1>9, <1>10, <1>11, <1>12, <1>13, <1>14 DEF IInv, Tables, Isolation

\* A line that is answered, or whose answer begins, changes no descriptor that
\* is named: it may at most leave one open that was free.
LEMMA AnswerStep ==
  ASSUME IInv, NEW s \in Slot, NEW f \in FD, NEW r \in {"command", "get"}, Line(s, f, r),
         current_cmd' = [current_cmd EXCEPT ![s] = r],
         UNCHANGED <<active_set, unread, file_to_stream, upload_file_fd, in_cmd, left>>,
         fds' \in [FD -> Files],
         \A g \in FD : fds'[g] = fds[g] \/ (fds[g] = Free /\ BadFiles /\ fds'[g].kind = "file"),
         status' \in {"up", "exited", "crashed", "killed", "hung"}, full' \in SUBSET Conns,
         conn' \in [Conns -> {"new", "made", "closed", "bounced", "reset", "refused", "done"}],
         ConnsAge, \A d \in Conns : Coming(d)' => Coming(d),
         ready' \in SUBSET FD, scanning' \in BOOLEAN, calling' \in BOOLEAN,
         ServerSocket \in ready' => backlog # <<>>
  PROVE  IInv'
<1>1. /\ ServerTypeOK /\ DescriptorsOwned /\ StreamsLast /\ IInv
      /\ ~in_cmd[s] /\ s \notin Streaming /\ s \notin Uploading
      /\ UNCHANGED <<socket_fd, backlog, sent, got>>
  BY LineType DEF IInv, Tables
<1>2. ServerTypeOK'
  <2>1. current_cmd' \in [Slot -> {"command", "get", "stream", "put"}]
    BY <1>1 DEF ServerTypeOK
  <2>2. QED
    BY <1>1, <2>1, LineType, SMTT(60) DEF ServerTypeOK
<1>3. /\ Used' = Used /\ Streaming' = Streaming /\ Uploading' = Uploading
      /\ \A t \in Slot : t # s => current_cmd'[t] = current_cmd[t]
      /\ \A t \in Used : t \in Slot
  BY <1>1 DEF ServerTypeOK, Used, Streaming, Uploading
<1>4. ActiveSetExact'
  BY <1>1, <1>3 DEF IInv, Tables, ActiveSetExact
<1>5. LeaksKnown'
  <2>1. ASSUME NEW g \in FD \ active_set'
        PROVE  Accounted(g)' \/ (g \notin active_set /\ fds'[g] = fds[g])
    BY <2>1 DEF Accounted
  <2>2. ASSUME NEW g \in FD, NEW t \in Uploading, upload_file_fd[t] = g PROVE Accounted(g)'
    BY <1>3, <2>2 DEF Accounted
  <2>3. QED
    BY <2>1, <2>2, LeaksStay
<1>6. DescriptorsOwned' /\ \A t \in Used' : Owner(t)' = Owner(t)
  <2>1. \A g \in FD : fds[g].kind # "free" => fds'[g] = fds[g]
    BY DEF Free, File
  <2>2. ServerSocket \in FD
    BY FDAssumption DEF FD, ServerSocket
  <2>3. fds'[ServerSocket] = fds[ServerSocket] /\ \A t \in Used' : fds'[socket_fd[t]] = fds[socket_fd[t]]
    BY <1>1, <1>3, <2>1, <2>2, NamesOpen
  <2>4. \A t \in Streaming' : t \in Used' /\ fds'[file_to_stream'[t]] = File("device", Owner(t))
    BY <1>1, <1>3, <2>1, NamesOpen DEF DescriptorsOwned
  <2>5. \A t \in Uploading' : t \in Used' /\ fds'[upload_file_fd'[t]] = File("upload", Owner(t))
    BY <1>1, <1>3, <2>1, NamesOpen DEF DescriptorsOwned
  <2>6. QED
    BY <1>1, <1>3, <2>3, <2>4, <2>5, StillOwned
<1>7. StreamsLast'
  BY <1>1, <1>3 DEF StreamsLast, Streaming, Used
<1>8. BacklogFresh'
  BY <1>1, <1>3, <1>6, BacklogKept
<1>9. PayloadsFollow' /\ PayloadsAwaited'
  <2>1. left'[s] = 0
    BY LineType
  <2>2. QED
    BY <1>1, <1>3, <1>6, <2>1, LinePayloads
<1>10. QED
  BY <1>1, <1>2, <1>4, <1>5, <1>6, <1>7, <1>8, <1>9 DEF IInv, Tables, Isolation

\* CMD begins to copy the program's output.
LEMMA CommandStep ==
  ASSUME IInv, NEW s \in Slot, NEW f \in FD, Command(s, f)
  PROVE  IInv'
<1>1. /\ Line(s, f, "command")
      /\ current_cmd' = [current_cmd EXCEPT ![s] = "command"] /\ calling' \in BOOLEAN
      /\ UNCHANGED <<status, scanning, ready, active_set, fds, unread, file_to_stream,
                     upload_file_fd, in_cmd, left, conn, full>>
  BY DEF Command, kernelVars
<1>2. /\ fds' \in [FD -> Files] /\ full' \in SUBSET Conns
      /\ status' \in {"up", "exited", "crashed", "killed", "hung"}
      /\ conn' \in [Conns -> {"new", "made", "closed", "bounced", "reset", "refused", "done"}]
      /\ ConnsAge /\ \A d \in Conns : Coming(d)' => Coming(d)
  BY <1>1 DEF IInv, Tables, ServerTypeOK, ConnsAge, Coming
<1>3. QED
  BY <1>1, <1>2, StaysType, AnswerStep

\* GET_FILE begins to copy the file, answers that it cannot, or never ends.
LEMMA GetFileStep ==
  ASSUME IInv, NEW s \in Slot, NEW f \in FD, GetFile(s, f)
  PROVE  IInv'
<1>1. /\ Line(s, f, "get") /\ AtClient(s, f)
      /\ current_cmd' = [current_cmd EXCEPT ![s] = "get"]
      /\ UNCHANGED <<active_set, unread, file_to_stream, upload_file_fd, in_cmd, left>>
  BY DEF GetFile, Line, ReachedClient
<1>2. Client(f) \in Conns /\ fds \in [FD -> Files]
  BY <1>1, AtClientType DEF IInv, Tables, ServerTypeOK
<1>3. CASE /\ status' \in {status, "hung"} /\ calling' \in BOOLEAN
           /\ UNCHANGED <<scanning, ready, fds, conn, full>>
  <2>1. /\ full' \in SUBSET Conns
        /\ status' \in {"up", "exited", "crashed", "killed", "hung"}
        /\ conn' \in [Conns -> {"new", "made", "closed", "bounced", "reset", "refused", "done"}]
        /\ ConnsAge /\ \A d \in Conns : Coming(d)' => Coming(d)
    BY <1>3 DEF IInv, Tables, ServerTypeOK, ConnsAge, Coming
  <2>2. QED
    BY <1>1, <1>2, <1>3, <2>1, StaysType, AnswerStep
<1>4. ASSUME BadFiles, Handled(f), Write(Client(f)),
             UNCHANGED fds \/ \E g \in FD : Lowest(g) /\ fds' = [fds EXCEPT ![g] = File("file", Client(f))]
      PROVE  IInv'
  <2>1. fds' \in [FD -> Files]
    BY <1>2, <1>4 DEF File, Files
  <2>2. \A g \in FD : fds'[g] = fds[g] \/ (fds[g] = Free /\ BadFiles /\ fds'[g].kind = "file")
    BY <1>2, <1>4 DEF File, Lowest
  <2>3. QED
    BY <1>1, <1>2, <1>4, <2>1, <2>2, HandledType, WriteType, AnswerStep
<1>5. QED
  <2>1. \/ /\ status' \in {status, "hung"} /\ calling' \in BOOLEAN
           /\ UNCHANGED <<scanning, ready, fds, conn, full>>
        \/ /\ BadFiles /\ Handled(f) /\ Write(Client(f))
           /\ \/ UNCHANGED fds
              \/ \E g \in FD : Lowest(g) /\ fds' = [fds EXCEPT ![g] = File("file", Client(f))]
    BY DEF GetFile, IInv, Tables, ServerTypeOK
  <2>2. QED
    BY <1>3, <1>4, <2>1

\* What a call writes, and its return, change nothing of the tables.
LEMMA CallStep == IInv /\ (Outputs \/ Returns) => IInv'
<1> SUFFICES ASSUME IInv, Outputs \/ Returns PROVE IInv'
  OBVIOUS
<1>1. ASSUME NEW f \in FD, NEW s \in Slot, Output(s, f) PROVE IInv'
  <2>1. /\ AtClient(s, f) /\ Write(Client(f))
        /\ UNCHANGED <<scanning, ready, calling, active_set, fds, unread, slotVars, backlog,
                       inbox, sent, got>>
    BY <1>1 DEF Output, Calling, loopVars, kernelVars
  <2>2. Client(f) \in Conns /\ calling' \in BOOLEAN
    BY <2>1, AtClientType DEF IInv, Tables, ServerTypeOK
  <2>3. unread' \in [FD -> Nat] /\ got' \in [Conns -> SUBSET Conns] /\ Isolation'
    BY <2>1 DEF IInv, Tables, ServerTypeOK, Isolation
  <2>4. QED
    BY <2>1, <2>2, <2>3, StaysType, WriteType, LoopStep
<1>2. ASSUME NEW f \in FD, NEW s \in Slot, Return(s, f) PROVE IInv'
  <2>1. /\ AtClient(s, f) /\ Handled(f)
        /\ Write(Client(f)) \/ UNCHANGED <<status, conn, full>>
        /\ UNCHANGED <<active_set, fds, unread, slotVars, backlog, inbox, sent, got>>
    BY <1>2 DEF Return, Calling, kernelVars
  <2>2. Client(f) \in Conns /\ status \in {"up", "exited", "crashed", "killed", "hung"}
    BY <2>1, AtClientType DEF IInv, Tables, ServerTypeOK
  <2>3. unread' \in [FD -> Nat] /\ got' \in [Conns -> SUBSET Conns] /\ Isolation'
    BY <2>1 DEF IInv, Tables, ServerTypeOK, Isolation
  <2>4. CASE Write(Client(f))
    BY <2>1, <2>2, <2>3, <2>4, HandledType, WriteType, LoopStep
  <2>5. CASE UNCHANGED <<status, conn, full>>
    BY <2>1, <2>2, <2>5, HandledType, QuietType, LoopStep
  <2>6. QED
    BY <2>1, <2>4, <2>5
<1>3. QED
  BY <1>1, <1>2 DEF Outputs, Returns

\* The streamed file gets a descriptor of its own; without one left, the
\* slot keeps naming what it named.
LEMMA StreamStep ==
  ASSUME IInv, NEW s \in Slot, NEW f \in FD, Stream(s, f)
  PROVE  IInv'
<1>1. /\ ServerTypeOK /\ Line(s, f, "stream")
      /\ current_cmd' = [current_cmd EXCEPT ![s] = "stream"]
      /\ in_cmd' = [in_cmd EXCEPT ![s] = TRUE]
      /\ UNCHANGED <<unread, upload_file_fd, left, conn, full>> /\ Handled(f)
      /\ ConnsAge
  BY DEF IInv, Tables, Stream, ConnsAge
<1>2. /\ s \in Used /\ s \notin Streaming /\ s \notin Uploading
      /\ Owner(s) \in Conns /\ Client(f) = Owner(s)
      /\ UNCHANGED <<socket_fd, backlog, sent, got>>
  BY <1>1, LineType
<1>3. /\ current_cmd' \in [Slot -> {"command", "get", "stream", "put"}]
      /\ current_cmd'[s] = "stream"
      /\ \A t \in Slot : t # s => current_cmd'[t] = current_cmd[t]
  BY <1>1 DEF ServerTypeOK
<1>4. /\ in_cmd' \in [Slot -> BOOLEAN]
      /\ in_cmd'[s]
      /\ \A t \in Slot : t # s => in_cmd'[t] = in_cmd[t]
  BY <1>1 DEF ServerTypeOK
<1>5. Used' = Used /\ Uploading' = Uploading
  BY <1>1, <1>2, <1>3, <1>4 DEF Used, Uploading
<1>6. CASE /\ status' \in {"exited", "crashed"}
           /\ UNCHANGED <<active_set, fds, file_to_stream>>
  <2>1. ServerTypeOK'
    BY <1>1, <1>2, <1>3, <1>4, <1>6, LineType, HandledType, SMTT(60) DEF ServerTypeOK
  <2>2. Streaming' = Streaming
    BY <1>5, <1>6 DEF Streaming
  <2>3. ActiveSetExact' /\ LeaksKnown'
    <3>1. ActiveSetExact'
      BY <1>2, <1>5, <1>6, <2>2 DEF IInv, Tables, ActiveSetExact
    <3>2. QED
      BY <1>1, <1>5, <1>6, <3>1, LeaksSame
  <2>4. DescriptorsOwned' /\ \A t \in Used' : Owner(t)' = Owner(t)
    <3>1. \A t \in Streaming' : t \in Used' /\ fds'[file_to_stream'[t]] = File("device", Owner(t))
      BY <1>1, <1>5, <1>6, <2>2, NamesOpen DEF IInv, Tables, DescriptorsOwned
    <3>2. \A t \in Uploading' : t \in Used' /\ fds'[upload_file_fd'[t]] = File("upload", Owner(t))
      BY <1>1, <1>5, <1>6, NamesOpen DEF IInv, Tables, DescriptorsOwned
    <3>3. QED
      BY <1>2, <1>5, <1>6, <3>1, <3>2, StillOwned
  <2>5. StreamsLast'
    BY <1>2, <1>3, <1>4, <2>2 DEF IInv, Tables, StreamsLast, Streaming, Used
  <2>6. BacklogFresh'
    BY <1>1, <1>2, <1>5, <2>4, HandledType, BacklogKept
  <2>7. PayloadsFollow' /\ PayloadsAwaited'
    <3>1. /\ \A t \in Used : t \in Slot
          /\ left[s] = 0 /\ left' = left /\ upload_file_fd' = upload_file_fd
      BY <1>1, LineType DEF Used
    <3>2. \A d \in Conns : Coming(d)' => Coming(d)
      BY <1>1 DEF Coming
    <3>3. /\ \A t \in Used \ {s} : /\ in_cmd'[t] = in_cmd[t] /\ current_cmd'[t] = current_cmd[t]
                                   /\ left'[t] = left[t] /\ upload_file_fd'[t] = upload_file_fd[t]
          /\ left'[s] # 1 /\ "stream" # "put"
      BY <1>3, <1>4, <3>1
    <3>4. Line(s, f, "stream") /\ Used' = Used /\ \A t \in Used : Owner(t)' = Owner(t)
      BY <1>1, <1>5, <2>4
    <3>5. QED
      BY <3>2, <3>3, <3>4, LinePayloads, Zenon
  <2>8. QED
    BY <1>2, <2>1, <2>3, <2>4, <2>5, <2>6, <2>7 DEF IInv, Tables, Isolation
<1>7. ASSUME NEW g \in FD, Lowest(g),
             fds' = [fds EXCEPT ![g] = File("device", Client(f))],
             file_to_stream' = [file_to_stream EXCEPT ![s] = g],
             active_set' = active_set \cup {g}, UNCHANGED status
      PROVE  IInv'
  <2>1. /\ g # ServerSocket /\ g # 0 /\ g \notin active_set
        /\ \A t \in Used : g # socket_fd[t]
        /\ \A t \in Streaming : g # file_to_stream[t]
        /\ \A t \in Uploading : g # upload_file_fd[t]
    BY <1>7, FreeIsNobodys DEF Lowest, FD, ServerSocket
  <2>2. /\ fds' \in [FD -> Files] /\ fds'[g] = File("device", Owner(s))
        /\ \A h \in FD : h # g => fds'[h] = fds[h]
    BY <1>1, <1>2, <1>7 DEF ServerTypeOK, File, Files
  <2>3. /\ file_to_stream' \in [Slot -> Numbers] /\ file_to_stream'[s] = g
        /\ \A t \in Slot : t # s => file_to_stream'[t] = file_to_stream[t]
        /\ active_set' \in SUBSET FD
    BY <1>1, <1>7 DEF ServerTypeOK, Numbers
  <2>4. ServerTypeOK'
    BY <1>1, <1>2, <1>3, <1>4, <1>7, <2>2, <2>3, LineType, HandledType, SMTT(60) DEF ServerTypeOK
  <2>5. Streaming' = Streaming \cup {s}
    BY <1>2, <1>5, <2>1, <2>3 DEF Streaming, Used
  <2>6. \A t \in Streaming : t \in Slot /\ t \in Used /\ t # s /\ file_to_stream'[t] = file_to_stream[t]
    BY <1>2, <2>3 DEF Streaming, Used
  <2>7. ActiveSetExact'
    <3>1. {file_to_stream'[t] : t \in Streaming'} = {file_to_stream[t] : t \in Streaming} \cup {g}
      BY <2>3, <2>5, <2>6
    <3>2. QED
      BY <1>2, <1>5, <1>7, <3>1 DEF IInv, Tables, ActiveSetExact
  <2>8. DescriptorsOwned' /\ \A t \in Used' : Owner(t)' = Owner(t)
    <3>1. \A t \in Used' : fds'[socket_fd[t]] = fds[socket_fd[t]]
      BY <1>1, <1>5, <2>1, <2>2, NamesOpen DEF IInv, Tables
    <3>2. fds'[ServerSocket] = fds[ServerSocket]
      BY <2>1, <2>2, FDAssumption DEF FD, ServerSocket
    <3>3. ASSUME NEW t \in Streaming'
          PROVE  t \in Used' /\ fds'[file_to_stream'[t]] = File("device", Owner(t))
      <4>1. CASE t = s
        BY <1>2, <1>5, <2>2, <2>3, <4>1
      <4>2. CASE t \in Streaming
        <5>1. /\ fds[file_to_stream[t]] = File("device", Owner(t))
              /\ file_to_stream[t] \in FD /\ file_to_stream[t] # g
          BY <1>1, <2>1, <4>2, NamesOpen DEF IInv, Tables, DescriptorsOwned
        <5>2. QED
          BY <1>5, <2>2, <2>6, <4>2, <5>1
      <4>3. QED
        BY <2>5, <4>1, <4>2
    <3>4. ASSUME NEW t \in Uploading'
          PROVE  t \in Used' /\ fds'[upload_file_fd'[t]] = File("upload", Owner(t))
      <4>1. /\ t \in Uploading /\ t \in Used
            /\ fds[upload_file_fd[t]] = File("upload", Owner(t))
            /\ upload_file_fd[t] \in FD /\ upload_file_fd[t] # g
        BY <1>1, <1>5, <2>1, NamesOpen DEF IInv, Tables, DescriptorsOwned
      <4>2. QED
        BY <1>1, <1>5, <2>2, <4>1
    <3>5. QED
      BY <1>2, <1>5, <3>1, <3>2, <3>3, <3>4, StillOwned
  <2>9. StreamsLast'
    BY <1>3, <1>4, <2>5, <2>6 DEF IInv, Tables, StreamsLast
  <2>10. BacklogFresh'
    BY <1>1, <1>2, <1>5, <2>8, HandledType, BacklogKept
  <2>11. LeaksKnown'
    BY <1>1, <1>5, <1>7, <2>2, LeaksSame
  <2>12. PayloadsFollow' /\ PayloadsAwaited'
    <3>1. /\ \A t \in Used : t \in Slot
          /\ left[s] = 0 /\ left' = left /\ upload_file_fd' = upload_file_fd
      BY <1>1, LineType DEF Used
    <3>2. \A d \in Conns : Coming(d)' => Coming(d)
      BY <1>1 DEF Coming
    <3>3. /\ \A t \in Used \ {s} : /\ in_cmd'[t] = in_cmd[t] /\ current_cmd'[t] = current_cmd[t]
                                   /\ left'[t] = left[t] /\ upload_file_fd'[t] = upload_file_fd[t]
          /\ left'[s] # 1 /\ "stream" # "put"
      BY <1>3, <1>4, <3>1
    <3>4. Line(s, f, "stream") /\ Used' = Used /\ \A t \in Used : Owner(t)' = Owner(t)
      BY <1>1, <1>5, <2>8
    <3>5. QED
      BY <3>2, <3>3, <3>4, LinePayloads, Zenon
  <2>13. QED
    BY <1>2, <2>4, <2>7, <2>8, <2>9, <2>10, <2>11, <2>12 DEF IInv, Tables, Isolation
<1>8. QED
  BY <1>6, <1>7 DEF Stream

\* An upload gets a descriptor of its own, or none.
LEMMA PutStep ==
  ASSUME IInv, NEW s \in Slot, NEW f \in FD, NEW r, NEW pieces \in {0, 1}, Put(s, f, r, pieces),
         pieces = 1 <=> r = "put"
  PROVE  IInv'
<1>1. /\ ServerTypeOK /\ Line(s, f, r)
      /\ current_cmd' = [current_cmd EXCEPT ![s] = "put"]
      /\ in_cmd' = [in_cmd EXCEPT ![s] = TRUE]
      /\ UNCHANGED <<status, active_set, unread, file_to_stream, conn, full>> /\ Handled(f)
      /\ ConnsAge
  BY DEF IInv, Tables, Put, ConnsAge
<1>2. /\ s \in Used /\ s \notin Streaming /\ s \notin Uploading
      /\ Owner(s) \in Conns /\ Client(f) = Owner(s)
      /\ UNCHANGED <<socket_fd, backlog, sent, got>>
  BY <1>1, LineType
<1>3. /\ current_cmd' \in [Slot -> {"command", "get", "stream", "put"}]
      /\ current_cmd'[s] = "put"
      /\ \A t \in Slot : t # s => current_cmd'[t] = current_cmd[t]
  BY <1>1 DEF ServerTypeOK
<1>4. /\ in_cmd' \in [Slot -> BOOLEAN]
      /\ in_cmd'[s]
      /\ \A t \in Slot : t # s => in_cmd'[t] = in_cmd[t]
  BY <1>1 DEF ServerTypeOK
<1>5. /\ Used' = Used /\ Streaming' = Streaming
      /\ \A t \in Streaming : t \in Used /\ t # s
  BY <1>1, <1>2 DEF Used, Streaming
<1>6. ActiveSetExact' /\ StreamsLast'
  <2>1. ActiveSetExact'
    BY <1>1, <1>2, <1>5 DEF IInv, Tables, ActiveSetExact
  <2>2. StreamsLast'
    BY <1>3, <1>4, <1>5 DEF IInv, Tables, StreamsLast, Used
  <2>3. QED
    BY <2>1, <2>2
<1>7. CASE /\ upload_file_fd' = [upload_file_fd EXCEPT ![s] = 0]
           /\ UNCHANGED <<fds, left>>
  <2>1. /\ upload_file_fd' \in [Slot -> Numbers] /\ upload_file_fd'[s] = 0
        /\ \A t \in Slot : t # s => upload_file_fd'[t] = upload_file_fd[t]
    BY <1>1, <1>7 DEF ServerTypeOK, Numbers
  <2>2. ServerTypeOK'
    BY <1>1, <1>2, <1>3, <1>4, <1>7, <2>1, LineType, HandledType, SMTT(60) DEF ServerTypeOK
  <2>3. /\ Uploading' = Uploading
        /\ \A t \in Uploading : t \in Used /\ upload_file_fd'[t] = upload_file_fd[t]
    BY <1>2, <1>3, <1>4, <1>5, <2>1 DEF Uploading, Used
  <2>4. DescriptorsOwned' /\ \A t \in Used' : Owner(t)' = Owner(t)
    <3>1. \A t \in Streaming' : t \in Used' /\ fds'[file_to_stream'[t]] = File("device", Owner(t))
      BY <1>1, <1>5, <1>7, NamesOpen DEF IInv, Tables, DescriptorsOwned
    <3>2. \A t \in Uploading' : t \in Used' /\ fds'[upload_file_fd'[t]] = File("upload", Owner(t))
      BY <1>1, <1>5, <1>7, <2>3, NamesOpen DEF IInv, Tables, DescriptorsOwned
    <3>3. QED
      BY <1>2, <1>5, <1>7, <3>1, <3>2, StillOwned
  <2>5. BacklogFresh'
    BY <1>1, <1>2, <1>5, <2>4, HandledType, BacklogKept
  <2>6. LeaksKnown'
    BY <1>1, <1>7, <2>3, LeaksSame
  <2>7. PayloadsFollow' /\ PayloadsAwaited'
    <3>1. left'[s] = 0 /\ \A t \in Used : t \in Slot
      BY <1>1, <1>7, LineType DEF Used
    <3>2. QED
      BY <1>1, <1>2, <1>3, <1>4, <1>5, <1>7, <2>1, <2>4, <3>1, LinePayloads DEF Coming
  <2>8. QED
    BY <1>2, <1>6, <2>2, <2>4, <2>5, <2>6, <2>7 DEF IInv, Tables, Isolation
<1>8. ASSUME NEW g \in FD, Lowest(g),
             fds' = [fds EXCEPT ![g] = File("upload", Client(f))],
             upload_file_fd' = [upload_file_fd EXCEPT ![s] = g],
             left' = [left EXCEPT ![s] = pieces]
      PROVE  IInv'
  <2>1. /\ g # ServerSocket /\ g # 0 /\ g \notin active_set
        /\ \A t \in Used : g # socket_fd[t]
        /\ \A t \in Streaming : g # file_to_stream[t]
        /\ \A t \in Uploading : g # upload_file_fd[t]
    BY <1>8, FreeIsNobodys DEF Lowest, FD, ServerSocket
  <2>2. /\ fds' \in [FD -> Files] /\ fds'[g] = File("upload", Owner(s))
        /\ \A h \in FD : h # g => fds'[h] = fds[h]
    BY <1>1, <1>2, <1>8 DEF ServerTypeOK, File, Files
  <2>3. /\ upload_file_fd' \in [Slot -> Numbers] /\ upload_file_fd'[s] = g
        /\ \A t \in Slot : t # s => upload_file_fd'[t] = upload_file_fd[t]
        /\ left' \in [Slot -> {0, 1}] /\ left'[s] = pieces
        /\ \A t \in Slot : t # s => left'[t] = left[t]
    BY <1>1, <1>8 DEF ServerTypeOK, Numbers
  <2>4. ServerTypeOK'
    BY <1>1, <1>2, <1>3, <1>4, <2>2, <2>3, LineType, HandledType, SMTT(60) DEF ServerTypeOK
  <2>5. /\ Uploading' = Uploading \cup {s}
        /\ \A t \in Uploading : t \in Used /\ t # s /\ upload_file_fd'[t] = upload_file_fd[t]
    BY <1>2, <1>3, <1>4, <1>5, <2>1, <2>3 DEF Uploading, Used
  <2>6. DescriptorsOwned' /\ \A t \in Used' : Owner(t)' = Owner(t)
    <3>1. \A t \in Used' : fds'[socket_fd[t]] = fds[socket_fd[t]]
      BY <1>1, <1>5, <2>1, <2>2, NamesOpen DEF IInv, Tables
    <3>2. fds'[ServerSocket] = fds[ServerSocket]
      BY <2>1, <2>2, FDAssumption DEF FD, ServerSocket
    <3>3. ASSUME NEW t \in Streaming'
          PROVE  t \in Used' /\ fds'[file_to_stream'[t]] = File("device", Owner(t))
      <4>1. /\ fds[file_to_stream[t]] = File("device", Owner(t))
            /\ file_to_stream[t] \in FD /\ file_to_stream[t] # g
        BY <1>1, <1>5, <2>1, NamesOpen DEF IInv, Tables, DescriptorsOwned
      <4>2. QED
        BY <1>1, <1>5, <2>2, <4>1
    <3>4. ASSUME NEW t \in Uploading'
          PROVE  t \in Used' /\ fds'[upload_file_fd'[t]] = File("upload", Owner(t))
      <4>1. CASE t = s
        BY <1>2, <1>5, <2>2, <2>3, <4>1
      <4>2. CASE t \in Uploading
        <5>1. /\ fds[upload_file_fd[t]] = File("upload", Owner(t))
              /\ upload_file_fd[t] \in FD /\ upload_file_fd[t] # g
          BY <1>1, <2>1, <4>2, NamesOpen DEF IInv, Tables, DescriptorsOwned
        <5>2. QED
          BY <1>5, <2>2, <2>5, <4>2, <5>1
      <4>3. QED
        BY <2>5, <4>1, <4>2
    <3>5. QED
      BY <1>2, <1>5, <3>1, <3>2, <3>3, <3>4, StillOwned
  <2>7. BacklogFresh'
    BY <1>1, <1>2, <1>5, <2>6, HandledType, BacklogKept
  <2>8. LeaksKnown'
    <3>1. Accounted(g)'
      BY <2>3, <2>5 DEF Accounted
    <3>2. \A h \in FD \ active_set' : Accounted(h)' \/ (h \notin active_set /\ fds'[h] = fds[h])
      BY <1>1, <2>2, <3>1
    <3>3. ASSUME NEW h \in FD, NEW t \in Uploading, upload_file_fd[t] = h PROVE Accounted(h)'
      BY <2>5, <3>3 DEF Accounted
    <3>4. QED
      BY <1>1, <3>2, <3>3, LeaksStay
  <2>9. PayloadsFollow' /\ PayloadsAwaited'
    <3>1. \A t \in Used : t \in Slot
      BY DEF Used
    <3>2. QED
      BY <1>1, <1>2, <1>3, <1>4, <1>5, <2>3, <2>6, <3>1, LinePayloads DEF Coming
  <2>10. QED
    BY <1>2, <1>6, <2>4, <2>6, <2>7, <2>8, <2>9 DEF IInv, Tables, Isolation
<1>9. QED
  BY <1>7, <1>8 DEF Put

\* Only payload is read as a line no handler knows, and the upload it was
\* announced for has no file.
LEMMA UnknownStep ==
  ASSUME IInv, NEW s \in Slot, NEW f \in FD, Unknown(s, f)
  PROVE  IInv'
<1>1. PICK r \in {"unknown", "payload"} : Line(s, f, r)
  BY DEF Unknown
<1>2. /\ ServerTypeOK
      /\ in_cmd' = [in_cmd EXCEPT ![s] = TRUE]
      /\ UNCHANGED <<status, active_set, fds, unread, file_to_stream, upload_file_fd,
                     current_cmd, left, conn, full>>
      /\ Handled(f) /\ ConnsAge
  BY DEF IInv, Tables, Unknown, kernelVars, ConnsAge
<1>3. /\ s \in Used /\ s \notin Streaming /\ s \notin Uploading /\ left[s] = 0 /\ ~in_cmd[s]
      /\ Owner(s) \in Conns /\ Client(f) = Owner(s)
      /\ UNCHANGED <<socket_fd, backlog, sent, got>>
  BY <1>1, LineType
<1>4. /\ in_cmd' \in [Slot -> BOOLEAN] /\ in_cmd'[s]
      /\ \A t \in Slot : t # s => in_cmd'[t] = in_cmd[t]
  BY <1>2 DEF ServerTypeOK
<1>5. ServerTypeOK'
  BY <1>1, <1>2, <1>3, <1>4, LineType, HandledType, SMTT(60) DEF ServerTypeOK
<1>6. upload_file_fd[s] = 0
  <2>1. /\ inbox[Owner(s)] # <<>> /\ inbox[Owner(s)][1] = r
        /\ Len(inbox[Owner(s)]) \in Nat /\ Len(inbox[Owner(s)]) > 0
    <3>1. inbox[Owner(s)] # <<>> /\ Head(inbox[Owner(s)]) = r /\ AtClient(s, f)
      BY <1>1, <1>3 DEF Line, ReachedClient
    <3>2. QED
      BY <3>1, AtClientType, HeadTailProperties, LenProperties, EmptySeq
  <2>2. r = "payload"
    BY <1>3, <2>1 DEF IInv, PayloadsFollow
  <2>3. QED
    BY <1>3, <2>1, <2>2 DEF IInv, PayloadsAwaited, Expected
<1>7. /\ Used' = Used /\ Streaming' = Streaming /\ Uploading' = Uploading
      /\ \A t \in Used : t \in Slot
  <2>1. Used' = Used /\ Streaming' = Streaming /\ \A t \in Used : t \in Slot
    BY <1>2, <1>3 DEF Used, Streaming
  <2>2. Uploading' = Uploading
    BY <1>2, <1>3, <1>4, <1>6, <2>1 DEF Uploading
  <2>3. QED
    BY <2>1, <2>2
<1>8. ActiveSetExact' /\ LeaksKnown'
  <2>1. ActiveSetExact'
    BY <1>2, <1>3, <1>7 DEF IInv, Tables, ActiveSetExact
  <2>2. QED
    BY <1>2, <1>7, <2>1, LeaksSame
<1>9. DescriptorsOwned' /\ \A t \in Used' : Owner(t)' = Owner(t)
  <2>1. \A t \in Streaming' : t \in Used' /\ fds'[file_to_stream'[t]] = File("device", Owner(t))
    BY <1>2, <1>7, NamesOpen DEF IInv, Tables, DescriptorsOwned
  <2>2. \A t \in Uploading' : t \in Used' /\ fds'[upload_file_fd'[t]] = File("upload", Owner(t))
    BY <1>2, <1>7, NamesOpen DEF IInv, Tables, DescriptorsOwned
  <2>3. QED
    BY <1>2, <1>3, <1>7, <2>1, <2>2, StillOwned
<1>10. StreamsLast'
  BY <1>2, <1>3, <1>4, <1>7 DEF IInv, Tables, StreamsLast, Streaming
<1>11. BacklogFresh'
  BY <1>1, <1>2, <1>3, <1>7, <1>9, HandledType, BacklogKept
<1>12. PayloadsFollow' /\ PayloadsAwaited'
  <2>1. \A d \in Conns : Coming(d)' => Coming(d)
    BY <1>2 DEF Coming
  <2>2. /\ \A t \in Used \ {s} : /\ in_cmd'[t] = in_cmd[t] /\ current_cmd'[t] = current_cmd[t]
                                 /\ left'[t] = left[t] /\ upload_file_fd'[t] = upload_file_fd[t]
        /\ left'[s] = 0 /\ r # "put"
    BY <1>2, <1>3, <1>4, <1>7
  <2>3. QED
    BY <1>1, <1>7, <1>9, <2>1, <2>2, LinePayloads
<1>13. QED
  BY <1>2, <1>3, <1>5, <1>8, <1>9, <1>10, <1>11, <1>12 DEF IInv, Tables, Isolation

\* The descriptor closed at the end of an upload is the upload's own.
LEMMA FinishUploadStep ==
  ASSUME IInv, NEW s \in Slot, NEW f \in FD, FinishUpload(s, f)
  PROVE  IInv'
<1> DEFINE u == upload_file_fd[s]
<1>1. /\ ServerTypeOK /\ AtClient(s, f)
      /\ in_cmd[s] /\ current_cmd[s] = "put"
      /\ inbox[Client(f)] # <<>>
      /\ left' = [left EXCEPT ![s] = 0]
      /\ in_cmd' = [in_cmd EXCEPT ![s] = FALSE]
      /\ fds' = [g \in FD |-> IF g = u THEN Free ELSE fds[g]]
      /\ unread' = [g \in FD |-> IF g = u THEN 0 ELSE unread[g]]
      /\ UNCHANGED <<status, active_set, socket_fd, file_to_stream, upload_file_fd,
                     current_cmd, backlog, conn, sent, full, got>>
      /\ ConnsAge
  BY DEF IInv, Tables, FinishUpload, ReachedClient, ConnsAge, TakePiece, CloseUpload
<1>2. /\ s \in Used /\ s \notin Streaming
      /\ u # 0 => s \in Uploading
      /\ Client(f) = Owner(s) /\ Owner(s) \in Conns
  BY <1>1, AtClientType DEF IInv, Tables, StreamsLast, Uploading
<1>3. /\ ready' \in SUBSET FD /\ scanning' \in BOOLEAN /\ calling' \in BOOLEAN
      /\ ServerSocket \in ready' => backlog # <<>>
  <2>1. CASE UNCHANGED loopVars
    BY <1>1, <2>1 DEF IInv, Tables, BacklogFresh, ServerTypeOK, loopVars
  <2>2. CASE Handled(f)
    BY <2>2, HandledType
  <2>3. QED
    BY <2>1, <2>2 DEF FinishUpload
<1>4. inbox' \in [Conns -> Seq({"command", "get", "stream", "put", "empty", "unknown", "payload"})]
  <2>1. Tail(inbox[Owner(s)]) \in Seq({"command", "get", "stream", "put", "empty", "unknown", "payload"})
    BY <1>1, <1>2, AtClientType, HeadTailProperties
  <2>2. CASE inbox' = inbox
    BY <1>1, <2>2 DEF ServerTypeOK
  <2>3. CASE inbox' = [inbox EXCEPT ![Client(f)] = Tail(@)]
    BY <1>1, <1>2, <2>1, <2>3 DEF ServerTypeOK
  <2>4. QED
    BY <2>2, <2>3 DEF FinishUpload
<1>5. /\ in_cmd' \in [Slot -> BOOLEAN] /\ ~in_cmd'[s]
      /\ \A t \in Slot : t # s => in_cmd'[t] = in_cmd[t]
  BY <1>1 DEF ServerTypeOK
<1>6. /\ fds' \in [FD -> Files] /\ left' \in [Slot -> {0, 1}] /\ unread' \in [FD -> Nat]
      /\ \A g \in FD : g # u => fds'[g] = fds[g]
  BY <1>1 DEF ServerTypeOK, Free, File, Files
<1>7. ServerTypeOK'
  BY <1>1, <1>3, <1>4, <1>5, <1>6, SMTT(60) DEF ServerTypeOK
<1>8. /\ Used' = Used /\ Streaming' = Streaming /\ Uploading' = Uploading \ {s}
      /\ \A t \in Streaming : t \in Used /\ t # s
  BY <1>1, <1>2, <1>5 DEF Used, Streaming, Uploading
<1>9. ActiveSetExact' /\ StreamsLast'
  <2>1. ActiveSetExact'
    BY <1>1, <1>8 DEF IInv, Tables, ActiveSetExact
  <2>2. StreamsLast'
    BY <1>1, <1>5, <1>8 DEF IInv, Tables, StreamsLast, Used
  <2>3. QED
    BY <2>1, <2>2
<1>10. /\ u # ServerSocket
       /\ \A t \in Used : socket_fd[t] # u
       /\ \A t \in Streaming : file_to_stream[t] # u
       /\ \A t \in Uploading : t # s => upload_file_fd[t] # u
  <2>1. DescriptorsOwned /\ 0 \notin FD
    BY DEF IInv, Tables, FD, ServerSocket
  <2>2. CASE u = 0
    BY <1>1, <2>1, <2>2, NamesOpen DEF ServerSocket
  <2>3. CASE u # 0
    <3>1. s \in Uploading
      BY <1>2, <2>3
    <3>2. u # ServerSocket /\ \A t \in Streaming : t \in Used
      BY <1>1, <2>1, <3>1, NamesOpen
    <3>3. QED
      BY <3>1, <3>2, NamesDistinct
  <2>4. QED
    BY <2>2, <2>3
<1>11. DescriptorsOwned' /\ \A t \in Used' : Owner(t)' = Owner(t)
  <2>1. fds'[ServerSocket] = fds[ServerSocket]
    BY <1>6, <1>10, FDAssumption DEF FD, ServerSocket
  <2>2. \A t \in Used' : fds'[socket_fd[t]] = fds[socket_fd[t]]
    BY <1>1, <1>6, <1>8, <1>10, NamesOpen DEF IInv, Tables
  <2>3. \A t \in Streaming' : t \in Used' /\ fds'[file_to_stream'[t]] = File("device", Owner(t))
    BY <1>1, <1>6, <1>8, <1>10, NamesOpen DEF IInv, Tables, DescriptorsOwned
  <2>4. \A t \in Uploading' : t \in Used' /\ fds'[upload_file_fd'[t]] = File("upload", Owner(t))
    BY <1>1, <1>6, <1>8, <1>10, NamesOpen DEF IInv, Tables, DescriptorsOwned
  <2>5. QED
    BY <1>1, <1>8, <2>1, <2>2, <2>3, <2>4, StillOwned
<1>12. BacklogFresh'
  BY <1>1, <1>3, <1>8, <1>11, BacklogKept
<1>13. LeaksKnown'
  <2>1. u \in FD => fds'[u] = Free
    BY <1>1
  <2>2. ASSUME NEW g \in FD \ active_set'
        PROVE  Accounted(g)' \/ (g \notin active_set /\ fds'[g] = fds[g])
    BY <1>1, <1>6, <2>1, <2>2 DEF Accounted
  <2>3. ASSUME NEW g \in FD, NEW t \in Uploading, upload_file_fd[t] = g PROVE Accounted(g)'
    <3>1. CASE t = s
      BY <2>1, <2>3, <3>1 DEF Accounted
    <3>2. CASE t # s
      BY <1>1, <1>8, <2>3, <3>2 DEF Accounted
    <3>3. QED
      BY <3>1, <3>2
  <2>4. QED
    BY <1>1, <2>2, <2>3, LeaksStay
<1>14. PayloadsFollow' /\ PayloadsAwaited'
  <2> DEFINE q == inbox[Owner(s)]
             p == inbox'[Owner(s)]
  <2>1. /\ \A t \in Used \ {s} : /\ in_cmd'[t] = in_cmd[t] /\ current_cmd'[t] = current_cmd[t]
                                 /\ left'[t] = left[t] /\ upload_file_fd'[t] = upload_file_fd[t]
        /\ left'[s] = 0 /\ left[s] \in {0, 1}
        /\ \A t \in Used : Owner(t)' = Owner(t)
    BY <1>1, <1>2, <1>5, <1>8, <1>11 DEF ServerTypeOK, Used
  <2>2. /\ \A c \in Conns : c # Owner(s) => inbox'[c] = inbox[c]
        /\ left[s] = 0 => p = q
        /\ left[s] # 0 => p = Tail(q)
    BY <1>1, <1>2 DEF FinishUpload, ServerTypeOK
  <2>3. /\ q # <<>> /\ Paired(q) /\ (q[Len(q)] = "put" => ~Coming(Owner(s)))
        /\ \A i \in 1..Len(q) : q[i] # "unknown"
        /\ Expecting(s) /\ Expected(s)
    BY <1>1, <1>2 DEF IInv, PayloadsFollow, PayloadsAwaited
  <2>4. q \in Seq({"command", "get", "stream", "put", "empty", "unknown", "payload"})
    BY <1>2 DEF IInv, Tables, ServerTypeOK
  <2>5. /\ Paired(p) /\ (p # <<>> /\ p[Len(p)] = "put" => ~Coming(Owner(s)))
        /\ \A i \in 1..Len(p) : p[i] # "unknown"
        /\ p # <<>> /\ p[1] = "payload" => u = 0
    <3>1. CASE left[s] = 0
      BY <2>2, <2>3, <3>1 DEF Expected
    <3>2. CASE left[s] = 1
      <4>1. q[1] = "payload"
        BY <1>1, <2>3, <3>2 DEF Expecting
      <4>2. /\ Paired(Tail(q))
            /\ Tail(q) # <<>> => /\ Tail(q)[1] = "payload" <=> q[1] = "put"
                                 /\ Tail(q)[Len(Tail(q))] = q[Len(q)]
            /\ \A i \in 1..Len(Tail(q)) : \E j \in 1..Len(q) : Tail(q)[i] = q[j]
        <5> HIDE DEF q
        <5>1. QED
          BY <2>3, <2>4, PairedTail
      <4>3. p = Tail(q)
        BY <2>2, <3>2
      <4> HIDE DEF p, q
      <4>4. QED
        BY <2>3, <4>1, <4>2, <4>3
    <3>3. QED
      BY <2>1, <3>1, <3>2
  <2>6. Expecting(s)' /\ Expected(s)'
    BY <1>1, <1>2, <1>5, <2>1, <2>5 DEF Expecting, Expected
  <2>7. \A d \in Conns : Coming(d)' => Coming(d)
    BY <1>1 DEF Coming
  <2>8. QED
    <3> HIDE DEF q
    <3>1. QED
      BY <1>2, <1>8, <2>1, <2>2, <2>5, <2>6, <2>7, OthersKept
<1>15. QED
  BY <1>1, <1>7, <1>9, <1>11, <1>12, <1>13, <1>14 DEF IInv, Tables, Isolation

-----------------------------------------------------------------------------
(* Theorems.                                                               *)

\* Every step of the server keeps the invariant.
LEMMA ServerKeeps == IInv /\ ServerStep => IInv'
<1> SUFFICES ASSUME IInv, ServerStep PROVE IInv'
  OBVIOUS
<1>1. ASSUME NEW f \in FD, NobodysData(f) PROVE IInv'
  BY <1>1, EndStep DEF NobodysData
<1>2. ASSUME NEW f \in FD, NEW s \in Slot, Hang(s, f) PROVE IInv'
  BY <1>2, EndStep DEF Hang
<1>3. ASSUME NEW f \in FD, ClientData(f) PROVE IInv'
  <2>1. PICK s \in Slot :
          \/ Disconnect(s, f) \/ Command(s, f) \/ GetFile(s, f) \/ Stream(s, f)
          \/ Put(s, f, "put", 1) \/ Put(s, f, "empty", 0) \/ Unknown(s, f)
          \/ FinishUpload(s, f) \/ Hang(s, f)
    BY <1>3 DEF ClientData
  <2>2. CASE Put(s, f, "put", 1) \/ Put(s, f, "empty", 0)
    BY <2>2, PutStep
  <2>3. QED
    BY <1>2, <2>1, <2>2, DisconnectStep, CommandStep, GetFileStep, StreamStep, UnknownStep,
       FinishUploadStep
<1>4. QED
  BY <1>1, <1>3, SelectStep, AcceptStep, StreamDataStep, StreamEndsStep DEF ServerStep

\* Nothing changes when nothing happens.
LEMMA StutterStep ==
  ASSUME IInv, UNCHANGED vars
  PROVE  IInv'
<1>1. UNCHANGED <<status, scanning, ready, calling, active_set, fds, unread, slotVars,
                  backlog, conn, inbox, sent, full, got>>
  BY DEF vars, loopVars, kernelVars, netVars
<1>2. calling' \in BOOLEAN /\ status' \in {"up", "exited", "crashed", "killed", "hung"}
  BY <1>1 DEF IInv, Tables, ServerTypeOK
<1>3. QED
  BY <1>1, <1>2, StaysType, QuietType, LoopStep

\* The invariant holds in every state the server reaches.
LEMMA InvariantHolds == ASSUME "unknown" \notin Requests PROVE Spec => []IInv
<1>1. IInv /\ [Next]_vars => IInv'
  BY EnvironmentStep, ServerKeeps, CallStep, StutterStep DEF Next
<1>2. QED
  BY InitInv, <1>1, PTL DEF Spec

\* Every variable keeps its type: in particular every descriptor named by a
\* slot or watched by select() is one the process may have.
THEOREM ServerTypeCorrect ==
  ASSUME "unknown" \notin Requests PROVE Spec => []ServerTypeOK
<1>1. IInv => ServerTypeOK
  BY DEF IInv, Tables
<1>2. QED
  BY <1>1, InvariantHolds, PTL

\* select() always watches the listening socket, the clients' sockets and
\* the files they stream, and never a descriptor that was closed.
THEOREM WatchesWhatIsNamed ==
  ASSUME "unknown" \notin Requests PROVE Spec => []ActiveSetExact
<1>1. IInv => ActiveSetExact
  BY DEF IInv, Tables
<1>2. QED
  BY <1>1, InvariantHolds, PTL

\* However descriptors are closed and reused, what a slot names is open and
\* is its own client's.
THEOREM NamesAreOwned ==
  ASSUME "unknown" \notin Requests PROVE Spec => []DescriptorsOwned
<1>1. IInv => DescriptorsOwned
  BY DEF IInv, Tables
<1>2. QED
  BY <1>1, InvariantHolds, PTL

\* No client ever gets data of a file another one asked to stream.
THEOREM ClientsAreIsolated ==
  ASSUME "unknown" \notin Requests PROVE Spec => []Isolation
<1>1. IInv => Isolation
  BY DEF IInv, Tables
<1>2. QED
  BY <1>1, InvariantHolds, PTL

\* Out of the set and open are only the descriptors of uploads that go on, of
\* uploads whose client was disconnected, and of files GET_FILE could not stat().
THEOREM LeaksAreKnown ==
  ASSUME "unknown" \notin Requests PROVE Spec => []LeaksKnown
<1>1. IInv => LeaksKnown
  BY DEF IInv, Tables
<1>2. QED
  BY <1>1, InvariantHolds, PTL

-----------------------------------------------------------------------------
(* The descriptors it needs: the inductive invariant.                      *)

\* Nobody's upload stays open: the slot that began it still waits for it.
UploadsNamed ==
  \A f \in FD : fds[f].kind = "upload" => \E s \in Uploading : upload_file_fd[s] = f

\* What an upload waits for has arrived with the line that announced it, so
\* the end of the connection is not read before the upload's end.
UploadsFed == \A s \in Uploading : inbox[Owner(s)] # <<>>

\* On the way to the server no payload is missing and no upload is empty.
WholeRequests ==
  \A c \in Conns :
    /\ inbox[c] # <<>> => inbox[c][Len(inbox[c])] # "put"
    /\ \A i \in 1..Len(inbox[c]) : inbox[c][i] # "empty"

Finished == UploadsNamed /\ UploadsFed /\ WholeRequests

CInv == IInv /\ Finished /\ NeverExits

-----------------------------------------------------------------------------
(* Descriptors are enough.                                                 *)

\* A slot's second descriptor: a client that streams uploads nothing.
Second(s) == IF s \in Streaming THEN file_to_stream[s] ELSE upload_file_fd[s]

\* Where the table keeps the number f: k is a slot, for its socket, or
\* MaxClient more than one, for its other descriptor.
Kept(k, f) ==
  IF k <= MaxClient THEN socket_fd[k] = f ELSE Second(k - MaxClient) = f

\* Every descriptor in use but the listening socket is kept somewhere.
LEMMA UsedIsKept ==
  ASSUME IInv, UploadsNamed, ~BadFiles, NEW f \in FD, f # ServerSocket, fds[f] # Free
  PROVE  \E k \in 1..(2 * MaxClient) : Kept(k, f)
<1>1. MaxClient \in Nat /\ MaxClient > 0 /\ \A s \in Slot : s \in 1..MaxClient
  BY SlotsAssumption DEF Slot
<1>2. CASE \E s \in Used : socket_fd[s] = f
  BY <1>1, <1>2 DEF Used, Kept
<1>3. ASSUME NEW s \in Slot, Second(s) = f
      PROVE  \E k \in 1..(2 * MaxClient) : Kept(k, f)
  <2>1. s + MaxClient \in 1..(2 * MaxClient) /\ ~(s + MaxClient <= MaxClient)
        /\ (s + MaxClient) - MaxClient = s
    BY <1>1
  <2>2. Kept(s + MaxClient, f)
    BY <1>3, <2>1 DEF Kept
  <2>3. QED
    BY <2>1, <2>2
<1>4. CASE \E s \in Streaming : file_to_stream[s] = f
  BY <1>3, <1>4 DEF Streaming, Used, Second
<1>5. CASE f \notin active_set
  <2>1. PICK s \in Uploading : upload_file_fd[s] = f
    <3>1. Accounted(f)
      BY <1>5 DEF IInv, Tables, LeaksKnown
    <3>2. (\E s \in Uploading : upload_file_fd[s] = f) \/ \E c \in Conns : fds[f] = File("upload", c)
      BY <3>1, Zenon DEF Accounted
    <3>3. \A c : File("upload", c).kind = "upload"
      BY DEF File
    <3>4. QED
      BY <3>2, <3>3, Zenon DEF UploadsNamed
  <2>2. s \in Slot /\ s \notin Streaming
    BY DEF IInv, Tables, StreamsLast, Uploading, Used
  <2>3. QED
    BY <1>3, <2>1, <2>2 DEF Second
<1>6. QED
  BY <1>2, <1>4, <1>5 DEF IInv, Tables, ActiveSetExact

\* So there is one that the kernel can hand out.
LEMMA OneIsFree ==
  ASSUME IInv, UploadsNamed, ~BadFiles, MaxFD - ServerSocket > 2 * MaxClient
  PROVE  ~NoneFree
<1> DEFINE S == (ServerSocket + 1)..MaxFD
           T == 1..(2 * MaxClient)
           keep == [f \in S |-> CHOOSE k \in T : Kept(k, f)]
<1>1. MaxClient \in Nat /\ MaxFD \in Nat /\ \A f \in S : f \in FD /\ f # ServerSocket
  BY SlotsAssumption, FDAssumption DEF FD, ServerSocket
<1>2. SUFFICES ASSUME NoneFree PROVE FALSE
  OBVIOUS
<1>3. \A f \in S : \E k \in T : Kept(k, f)
  BY <1>1, <1>2, UsedIsKept DEF NoneFree
<1>4. /\ keep \in [S -> T]
      /\ \A f \in S : Kept(keep[f], f)
  BY <1>3
<1>5. /\ IsFiniteSet(S) /\ IsFiniteSet(T)
      /\ Cardinality(S) = MaxFD - ServerSocket /\ Cardinality(T) = 2 * MaxClient
  <2>1. /\ IsFiniteSet(S)
        /\ Cardinality(S) = IF ServerSocket + 1 > MaxFD THEN 0 ELSE MaxFD - (ServerSocket + 1) + 1
    <3>1. ServerSocket + 1 \in Int /\ MaxFD \in Int
      BY <1>1 DEF ServerSocket
    <3>2. QED
      BY <3>1, FS_Interval
  <2>2. /\ IsFiniteSet(T)
        /\ Cardinality(T) = IF 1 > 2 * MaxClient THEN 0 ELSE 2 * MaxClient - 1 + 1
    <3>1. 1 \in Int /\ 2 * MaxClient \in Int
      BY <1>1
    <3>2. QED
      BY <3>1, FS_Interval
  <2>3. QED
    BY <1>1, <2>1, <2>2, FDAssumption DEF ServerSocket
<1>6. Cardinality(T) < Cardinality(S)
  BY <1>1, <1>5 DEF ServerSocket
<1> HIDE DEF S, T, keep
<1>7. PICK f, g \in S : f # g /\ keep[f] = keep[g]
  BY <1>4, <1>5, <1>6, FS_PigeonHole
<1>8. QED
  BY <1>4, <1>7 DEF Kept

-----------------------------------------------------------------------------
(* Uploads are finished.                                                   *)

\* Clients that finish what they begin, on a network that lets them, with files
\* that can be opened.
Finishing ==
  /\ Requests \subseteq {"command", "get", "stream", "put"}
  /\ ~CutUploads /\ ~Resets /\ ~BadFiles

\* Steps that begin no upload and end none.
LEMMA UploadsKept ==
  ASSUME IInv, Finished, Uploading' = Uploading,
         \A t \in Uploading : /\ upload_file_fd'[t] = upload_file_fd[t]
                              /\ Owner(t)' = Owner(t) /\ inbox'[Owner(t)] # <<>>,
         \A g \in FD : fds'[g].kind = "upload" => fds[g].kind = "upload"
  PROVE  UploadsNamed' /\ UploadsFed'
BY DEF Finished, UploadsNamed, UploadsFed

\* Steps that read nothing.
LEMMA FinishedKept ==
  ASSUME IInv, Finished, Uploading' = Uploading, UNCHANGED inbox,
         \A t \in Uploading : upload_file_fd'[t] = upload_file_fd[t] /\ Owner(t)' = Owner(t),
         \A g \in FD : fds'[g].kind = "upload" => fds[g].kind = "upload"
  PROVE  Finished'
<1>1. UploadsNamed' /\ UploadsFed'
  BY UploadsKept DEF Finished, UploadsFed
<1>2. WholeRequests'
  BY DEF Finished, WholeRequests
<1>3. QED
  BY <1>1, <1>2 DEF Finished

\* Reading what comes next leaves whole requests, and of an upload's line
\* leaves the payload.
LEMMA ReadWhole ==
  ASSUME IInv, WholeRequests, NEW c \in Conns, inbox[c] # <<>>,
         inbox' = [inbox EXCEPT ![c] = Tail(@)]
  PROVE  /\ WholeRequests'
         /\ Head(inbox[c]) # "empty"
         /\ Head(inbox[c]) = "put" => inbox'[c] # <<>>
         /\ \A d \in Conns : d # c => inbox'[d] = inbox[d]
<1> DEFINE Kinds == {"command", "get", "stream", "put", "empty", "unknown", "payload"}
           q == inbox[c]
           p == Tail(q)
<1>1. q \in Seq(Kinds) /\ inbox \in [Conns -> Seq(Kinds)] /\ Paired(q)
  BY DEF IInv, Tables, ServerTypeOK, PayloadsFollow
<1>2. /\ inbox'[c] = p /\ \A d \in Conns : d # c => inbox'[d] = inbox[d]
  BY <1>1
<1>3. /\ q[Len(q)] # "put" /\ \A i \in 1..Len(q) : q[i] # "empty"
      /\ Len(q) \in Nat /\ Len(q) > 0
  BY <1>1, LenProperties, EmptySeq DEF WholeRequests
<1> HIDE DEF Kinds, q
<1>4. /\ Head(q) = q[1]
      /\ p # <<>> => p[Len(p)] = q[Len(q)]
      /\ p = <<>> => q[Len(q)] = q[1]
      /\ \A i \in 1..Len(p) : \E j \in 1..Len(q) : p[i] = q[j]
  BY <1>1, <1>3, PairedTail DEF q
<1> HIDE DEF p
<1>5. ASSUME NEW d \in Conns
      PROVE  /\ inbox'[d] # <<>> => inbox'[d][Len(inbox'[d])] # "put"
             /\ \A i \in 1..Len(inbox'[d]) : inbox'[d][i] # "empty"
  <2>1. CASE d = c
    <3>1. p # <<>> => p[Len(p)] # "put"
      BY <1>3, <1>4
    <3>2. \A i \in 1..Len(p) : p[i] # "empty"
      BY <1>3, <1>4
    <3>3. QED
      BY <1>2, <2>1, <3>1, <3>2
  <2>2. CASE d # c
    BY <1>2, <2>2 DEF WholeRequests
  <2>3. QED
    BY <2>1, <2>2
<1>6. WholeRequests'
  BY <1>5 DEF WholeRequests
<1>7. Head(q) # "empty" /\ (Head(q) = "put" => p # <<>>)
  BY <1>3, <1>4
<1>8. QED
  BY <1>2, <1>6, <1>7 DEF q

\* A line that begins no upload.
LEMMA LineFinished ==
  ASSUME IInv, Finished, NEW s \in Slot, NEW f \in FD, NEW r, Line(s, f, r),
         Uploading' = Uploading,
         \A t \in Uploading : upload_file_fd'[t] = upload_file_fd[t],
         \A t \in Used : fds'[socket_fd[t]] = fds[socket_fd[t]],
         \A g \in FD : fds'[g].kind = "upload" => fds[g].kind = "upload"
  PROVE  Finished'
<1>1. /\ s \in Used /\ s \notin Uploading /\ Client(f) = Owner(s) /\ Owner(s) \in Conns
      /\ UNCHANGED socket_fd
  BY LineType
<1>2. inbox[Owner(s)] # <<>> /\ inbox' = [inbox EXCEPT ![Owner(s)] = Tail(@)]
  BY <1>1 DEF Line
<1>3. WholeRequests' /\ \A d \in Conns : d # Owner(s) => inbox'[d] = inbox[d]
  BY <1>1, <1>2, ReadWhole DEF Finished
<1>4. ASSUME NEW t \in Uploading
      PROVE  Owner(t)' = Owner(t) /\ inbox'[Owner(t)] # <<>>
  <2>1. t \in Used /\ t # s
    BY <1>1 DEF Uploading
  <2>2. Owner(t) \in Conns /\ Owner(t) # Owner(s)
    BY <1>1, <2>1 DEF IInv, Tables, DescriptorsOwned
  <2>3. Owner(t)' = Owner(t)
    BY <1>1, <2>1 DEF Owner
  <2>4. QED
    BY <1>3, <2>2, <2>3 DEF Finished, UploadsFed
<1>5. QED
  BY <1>3, <1>4, UploadsKept DEF Finished

\* What clients send is whole, and nothing that was sent is lost.
LEMMA EnvironmentFinishes ==
  ASSUME CInv, Finishing, Environment
  PROVE  Finished' /\ NeverExits'
<1> DEFINE Kinds == {"command", "get", "stream", "put", "empty", "unknown", "payload"}
<1>0. IInv /\ Finished /\ NeverExits /\ inbox \in [Conns -> Seq(Kinds)]
  BY DEF CInv, IInv, Tables, ServerTypeOK
<1>1. ServerUnchanged => /\ Uploading' = Uploading /\ UNCHANGED <<status, fds, upload_file_fd>>
                         /\ \A t \in Slot : Owner(t)' = Owner(t)
  BY DEF ServerUnchanged, slotVars, Uploading, Used, Owner
<1>2. ServerUnchanged /\ UNCHANGED inbox => Finished'
  BY <1>0, <1>1, FinishedKept DEF Uploading, Used
<1>3. ASSUME NEW c \in Conns, NEW r \in Requests, Send(c, r)
      PROVE  Finished' /\ ServerUnchanged
  <2> DEFINE m == IF r = "put" THEN <<"put", "payload">> ELSE <<r>>
             q == inbox[c]
  <2>1. ServerUnchanged /\ inbox' = [inbox EXCEPT ![c] = q \o m]
    BY <1>3 DEF Send
  <2>2. r \in {"command", "get", "stream", "put"}
    BY DEF Finishing
  <2>3. /\ m \in Seq(Kinds) /\ Len(m) > 0 /\ m[Len(m)] # "put"
        /\ \A i \in 1..Len(m) : m[i] # "empty"
    <3>1. CASE r = "put"
      BY <3>1
    <3>2. CASE r # "put"
      BY <2>2, <3>2
    <3>3. QED
      BY <3>1, <3>2
  <2>4. q \in Seq(Kinds) /\ \A i \in 1..Len(q) : q[i] # "empty"
    BY <1>0 DEF Finished, WholeRequests
  <2> HIDE DEF m, q, Kinds
  <2>5. /\ Len(q \o m) = Len(q) + Len(m) /\ Len(q) \in Nat /\ Len(m) \in Nat
        /\ \A i \in 1..(Len(q) + Len(m)) : (q \o m)[i] = IF i <= Len(q) THEN q[i] ELSE m[i - Len(q)]
    BY <2>3, <2>4, ConcatProperties, LenProperties
  <2>6. /\ (q \o m)[Len(q \o m)] # "put" /\ q \o m # <<>>
        /\ \A i \in 1..Len(q \o m) : (q \o m)[i] # "empty"
    BY <2>3, <2>4, <2>5
  <2>7. inbox'[c] = q \o m /\ \A d \in Conns : d # c => inbox'[d] = inbox[d]
    BY <1>0, <2>1
  <2>8. WholeRequests'
    <3>1. SUFFICES ASSUME NEW d \in Conns
                   PROVE  /\ inbox'[d] # <<>> => inbox'[d][Len(inbox'[d])] # "put"
                          /\ \A i \in 1..Len(inbox'[d]) : inbox'[d][i] # "empty"
      BY DEF WholeRequests
    <3>2. CASE d = c
      BY <2>6, <2>7, <3>2
    <3>3. CASE d # c
      BY <1>0, <2>7, <3>3 DEF Finished, WholeRequests
    <3>4. QED
      BY <3>2, <3>3
  <2>9. ASSUME NEW t \in Uploading PROVE Owner(t)' = Owner(t) /\ inbox'[Owner(t)] # <<>>
    <3>1. t \in Used /\ t \in Slot
      BY DEF Uploading, Used
    <3>2. Owner(t) \in Conns /\ inbox[Owner(t)] # <<>>
      BY <1>0, <3>1 DEF IInv, Tables, DescriptorsOwned, Finished, UploadsFed
    <3>3. QED
      BY <1>1, <2>1, <2>6, <2>7, <3>1, <3>2
  <2>10. UploadsNamed' /\ UploadsFed'
    BY <1>0, <1>1, <2>1, <2>9, UploadsKept
  <2>11. QED
    BY <2>1, <2>8, <2>10 DEF Finished
<1>4. ASSUME NEW c \in Conns, Connect(c) \/ SendCut(c) \/ Close(c) \/ Reset(c) \/ Take(c)
      PROVE  Finished' /\ ServerUnchanged
  BY <1>2, <1>4 DEF Connect, SendCut, Close, Reset, Take, Finishing
<1>5. ASSUME NEW f \in FD, DeviceEvent(f)
      PROVE  Finished' /\ ServerUnchanged
  BY <1>2, <1>5 DEF DeviceEvent, netVars
<1>6. Finished' /\ ServerUnchanged
  BY <1>3, <1>4, <1>5 DEF Environment
<1>7. QED
  BY <1>0, <1>1, <1>6 DEF NeverExits

\* select() is never given a descriptor that is not open.
LEMMA SelectFinishes ==
  ASSUME CInv, Select
  PROVE  Finished' /\ NeverExits'
<1>1. IInv /\ Finished /\ NeverExits
  BY DEF CInv
<1>2. ~BadSet
  BY <1>1, FreeIsNobodys DEF BadSet, IInv, Tables, ServerTypeOK
<1>3. UNCHANGED <<status, inbox, fds, slotVars>>
  BY <1>2 DEF Select, kernelVars, netVars
<1>4. Uploading' = Uploading /\ \A t \in Uploading : Owner(t)' = Owner(t)
  BY <1>3 DEF slotVars, Uploading, Used, Owner
<1>5. QED
  BY <1>1, <1>3, <1>4, FinishedKept DEF NeverExits, slotVars

\* accept() finds a descriptor.
LEMMA AcceptFinishes ==
  ASSUME CInv, ~NoneFree, Accept
  PROVE  Finished' /\ NeverExits'
<1>1. IInv /\ Finished /\ NeverExits /\ ServerTypeOK /\ UNCHANGED <<status, inbox>>
  BY DEF CInv, IInv, Tables, Accept
<1>2. CASE UNCHANGED <<fds, slotVars>>
  <2>1. Uploading' = Uploading /\ \A t \in Uploading : Owner(t)' = Owner(t)
    BY <1>2 DEF slotVars, Uploading, Used, Owner
  <2>2. QED
    BY <1>1, <1>2, <2>1, FinishedKept DEF NeverExits, slotVars
<1>3. ASSUME NEW s \in Slot, NEW f \in FD, Lowest(f), AddToClients(s, f),
             fds' = [fds EXCEPT ![f] = File("socket", Head(backlog))]
      PROVE  Finished' /\ NeverExits'
  <2>1. s \notin Used /\ fds[f] = Free
    BY <1>3 DEF FirstFree, AddToClients, Used, Lowest
  <2>2. /\ \A t \in Slot : t # s => /\ socket_fd'[t] = socket_fd[t]
                                    /\ upload_file_fd'[t] = upload_file_fd[t]
                                    /\ in_cmd'[t] = in_cmd[t] /\ current_cmd'[t] = current_cmd[t]
        /\ upload_file_fd'[s] = 0
    BY <1>1, <1>3 DEF AddToClients, ServerTypeOK
  <2>3. Uploading' = Uploading /\ \A t \in Uploading : t \in Used /\ t \in Slot /\ t # s
    BY <2>1, <2>2 DEF Uploading, Used
  <2>4. \A g \in FD : fds'[g].kind = "upload" => fds[g].kind = "upload"
    BY <1>1, <1>3 DEF ServerTypeOK, File
  <2>5. \A t \in Used : socket_fd[t] \in FD /\ socket_fd[t] # f
    BY <1>1, <2>1, NamesOpen, FreeIsNobodys DEF IInv, Tables
  <2>6. \A t \in Uploading : Owner(t)' = Owner(t)
    BY <1>1, <1>3, <2>2, <2>3, <2>5 DEF Owner, ServerTypeOK
  <2>7. QED
    BY <1>1, <2>2, <2>3, <2>4, <2>6, FinishedKept DEF NeverExits
<1>4. QED
  BY <1>2, <1>3 DEF Accept, Refuse

\* Copying streamed data, and the ways the process ends there, leave the table
\* and what clients sent alone.
LEMMA IdleFinishes ==
  ASSUME CInv, UNCHANGED <<fds, slotVars, inbox>>, status' # "exited"
  PROVE  Finished' /\ NeverExits'
<1>1. Uploading' = Uploading /\ \A t \in Uploading : Owner(t)' = Owner(t)
  BY DEF slotVars, Uploading, Used, Owner
<1>2. QED
  BY <1>1, FinishedKept DEF CInv, NeverExits, slotVars

\* The end of a connection is read only when none of its uploads goes on.
LEMMA DisconnectFinishes ==
  ASSUME CInv, NEW s \in Slot, NEW f \in FD, Disconnect(s, f)
  PROVE  Finished' /\ NeverExits'
<1>1. /\ IInv /\ Finished /\ NeverExits /\ ServerTypeOK
      /\ AtClient(s, f) /\ Forget(s, f)
      /\ UNCHANGED <<status, upload_file_fd, in_cmd, current_cmd, inbox>>
  BY DEF CInv, IInv, Tables, Disconnect, ReachedClient
<1>2. /\ s \in Used /\ socket_fd[s] = f /\ Client(f) = Owner(s) /\ f \in FD
      /\ inbox[Owner(s)] = <<>>
  BY <1>1, AtClientType DEF Disconnect
<1>3. s \notin Uploading
  BY <1>1, <1>2 DEF Finished, UploadsFed
<1> DEFINE gone == {f, file_to_stream[s]}
<1>4. /\ fds' = [g \in FD |-> IF g \in gone THEN Free ELSE fds[g]]
      /\ socket_fd' = [socket_fd EXCEPT ![s] = 0]
  BY <1>1 DEF Forget
<1>5. \A t \in Slot : t # s => socket_fd'[t] = socket_fd[t]
  BY <1>1, <1>4 DEF ServerTypeOK
<1>6. Uploading' = Uploading /\ \A t \in Uploading : t \in Used /\ t \in Slot /\ t # s
  BY <1>1, <1>3, <1>4, <1>5 DEF Uploading, Used, ServerTypeOK
<1>7. \A g \in FD : fds'[g].kind = "upload" => fds[g].kind = "upload"
  BY <1>4 DEF Free, File
<1>8. file_to_stream[s] \in FD => s \in Streaming
  BY <1>2 DEF Streaming, FD, ServerSocket
<1>9. \A t \in Uploading : socket_fd[t] \in FD \ gone
  BY <1>1, <1>2, <1>6, <1>8, NamesOpen, NamesDistinct DEF IInv, Tables
<1>10. \A t \in Uploading : Owner(t)' = Owner(t)
  BY <1>4, <1>5, <1>6, <1>9 DEF Owner
<1>11. QED
  BY <1>1, <1>6, <1>7, <1>10, FinishedKept DEF NeverExits

\* A line that begins no upload leaves the others', and open() finds a
\* descriptor for what it streams.
LEMMA LineFinishes ==
  ASSUME CInv, ~NoneFree, ~BadFiles, NEW s \in Slot, NEW f \in FD,
         Command(s, f) \/ GetFile(s, f) \/ Stream(s, f) \/ Unknown(s, f)
  PROVE  Finished' /\ NeverExits'
<1>1. IInv /\ Finished /\ NeverExits /\ ServerTypeOK /\ UNCHANGED upload_file_fd
  BY DEF CInv, IInv, Tables, Command, GetFile, Stream, Unknown
<1>2. PICK r : Line(s, f, r) /\ r \in {"command", "get", "stream", "unknown", "payload"}
  BY DEF Command, GetFile, Stream, Unknown
<1>3. /\ s \in Used /\ s \notin Uploading /\ ~in_cmd[s] /\ UNCHANGED socket_fd
      /\ Client(f) = Owner(s) /\ Owner(s) \in Conns
  BY <1>1, <1>2, LineType
<1>4. upload_file_fd[s] = 0 \/ current_cmd'[s] # "put" \/ ~in_cmd'[s]
  <2>1. CASE Command(s, f)
    BY <1>1, <1>3, <2>1 DEF Command, ServerTypeOK
  <2>2. CASE GetFile(s, f)
    BY <1>1, <1>3, <2>2 DEF GetFile, ServerTypeOK
  <2>3. CASE Stream(s, f)
    BY <1>1, <2>3 DEF Stream, ServerTypeOK
  <2>4. CASE Unknown(s, f)
    <3>1. PICK u \in {"unknown", "payload"} : Line(s, f, u)
      BY <2>4 DEF Unknown
    <3>2. /\ inbox[Owner(s)] # <<>> /\ inbox[Owner(s)][1] = u
          /\ 1 \in 1..Len(inbox[Owner(s)])
      <4>1. /\ inbox[Owner(s)] # <<>> /\ Head(inbox[Owner(s)]) = u
            /\ inbox[Owner(s)] \in Seq({"command", "get", "stream", "put", "empty", "unknown", "payload"})
        BY <1>1, <1>3, <3>1 DEF Line, ServerTypeOK
      <4>2. QED
        BY <4>1, HeadTailProperties, LenProperties, EmptySeq
    <3>3. u = "payload"
      BY <1>1, <1>3, <3>2 DEF IInv, PayloadsFollow
    <3>4. Expected(s)
      BY <1>1, <1>3 DEF IInv, PayloadsAwaited
    <3>5. QED
      BY <1>3, <3>2, <3>3, <3>4 DEF Expected
  <2>5. QED
    BY <2>1, <2>2, <2>3, <2>4
<1>5. \A t \in Slot : t # s => in_cmd'[t] = in_cmd[t] /\ current_cmd'[t] = current_cmd[t]
  BY <1>1 DEF ServerTypeOK, Command, GetFile, Stream, Unknown
<1>6. Uploading' = Uploading
  BY <1>1, <1>3, <1>4, <1>5 DEF Uploading, Used
<1>7. \/ UNCHANGED fds
      \/ \E g \in FD : Lowest(g) /\ fds' = [fds EXCEPT ![g] = File("device", Client(f))]
  BY DEF Command, GetFile, Stream, Unknown, kernelVars
<1>8. /\ \A t \in Used : fds'[socket_fd[t]] = fds[socket_fd[t]]
      /\ \A g \in FD : fds'[g].kind = "upload" => fds[g].kind = "upload"
  <2>1. CASE UNCHANGED fds
    BY <2>1
  <2>2. ASSUME NEW g \in FD, Lowest(g), fds' = [fds EXCEPT ![g] = File("device", Client(f))]
        PROVE  /\ \A t \in Used : fds'[socket_fd[t]] = fds[socket_fd[t]]
               /\ \A h \in FD : fds'[h].kind = "upload" => fds[h].kind = "upload"
    <3>1. \A t \in Used : socket_fd[t] \in FD /\ socket_fd[t] # g
      BY <1>1, <2>2, NamesOpen, FreeIsNobodys DEF Lowest, IInv, Tables
    <3>2. QED
      BY <1>1, <2>2, <3>1 DEF ServerTypeOK, File
  <2>3. QED
    BY <1>7, <2>1, <2>2
<1>9. Finished'
  BY <1>1, <1>2, <1>6, <1>8, LineFinished
<1>10. status' # "exited"
  BY <1>1 DEF Command, GetFile, Stream, Unknown, Write, OpenFails, NeverExits
<1>11. QED
  BY <1>9, <1>10 DEF NeverExits

\* An upload that begins is named by its slot, and its payload is there.
LEMMA PutFinishes ==
  ASSUME CInv, ~NoneFree, ~BadFiles, NEW s \in Slot, NEW f \in FD, NEW r \in {"put", "empty"},
         NEW pieces, Put(s, f, r, pieces)
  PROVE  Finished' /\ NeverExits'
<1>1. /\ IInv /\ Finished /\ NeverExits /\ ServerTypeOK /\ Line(s, f, r)
      /\ current_cmd' = [current_cmd EXCEPT ![s] = "put"]
      /\ in_cmd' = [in_cmd EXCEPT ![s] = TRUE] /\ UNCHANGED status
  BY DEF CInv, IInv, Tables, Put
<1>2. PICK g \in FD : /\ Lowest(g)
                      /\ fds' = [fds EXCEPT ![g] = File("upload", Client(f))]
                      /\ upload_file_fd' = [upload_file_fd EXCEPT ![s] = g]
  BY DEF Put, OpenFails
<1>3. /\ s \in Used /\ s \in Slot /\ s \notin Uploading /\ UNCHANGED socket_fd
      /\ Client(f) = Owner(s) /\ Owner(s) \in Conns
  BY <1>1, LineType
<1>4. inbox[Owner(s)] # <<>> /\ Head(inbox[Owner(s)]) = r
      /\ inbox' = [inbox EXCEPT ![Owner(s)] = Tail(@)]
  BY <1>1, <1>3 DEF Line
<1>5. /\ WholeRequests' /\ inbox'[Owner(s)] # <<>>
      /\ \A d \in Conns : d # Owner(s) => inbox'[d] = inbox[d]
  BY <1>1, <1>3, <1>4, ReadWhole DEF Finished
<1>6. /\ \A t \in Slot : t # s => /\ in_cmd'[t] = in_cmd[t] /\ current_cmd'[t] = current_cmd[t]
                                  /\ upload_file_fd'[t] = upload_file_fd[t]
      /\ in_cmd'[s] /\ current_cmd'[s] = "put" /\ upload_file_fd'[s] = g /\ g # 0
  BY <1>1, <1>2 DEF ServerTypeOK, FD, ServerSocket
<1>7. /\ Uploading' = Uploading \cup {s}
      /\ \A t \in Uploading : t \in Used /\ t \in Slot /\ t # s
  BY <1>3, <1>6 DEF Uploading, Used
<1>8. fds[g] = Free /\ \A t \in Used : socket_fd[t] \in FD /\ socket_fd[t] # g
  BY <1>1, <1>2, NamesOpen, FreeIsNobodys DEF Lowest, IInv, Tables
<1>9. \A t \in Used : Owner(t)' = Owner(t)
  BY <1>1, <1>2, <1>3, <1>8 DEF Owner, ServerTypeOK
<1>10. UploadsNamed'
  <2>1. \A h \in FD : h # g => fds'[h] = fds[h]
    BY <1>2
  <2>2. QED
    BY <1>1, <1>6, <1>7, <2>1 DEF Finished, UploadsNamed
<1>11. UploadsFed'
  <2>1. ASSUME NEW t \in Uploading PROVE inbox'[Owner(t)] # <<>>
    <3>1. Owner(t) \in Conns /\ Owner(t) # Owner(s)
      BY <1>1, <1>3, <1>7 DEF IInv, Tables, DescriptorsOwned
    <3>2. QED
      BY <1>1, <1>5, <3>1 DEF Finished, UploadsFed
  <2>2. QED
    BY <1>3, <1>5, <1>7, <1>9, <2>1 DEF UploadsFed
<1>12. QED
  BY <1>1, <1>5, <1>10, <1>11 DEF Finished, NeverExits

\* The end of an upload closes its file.
LEMMA UploadFinishes ==
  ASSUME CInv, NEW s \in Slot, NEW f \in FD, FinishUpload(s, f)
  PROVE  Finished' /\ NeverExits'
<1> DEFINE u == upload_file_fd[s]
<1>1. /\ IInv /\ Finished /\ NeverExits /\ ServerTypeOK /\ AtClient(s, f)
      /\ in_cmd[s] /\ current_cmd[s] = "put"
      /\ in_cmd' = [in_cmd EXCEPT ![s] = FALSE]
      /\ fds' = [g \in FD |-> IF g = u THEN Free ELSE fds[g]]
      /\ UNCHANGED <<status, socket_fd, upload_file_fd, current_cmd>>
      /\ inbox[Client(f)] # <<>>
      /\ inbox' = inbox \/ inbox' = [inbox EXCEPT ![Client(f)] = Tail(@)]
  BY DEF CInv, IInv, Tables, FinishUpload, ReachedClient, CloseUpload
<1>2. s \in Used /\ Client(f) = Owner(s) /\ Owner(s) \in Conns
  BY <1>1, AtClientType
<1>3. WholeRequests' /\ \A d \in Conns : d # Owner(s) => inbox'[d] = inbox[d]
  <2>1. CASE inbox' = inbox
    BY <1>1, <2>1 DEF Finished, WholeRequests
  <2>2. CASE inbox' = [inbox EXCEPT ![Owner(s)] = Tail(@)]
    BY <1>1, <1>2, <2>2, ReadWhole DEF Finished
  <2>3. QED
    BY <1>1, <1>2, <2>1, <2>2
<1>4. /\ \A t \in Slot : t # s => in_cmd'[t] = in_cmd[t]
      /\ ~in_cmd'[s]
  BY <1>1 DEF ServerTypeOK
<1>5. /\ Uploading' = Uploading \ {s}
      /\ \A t \in Uploading : t \in Used /\ t \in Slot
  BY <1>1, <1>4 DEF Uploading, Used
<1>6. UploadsNamed'
  <2>1. ASSUME NEW g \in FD, fds'[g].kind = "upload"
        PROVE  g # u /\ fds[g].kind = "upload"
    BY <1>1, <2>1 DEF Free, File
  <2>2. QED
    BY <1>1, <1>5, <2>1 DEF Finished, UploadsNamed
<1>7. \A t \in Used : socket_fd[t] \in FD /\ socket_fd[t] # u
  <2>1. s \in Uploading \/ u = 0
    BY <1>1, <1>2 DEF Uploading
  <2>2. \A t \in Used : socket_fd[t] \in FD /\ socket_fd[t] # 0
    BY <1>1, NamesOpen DEF IInv, Tables, Used
  <2>3. QED
    BY <1>1, <2>1, <2>2, NamesDistinct
<1>8. UploadsFed'
  <2>1. ASSUME NEW t \in Uploading, t # s PROVE inbox'[Owner(t)'] # <<>>
    <3>1. Owner(t)' = Owner(t)
      BY <1>1, <1>5, <1>7 DEF Owner
    <3>2. Owner(t) \in Conns /\ Owner(t) # Owner(s)
      BY <1>1, <1>2, <1>5, <2>1 DEF IInv, Tables, DescriptorsOwned
    <3>3. QED
      BY <1>1, <1>3, <3>1, <3>2 DEF Finished, UploadsFed
  <2>2. QED
    BY <1>5, <2>1 DEF UploadsFed
<1>9. QED
  BY <1>1, <1>3, <1>6, <1>8 DEF Finished, NeverExits

-----------------------------------------------------------------------------
(* The theorem.                                                            *)

\* Every step of the server keeps uploads finished and the server running.
LEMMA ServerFinishes ==
  ASSUME CInv, ~NoneFree, ~BadFiles, ServerStep
  PROVE  Finished' /\ NeverExits'
<1>1. ASSUME NEW f \in FD, StreamData(f) PROVE Finished' /\ NeverExits'
  <2>1. UNCHANGED <<fds, slotVars, inbox>>
    BY <1>1 DEF StreamData
  <2>2. status' # "exited"
    BY <1>1 DEF StreamData, Write, CInv, NeverExits
  <2>3. QED
    BY <2>1, <2>2, IdleFinishes
<1>2. ASSUME NEW f \in FD, NobodysData(f) PROVE Finished' /\ NeverExits'
  BY <1>2, IdleFinishes DEF NobodysData, kernelVars, netVars
<1>3. ASSUME NEW f \in FD, StreamEnds(f) PROVE Finished' /\ NeverExits'
  BY <1>3, IdleFinishes DEF StreamEnds, CInv, NeverExits, kernelVars, netVars
<1>4. ASSUME NEW f \in FD, NEW s \in Slot, Hang(s, f) PROVE Finished' /\ NeverExits'
  BY <1>4, IdleFinishes DEF Hang, kernelVars, netVars
<1>5. ASSUME NEW f \in FD, ClientData(f) PROVE Finished' /\ NeverExits'
  <2>1. PICK s \in Slot :
          \/ Disconnect(s, f) \/ Command(s, f) \/ GetFile(s, f) \/ Stream(s, f)
          \/ Put(s, f, "put", 1) \/ Put(s, f, "empty", 0) \/ Unknown(s, f)
          \/ FinishUpload(s, f) \/ Hang(s, f)
    BY <1>5 DEF ClientData
  <2>2. CASE Put(s, f, "put", 1) \/ Put(s, f, "empty", 0)
    BY <2>2, PutFinishes
  <2>3. QED
    BY <1>4, <2>1, <2>2, DisconnectFinishes, LineFinishes, UploadFinishes
<1>6. QED
  BY <1>1, <1>2, <1>3, <1>5, SelectFinishes, AcceptFinishes DEF ServerStep

\* A call leaves the table and what clients sent alone.
LEMMA CallFinishes ==
  ASSUME CInv, Outputs \/ Returns
  PROVE  Finished' /\ NeverExits'
<1>1. ASSUME NEW f \in FD, NEW s \in Slot, Output(s, f) \/ Return(s, f)
      PROVE  UNCHANGED <<fds, slotVars, inbox>> /\ status' # "exited"
  BY <1>1 DEF Output, Return, Write, CInv, NeverExits, kernelVars
<1>2. QED
  BY <1>1, IdleFinishes DEF Outputs, Returns

\* start_server never returns: with two descriptors for each slot, one for the
\* listening socket and one more, accept() and open() always find one, and
\* select() is never given one that is closed, whatever order clients connect,
\* stream, upload and leave in.
THEOREM ServerNeverExits ==
  ASSUME Finishing, MaxFD - ServerSocket > 2 * MaxClient
  PROVE  Spec => []NeverExits
<1>1. Init => CInv
  <2> SUFFICES ASSUME Init PROVE CInv
    OBVIOUS
  <2>1. \A f \in FD : fds[f].kind # "upload"
    BY DEF Init, Listen, Free, File
  <2>2. \A c \in Conns : inbox[c] = <<>> /\ Len(inbox[c]) = 0
    BY EmptySeq DEF Init
  <2>3. Finished /\ NeverExits
    BY <2>1, <2>2 DEF Init, Finished, UploadsNamed, UploadsFed, WholeRequests, Uploading, Used,
       NeverExits
  <2>4. QED
    BY <2>3, InitInv DEF CInv
<1>2. CInv /\ [Next]_vars => CInv'
  <2> SUFFICES ASSUME CInv, [Next]_vars PROVE CInv'
    OBVIOUS
  <2>1. IInv /\ UploadsNamed
    BY DEF CInv, Finished
  <2>2. "unknown" \notin Requests /\ ~BadFiles
    BY DEF Finishing
  <2>3. ~NoneFree
    BY <2>1, <2>2, OneIsFree
  <2>4. CASE Environment
    BY <2>1, <2>2, <2>4, EnvironmentStep, EnvironmentFinishes DEF CInv
  <2>5. CASE ServerStep
    BY <2>1, <2>2, <2>3, <2>5, ServerKeeps, ServerFinishes DEF CInv
  <2>6. CASE Outputs \/ Returns
    BY <2>1, <2>6, CallStep, CallFinishes DEF CInv
  <2>7. CASE UNCHANGED vars
    <3>1. UNCHANGED <<fds, slotVars, inbox, status>>
      BY <2>7 DEF vars, kernelVars, netVars
    <3>2. Finished' /\ NeverExits'
      BY <3>1, IdleFinishes DEF CInv, NeverExits
    <3>3. IInv'
      BY <2>1, <2>2, <2>7, StutterStep
    <3>4. QED
      BY <3>2, <3>3 DEF CInv
  <2>8. QED
    BY <2>4, <2>5, <2>6, <2>7 DEF Next
<1>3. CInv => NeverExits
  BY DEF CInv
<1>4. QED
  BY <1>1, <1>2, <1>3, PTL DEF Spec
=============================================================================
