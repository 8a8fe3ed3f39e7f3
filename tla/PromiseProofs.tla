---------------------------- MODULE PromiseProofs ----------------------------
(***************************************************************************)
(* For every buffer size and all polite clients, however the network cuts  *)
(* what they send: Framing never leaves a buffer, and implements           *)
(* CommandStream.                                                          *)
(***************************************************************************)
EXTENDS FramingProofs

\* Clients send requests that the server's author had in mind, may leave in
\* the middle of a payload but not of a line, and say no more once they asked
\* for a streamed file.
PoliteClients == ~CutLines /\ ~TalkOverStream /\ \A r \in Requests : Polite(r)

-----------------------------------------------------------------------------
(* Sequences of cells.                                                     *)

\* What SequenceTheorems says of concatenation, for cells.
LEMMA Joined ==
  ASSUME NEW s \in Seq(Cell), NEW t \in Seq(Cell)
  PROVE  /\ s \o t \in Seq(Cell) /\ Len(s) \in Nat /\ Len(t) \in Nat
         /\ Len(s \o t) = Len(s) + Len(t)
         /\ \A i \in 1..Len(s) : (s \o t)[i] = s[i]
         /\ \A i \in 1..Len(t) : (s \o t)[Len(s) + i] = t[i]
<1> DEFINE C == Cell
<1> HIDE DEF C
<1>1. s \in Seq(C) /\ t \in Seq(C)
  BY DEF C
<1>2. /\ s \o t \in Seq(C) /\ Len(s) \in Nat /\ Len(t) \in Nat
      /\ Len(s \o t) = Len(s) + Len(t)
      /\ \A i \in 1..(Len(s) + Len(t)) :
           (s \o t)[i] = IF i <= Len(s) THEN s[i] ELSE t[i - Len(s)]
  BY <1>1, ConcatProperties, LenProperties
<1>3. \A i \in 1..Len(s) : (s \o t)[i] = s[i]
  BY <1>2
<1>4. ASSUME NEW i \in 1..Len(t) PROVE (s \o t)[Len(s) + i] = t[i]
  <2>1. Len(s) + i \in 1..(Len(s) + Len(t)) /\ ~(Len(s) + i <= Len(s)) /\ (Len(s) + i) - Len(s) = i
    BY <1>2
  <2>2. QED
    BY <1>2, <2>1
<1>5. QED
  BY <1>2, <1>3, <1>4 DEF C

LEMMA Regroup ==
  ASSUME NEW s \in Seq(Cell), NEW t \in Seq(Cell), NEW u \in Seq(Cell)
  PROVE  (s \o t) \o u = s \o (t \o u)
<1> DEFINE C == Cell
<1> HIDE DEF C
<1>1. s \in Seq(C) /\ t \in Seq(C) /\ u \in Seq(C)
  BY DEF C
<1>2. QED
  BY <1>1, ConcatAssociative

\* The same, as a predicate to be cited of three sequences.
Assoc(s, t, u) == (s \o t) \o u = s \o (t \o u)

LEMMA Assocs ==
  ASSUME NEW s \in Seq(Cell), NEW t \in Seq(Cell), NEW u \in Seq(Cell)
  PROVE  Assoc(s, t, u)
BY Regroup DEF Assoc

\* The start of a line, the rest of it, its newline, what was read behind it
\* and what was not read.
Shaped(p, b, nl, after, w) ==
  /\ p \o (((b \o nl) \o after) \o w) = ((p \o b) \o nl) \o (after \o w)
  /\ p \o (((b \o nl) \o after) \o w) = (p \o b) \o (nl \o (after \o w))

LEMMA LineShape ==
  ASSUME NEW p \in Seq(Cell), NEW b \in Seq(Cell), NEW nl \in Seq(Cell),
         NEW after \in Seq(Cell), NEW w \in Seq(Cell)
  PROVE  Shaped(p, b, nl, after, w)
<1>1. PICK x \in Seq(Cell) : x = b \o nl
  BY Joined
<1>2. PICK r \in Seq(Cell) : r = after \o w
  BY Joined
<1>3. PICK h \in Seq(Cell) : h = p \o b
  BY Joined
<1>4. PICK y \in Seq(Cell) : y = nl \o r
  BY Joined
<1>5. Assoc(x, after, w) /\ Assoc(b, nl, r) /\ Assoc(p, b, y) /\ Assoc(h, nl, r) /\ Assoc(p, b, nl)
  BY Assocs
<1>6. QED
  BY <1>1, <1>2, <1>3, <1>4, <1>5 DEF Assoc, Shaped

LEMMA Nothing ==
  /\ <<>> \in Seq(Cell) /\ Len(<<>>) = 0
  /\ \A s \in Seq(Cell) : /\ s \o <<>> = s /\ <<>> \o s = s
                          /\ Len(s) \in Nat
                          /\ (s = <<>> <=> Len(s) = 0)
<1> DEFINE C == Cell
<1> HIDE DEF C
<1>1. <<>> \in Seq(C) /\ Len(<<>>) = 0
  BY EmptySeq
<1>2. ASSUME NEW s \in Seq(C)
      PROVE  s \o <<>> = s /\ <<>> \o s = s /\ Len(s) \in Nat /\ (s = <<>> <=> Len(s) = 0)
  BY <1>1, EmptySeq, ConcatEmptySeq, LenProperties
<1>3. QED
  BY <1>1, <1>2 DEF C

\* A piece of a sequence.
LEMMA Piece ==
  ASSUME NEW s \in Seq(Cell), NEW i \in Nat, NEW j \in Nat, i <= j, j <= Len(s)
  PROVE  /\ SubSeq(s, i + 1, j) \in Seq(Cell) /\ Len(SubSeq(s, i + 1, j)) = j - i
         /\ \A k \in 1..(j - i) : SubSeq(s, i + 1, j)[k] = s[i + k]
<1>1. \A k \in (i + 1)..j : s[k] \in Cell
  BY LenProperties
<1>2. i + 1 \in Int /\ j \in Int
  OBVIOUS
<1>3. /\ SubSeq(s, i + 1, j) \in Seq(Cell)
      /\ Len(SubSeq(s, i + 1, j)) = IF i + 1 <= j THEN j - (i + 1) + 1 ELSE 0
      /\ \A k \in 1..(j - (i + 1) + 1) : SubSeq(s, i + 1, j)[k] = s[(i + 1) + k - 1]
  BY <1>1, <1>2, SubSeqProperties
<1>4. j - (i + 1) + 1 = j - i /\ \A k \in 1..(j - i) : (i + 1) + k - 1 = i + k
  OBVIOUS
<1>5. QED
  BY <1>3, <1>4

\* The start of a sequence.
LEMMA Start ==
  ASSUME NEW s \in Seq(Cell), NEW j \in Nat, j <= Len(s)
  PROVE  /\ SubSeq(s, 1, j) \in Seq(Cell) /\ Len(SubSeq(s, 1, j)) = j
         /\ \A k \in 1..j : SubSeq(s, 1, j)[k] = s[k]
<1>1. 0 \in Nat /\ 0 <= j
  OBVIOUS
<1>2. /\ SubSeq(s, 0 + 1, j) \in Seq(Cell) /\ Len(SubSeq(s, 0 + 1, j)) = j - 0
      /\ \A k \in 1..(j - 0) : SubSeq(s, 0 + 1, j)[k] = s[0 + k]
  BY <1>1, Piece
<1>3. 0 + 1 = 1 /\ j - 0 = j /\ \A k \in 1..j : 0 + k = k
  OBVIOUS
<1>4. QED
  BY <1>2, <1>3

\* Two sequences with the same cells are the same.
LEMMA SameCells ==
  ASSUME NEW s \in Seq(Cell), NEW t \in Seq(Cell), Len(s) = Len(t),
         \A i \in 1..Len(s) : s[i] = t[i]
  PROVE  s = t
<1> DEFINE C == Cell
<1> HIDE DEF C
<1>1. s \in Seq(C) /\ t \in Seq(C)
  BY DEF C
<1>2. QED
  BY <1>1, SeqEqual

\* The two parts of a concatenation are what taking and dropping leave.
LEMMA Parted ==
  ASSUME NEW s \in Seq(Cell), NEW t \in Seq(Cell)
  PROVE  /\ SubSeq(s \o t, 1, Len(s)) = s
         /\ SubSeq(s \o t, Len(s) + 1, Len(s \o t)) = t
<1> DEFINE u == s \o t
           a == SubSeq(u, 0 + 1, Len(s))
           b == SubSeq(u, Len(s) + 1, Len(u))
<1>1. /\ u \in Seq(Cell) /\ Len(s) \in Nat /\ Len(t) \in Nat /\ Len(u) = Len(s) + Len(t)
      /\ \A i \in 1..Len(s) : u[i] = s[i]
      /\ \A i \in 1..Len(t) : u[Len(s) + i] = t[i]
  BY Joined
<1> HIDE DEF u
<1>2. /\ a \in Seq(Cell) /\ Len(a) = Len(s) - 0
      /\ \A k \in 1..(Len(s) - 0) : a[k] = u[0 + k]
  BY <1>1, Piece
<1>3. /\ b \in Seq(Cell) /\ Len(b) = Len(u) - Len(s)
      /\ \A k \in 1..(Len(u) - Len(s)) : b[k] = u[Len(s) + k]
  BY <1>1, Piece
<1> HIDE DEF a, b
<1>4. a = s
  <2>1. Len(a) = Len(s) /\ \A k \in 1..Len(a) : a[k] = s[k]
    BY <1>1, <1>2
  <2>2. QED
    BY <1>2, <2>1, SameCells
<1>5. b = t
  <2>1. Len(b) = Len(t) /\ \A k \in 1..Len(b) : b[k] = t[k]
    BY <1>1, <1>3
  <2>2. QED
    BY <1>3, <2>1, SameCells
<1>6. QED
  BY <1>4, <1>5 DEF u, a, b

\* A sequence is its start followed by its rest.
LEMMA Splits ==
  ASSUME NEW s \in Seq(Cell), NEW i \in Nat, NEW j \in Nat, i <= j, j <= Len(s)
  PROVE  SubSeq(s, i + 1, Len(s)) = SubSeq(s, i + 1, j) \o SubSeq(s, j + 1, Len(s))
<1>1. Len(s) \in Nat
  BY Nothing
<1>2. i + 1 \in 1..(Len(s) + 1) /\ j \in ((i + 1) - 1)..Len(s) /\ Len(s) \in j..Len(s)
  BY <1>1
<1> DEFINE C == Cell
           m == i + 1
           n == Len(s)
<1> HIDE DEF C, m, n
<1>3. s \in Seq(C) /\ m \in 1..(Len(s) + 1) /\ j \in (m - 1)..Len(s) /\ n \in j..Len(s)
  BY <1>2 DEF C, m, n
<1>4. SubSeq(s, m, j) \o SubSeq(s, j + 1, n) = SubSeq(s, m, n)
  BY <1>3, ConcatAdjacentSubSeq
<1>5. QED
  BY <1>4 DEF m, n


-----------------------------------------------------------------------------
(* What clients say.                                                       *)

\* The requests a client may send something after.
Plain == {r \in Requests : Verb(r) # "STREAM_FILE"}

\* One whole request after another: the least set that has no requests and,
\* with a stream, that stream and one more request.
Extended(P) == <<>> \in P /\ \A s \in P, r \in Plain : s \o r \in P
Whole == {s \in Seq(Cell) : \A P \in SUBSET Seq(Cell) : Extended(P) => s \in P}

\* What a client says last: a request or the start of one, its line at least.
Last == {c \in Seq(Cell) : \E r \in Requests : \E k \in 1..Len(r) :
                             c = SubSeq(r, 1, k) /\ \E i \in 1..k : r[i] = NL}

Conversations == {s \in Seq(Cell) : \/ s \in Whole
                                    \/ \E w \in Whole, c \in Last : s = w \o c}

LEMMA WholeExtended == Whole \in SUBSET Seq(Cell) /\ Extended(Whole)
<1>1. Whole \in SUBSET Seq(Cell)
  BY DEF Whole
<1>2. <<>> \in Whole
  BY Nothing DEF Whole, Extended
<1>3. ASSUME NEW s \in Whole, NEW r \in Plain PROVE s \o r \in Whole
  <2>1. s \in Seq(Cell) /\ r \in Seq(Cell)
    BY RequestsAssumption DEF Whole, Plain
  <2>2. s \o r \in Seq(Cell)
    BY <2>1, Joined
  <2>3. ASSUME NEW P \in SUBSET Seq(Cell), Extended(P) PROVE s \o r \in P
    <3>1. s \in P
      BY <2>3 DEF Whole
    <3>2. QED
      BY <2>3, <3>1 DEF Extended
  <2>4. QED
    BY <2>2, <2>3 DEF Whole
<1>4. QED
  BY <1>1, <1>2, <1>3 DEF Extended

\* Whole requests that are not none start with one.
LEMMA WholeStarts ==
  ASSUME NEW s \in Whole, s # <<>>
  PROVE  \E r \in Plain, t \in Whole : s = r \o t
<1> DEFINE P == {x \in Seq(Cell) : x = <<>> \/ \E r \in Plain, t \in Whole : x = r \o t}
<1>1. P \in SUBSET Seq(Cell) /\ <<>> \in P
  BY Nothing
<1>2. ASSUME NEW x \in P, NEW r \in Plain PROVE x \o r \in P
  <2>1. x \in Seq(Cell) /\ r \in Seq(Cell)
    BY RequestsAssumption DEF Plain
  <2>2. x \o r \in Seq(Cell)
    BY <2>1, Joined
  <2>3. CASE x = <<>>
    <3>1. x \o r = r /\ r \o <<>> = r
      BY <2>1, <2>3, Nothing
    <3>2. <<>> \in Whole
      BY WholeExtended DEF Extended
    <3>3. x \o r = r \o <<>>
      BY <3>1
    <3>4. QED
      BY <2>2, <3>2, <3>3
  <2>4. CASE \E q \in Plain, t \in Whole : x = q \o t
    <3>1. PICK q \in Plain, t \in Whole : x = q \o t
      BY <2>4
    <3>2. q \in Seq(Cell) /\ t \in Seq(Cell)
      BY RequestsAssumption DEF Plain, Whole
    <3>3. x \o r = q \o (t \o r)
      BY <2>1, <3>1, <3>2, Regroup
    <3>4. t \o r \in Whole
      BY WholeExtended DEF Extended
    <3>5. QED
      BY <2>2, <3>3, <3>4
  <2>5. QED
    BY <2>3, <2>4
<1>3. Extended(P)
  BY <1>1, <1>2 DEF Extended
<1>4. s \in P
  BY <1>1, <1>3 DEF Whole
<1>5. QED
  BY <1>4

\* A client adds a request, or says its last.
LEMMA Says ==
  ASSUME NEW s \in Whole, NEW r \in Requests, NEW k \in 1..Len(r), \E i \in 1..k : r[i] = NL
  PROVE  /\ SubSeq(r, 1, k) \in Seq(Cell)
         /\ s \o SubSeq(r, 1, k) \in Conversations
         /\ r \in Plain => s \o r \in Whole /\ s \o r \in Conversations
<1>1. s \in Seq(Cell) /\ r \in Seq(Cell)
  BY RequestsAssumption DEF Whole
<1>2. PICK c : c = SubSeq(r, 1, k)
  OBVIOUS
<1>3. c \in Seq(Cell)
  <2>1. k \in Nat /\ k <= Len(r)
    BY <1>1, Nothing
  <2>2. QED
    BY <1>1, <1>2, <2>1, Start
<1>4. c \in Last
  BY <1>2, <1>3 DEF Last
<1>5. s \o c \in Seq(Cell)
  BY <1>1, <1>3, Joined
<1>6. s \o c \in Conversations
  BY <1>4, <1>5 DEF Conversations
<1>7. ASSUME r \in Plain PROVE s \o r \in Whole /\ s \o r \in Conversations
  <2>1. s \o r \in Whole
    BY <1>7, WholeExtended DEF Extended
  <2>2. QED
    BY <2>1 DEF Conversations, Whole
<1>8. QED
  BY <1>2, <1>3, <1>6, <1>7

\* What a conversation starts with: a request, or the start of the last one.
Opens(s, r, k, t) ==
  /\ s = SubSeq(r, 1, k) \o t
  /\ \E i \in 1..k : r[i] = NL
  /\ t # <<>> => k = Len(r) /\ Verb(r) # "STREAM_FILE"
  /\ s \in Whole => t \in Whole /\ k = Len(r) /\ Verb(r) # "STREAM_FILE"

LEMMA WholeOpens ==
  ASSUME PoliteClients, NEW r \in Plain, NEW t \in Conversations, NEW s,
         s = r \o t, s \in Whole => t \in Whole
  PROVE  Len(r) \in 1..Len(r) /\ Opens(s, r, Len(r), t)
<1>1. r \in Seq(Cell) /\ r \in Requests /\ Verb(r) # "STREAM_FILE"
  BY RequestsAssumption DEF Plain
<1>2. PICK e \in 1..Len(r) : r[e] = NL
  BY <1>1 DEF PoliteClients, Polite, FirstAt
<1>3. Len(r) \in 1..Len(r)
  BY <1>1, <1>2, Nothing
<1>4. SubSeq(r, 1, Len(r)) = r
  <2> DEFINE C == Cell
  <2> HIDE DEF C
  <2>1. r \in Seq(C)
    BY <1>1 DEF C
  <2>2. QED
    BY <2>1, SubSeqFull
<1>5. QED
  BY <1>1, <1>2, <1>3, <1>4 DEF Opens

LEMMA ConversationOpens ==
  ASSUME PoliteClients, NEW s \in Conversations, s # <<>>
  PROVE  \E r \in Requests : \E k \in 1..Len(r), t \in Conversations : Opens(s, r, k, t)
<1>0. Whole \subseteq Conversations /\ <<>> \in Whole /\ Whole \subseteq Seq(Cell)
  BY WholeExtended DEF Conversations, Whole, Extended
<1>1. CASE s \in Whole
  <2>1. PICK r \in Plain, t \in Whole : s = r \o t
    BY <1>1, WholeStarts
  <2>2. t \in Conversations
    BY <1>0
  <2>3. Len(r) \in 1..Len(r) /\ Opens(s, r, Len(r), t)
    BY <2>1, <2>2, WholeOpens
  <2>4. QED
    BY <2>2, <2>3 DEF Plain
<1>2. CASE s \notin Whole
  <2>1. PICK w \in Whole, c \in Last : s = w \o c
    BY <1>2 DEF Conversations
  <2>2. w \in Seq(Cell) /\ c \in Seq(Cell)
    BY DEF Whole, Last
  <2>3. CASE w = <<>>
    <3>1. s = c /\ c \o <<>> = c
      BY <2>1, <2>2, <2>3, Nothing
    <3>2. PICK r \in Requests : \E k \in 1..Len(r) :
                 c = SubSeq(r, 1, k) /\ \E i \in 1..k : r[i] = NL
      BY DEF Last
    <3>3. PICK k \in 1..Len(r) : c = SubSeq(r, 1, k) /\ \E i \in 1..k : r[i] = NL
      BY <3>2
    <3>4. Opens(s, r, k, <<>>)
      <4>1. s = SubSeq(r, 1, k) \o <<>>
        BY <3>1, <3>3
      <4>2. QED
        BY <1>2, <3>3, <4>1 DEF Opens
    <3>5. QED
      BY <1>0, <3>4
  <2>4. CASE w # <<>>
    <3>1. PICK r \in Plain, v \in Whole : w = r \o v
      BY <2>4, WholeStarts
    <3>2. r \in Seq(Cell) /\ v \in Seq(Cell)
      BY RequestsAssumption DEF Plain, Whole
    <3>3. s = r \o (v \o c)
      BY <2>1, <2>2, <3>1, <3>2, Regroup
    <3>4. v \o c \in Conversations
      <4>1. v \o c \in Seq(Cell)
        BY <2>2, <3>2, Joined
      <4>2. QED
        BY <4>1 DEF Conversations
    <3>5. Len(r) \in 1..Len(r) /\ Opens(s, r, Len(r), v \o c)
      BY <1>2, <3>3, <3>4, WholeOpens
    <3>6. QED
      BY <3>4, <3>5 DEF Plain
  <2>5. QED
    BY <2>3, <2>4
<1>3. QED
  BY <1>1, <1>2

\* How many cells follow a line.
Announced(line) == IF Announces(line) THEN Size(line) ELSE 0

\* What the first line of a conversation tells, and what is left of the
\* conversation after the request.
Remains(s, n) ==
  /\ SubSeq(s, n + 1, Len(s)) \in Conversations
  /\ s \in Whole => SubSeq(s, n + 1, Len(s)) \in Whole

FirstLine(s, p, line, n) ==
  FirstAt(s, NL, p) /\ line = SubSeq(s, 1, p - 1) /\ n = p + Announced(line)

LEMMA FirstRequest ==
  ASSUME PoliteClients, NEW s \in Conversations, NEW p \in 1..Len(s), NEW line, NEW n,
         FirstLine(s, p, line, n)
  PROVE  /\ line \in Seq(Cell) /\ Len(line) = p - 1
         /\ PoliteLine(line) /\ p <= BUF /\ Announced(line) \in Nat
         /\ Len(s) >= n => Remains(s, n)
         /\ Len(s) >= n /\ Verb(line) = "STREAM_FILE" => Len(s) = n /\ s \notin Whole
<1>0. FirstAt(s, NL, p) /\ line = SubSeq(s, 1, p - 1) /\ n = p + Announced(line)
  BY DEF FirstLine
<1>1. s \in Seq(Cell) /\ Len(s) \in Nat /\ s # <<>> /\ p \in Nat
  BY Nothing DEF Conversations
<1>a. PICK r \in Requests : \E k \in 1..Len(r), t \in Conversations : Opens(s, r, k, t)
  BY <1>1, ConversationOpens
<1>2. PICK k \in 1..Len(r), t \in Conversations : Opens(s, r, k, t)
  BY <1>a
<1>3. r \in Seq(Cell) /\ t \in Seq(Cell) /\ Len(r) \in Nat /\ k \in Nat /\ k <= Len(r)
  BY <1>2, RequestsAssumption, Nothing DEF Conversations
<1>4. PICK start \in Seq(Cell) : start = SubSeq(r, 1, k) /\ Len(start) = k
                                 /\ \A i \in 1..k : start[i] = r[i]
  BY <1>3, Start
<1>5. s = start \o t /\ Len(s) = k + Len(t) /\ Len(t) \in Nat /\ \A i \in 1..k : s[i] = r[i]
  <2>1. s = start \o t
    BY <1>2, <1>4 DEF Opens
  <2>2. /\ Len(start \o t) = Len(start) + Len(t) /\ Len(t) \in Nat
        /\ \A i \in 1..Len(start) : (start \o t)[i] = start[i]
    BY <1>3, <1>4, Joined
  <2>3. QED
    BY <1>4, <2>1, <2>2
<1>6. PICK e \in 1..Len(r) :
        /\ FirstAt(r, NL, e) /\ e <= BUF /\ PoliteLine(SubSeq(r, 1, e - 1))
        /\ Len(r) = e + Announced(SubSeq(r, 1, e - 1))
  BY DEF PoliteClients, Polite, Announced
<1>7. PICK i \in 1..k : r[i] = NL
  BY <1>2 DEF Opens
<1>8. e = p /\ e <= k
  <2>1. e <= i
    <3>1. ~(i < e)
      BY <1>3, <1>6, <1>7 DEF FirstAt
    <3>2. QED
      BY <1>3, <3>1
  <2>2. e <= k /\ e \in Nat
    BY <1>3, <2>1
  <2>3. s[e] = NL
    BY <1>5, <1>6, <2>2 DEF FirstAt
  <2>4. ~(e < p)
    BY <1>0, <1>1, <2>2, <2>3 DEF FirstAt
  <2>5. ~(p < e)
    <3>1. SUFFICES ASSUME p < e PROVE FALSE
      OBVIOUS
    <3>2. p \in 1..(e - 1) /\ p \in 1..k
      BY <1>1, <1>3, <2>2, <3>1
    <3>3. r[p] = NL
      BY <1>0, <1>5, <3>2 DEF FirstAt
    <3>4. QED
      BY <1>6, <3>2, <3>3 DEF FirstAt
  <2>6. QED
    BY <1>1, <2>2, <2>4, <2>5
<1>9. line \in Seq(Cell) /\ Len(line) = p - 1 /\ line = SubSeq(r, 1, e - 1)
  <2>1. p - 1 \in Nat /\ p - 1 <= Len(s) /\ p - 1 <= Len(r) /\ \A j \in 1..(p - 1) : j \in 1..k
    BY <1>1, <1>3, <1>8
  <2>4. PICK a \in Seq(Cell) : a = SubSeq(r, 1, p - 1) /\ Len(a) = p - 1
                               /\ \A j \in 1..(p - 1) : a[j] = r[j]
    BY <1>3, <2>1, Start
  <2>5. line \in Seq(Cell) /\ Len(line) = p - 1 /\ \A j \in 1..(p - 1) : line[j] = s[j]
    BY <1>0, <1>1, <2>1, Start
  <2>6. Len(line) = Len(a) /\ \A j \in 1..Len(line) : line[j] = a[j]
    BY <1>5, <2>1, <2>4, <2>5
  <2>7. line = a
    BY <2>4, <2>5, <2>6, SameCells
  <2>8. QED
    BY <1>8, <2>4, <2>5, <2>7
<1>10. PoliteLine(line) /\ p <= BUF /\ Len(r) = n /\ n \in Nat
  BY <1>0, <1>3, <1>6, <1>8, <1>9
<1>11. Announced(line) \in Nat
  <2>1. Announces(line) => Size(line) \in Nat
    BY <1>9, SizeType DEF Announces
  <2>2. QED
    BY <2>1 DEF Announced
<1>12. Verb(r) = Verb(line)
  <2>1. Verb(line) # "nul"
    BY <1>10 DEF PoliteLine, Verbs
  <2>2. Len(line) > 0
    BY <2>1 DEF Verb
  <2>3. 1 \in 1..(p - 1) /\ Len(r) > 0
    BY <1>1, <1>3, <1>8, <1>9, <2>2
  <2>4. line[1] = r[1]
    <3>1. e - 1 \in Nat /\ e - 1 <= Len(r) /\ 1 \in 1..(e - 1)
      BY <1>3, <1>8, <2>3
    <3>2. \A j \in 1..(e - 1) : SubSeq(r, 1, e - 1)[j] = r[j]
      BY <1>3, <3>1, Start
    <3>3. QED
      BY <1>9, <3>1, <3>2
  <2>5. QED
    BY <2>2, <2>3, <2>4 DEF Verb
<1>13. ASSUME Len(s) >= n
       PROVE  Remains(s, n) /\ (Verb(line) = "STREAM_FILE" => Len(s) = n /\ s \notin Whole)
  <2>1. k = n /\ Len(start) = n
    <3>1. t = <<>> => Len(t) = 0
      BY Nothing
    <3>2. t # <<>> => k = Len(r)
      BY <1>2 DEF Opens
    <3>3. k = n
      <4>1. CASE t = <<>>
        <5>1. Len(s) = k + 0
          BY <1>5, <3>1, <4>1
        <5>2. k >= n /\ k <= n
          BY <1>3, <1>10, <1>13, <5>1
        <5>3. QED
          BY <1>3, <1>10, <5>2
      <4>2. CASE t # <<>>
        BY <1>10, <3>2, <4>2
      <4>3. QED
        BY <4>1, <4>2
    <3>4. QED
      BY <1>4, <3>3
  <2>2. SubSeq(start \o t, Len(start) + 1, Len(start \o t)) = t
    BY <1>3, <1>4, Parted
  <2>3. SubSeq(s, n + 1, Len(s)) = t
    BY <1>5, <2>1, <2>2
  <2>4. Remains(s, n)
    BY <1>2, <2>3 DEF Remains, Opens
  <2>5. Verb(line) = "STREAM_FILE" => t = <<>> /\ s \notin Whole
    BY <1>2, <1>12 DEF Opens
  <2>6. QED
    BY <1>5, <2>1, <2>4, <2>5, Nothing
<1>14. QED
  BY <1>9, <1>10, <1>11, <1>13


-----------------------------------------------------------------------------
(* The invariant.                                                          *)

\* What was read and not yet scanned.
Unscanned == SubSeq(readed_data, read_pos + 1, Len(readed_data))

\* The start of a line, kept from earlier reads.
Pending == SubSeq(pending_data, 1, pending_pos)

\* A payload is being gathered, and what there is of it.
Awaiting == in_cmd /\ current_cmd \in {"WRITE_MEM", "PUT_FILE"}
Gathered == IF current_cmd = "WRITE_MEM" THEN write_buffer ELSE uploaded

\* What the client said and was not carried out: the line whose payload is
\* awaited, what the slot holds, the rest of the read, the wire.
Header == IF Awaiting THEN request \o <<NL>> ELSE <<>>
Held   == IF Awaiting THEN Gathered ELSE Pending
Flow   == Held \o (Unscanned \o wire)
Said   == Header \o Flow

\* The fields of the slot agree with each other.
Agree ==
  /\ pc \in {"select", "scan"}
  /\ pc = "select" => readed_data = <<>>
  /\ pending_size = pending_pos
  /\ in_cmd => pending_pos = 0 /\ current_cmd \in {"WRITE_MEM", "PUT_FILE", "STREAM_FILE"}
  /\ ~in_cmd => \A i \in 1..pending_pos : pending_data[i] \notin {NL, NUL}

\* A slot that nobody uses has nothing of the client before.
AtRest ==
  peer = "none" => wire = <<>> /\ pc = "select" /\ log = <<>> /\ pending_pos = 0

\* A payload is gathered for the line that announced it, and not all there.
PayloadComes ==
  Awaiting =>
    /\ PoliteLine(request) /\ Announces(request) /\ Verb(request) = current_cmd
    /\ \A i \in 1..Len(request) : request[i] # NL
    /\ Len(Gathered) < Size(request)
    /\ current_cmd = "WRITE_MEM" =>
         write_pointer = "live" /\ write_info_size = Size(request)
    /\ current_cmd = "PUT_FILE" =>
         /\ upload_file_fd = "open"
         /\ uploaded_file_size = Size(request) /\ uploaded_size = Len(uploaded)

\* A client that asked for a streamed file has said all.
StreamsLast ==
  in_cmd /\ current_cmd = "STREAM_FILE" =>
    (peer = "open" => streaming) /\ Unscanned = <<>> /\ wire = <<>>

\* Where the parser stands is the start of a request, or behind the line of
\* one: what was said and not carried out is a conversation.
InStep ==
  Said \in Conversations /\ (peer = "open" /\ ~streaming => Said \in Whole)

PInv == IInv /\ Agree /\ AtRest /\ PayloadComes /\ StreamsLast /\ InStep

Kept == Agree /\ AtRest /\ PayloadComes /\ StreamsLast /\ InStep

LEMMA PartTypes ==
  TypeOK /\ NoOverflow =>
    /\ Unscanned \in Seq(Cell) /\ Len(Unscanned) = Len(readed_data) - read_pos
    /\ \A i \in 1..Len(Unscanned) : Unscanned[i] = readed_data[read_pos + i]
    /\ Pending \in Seq(Cell) /\ Len(Pending) = pending_pos
    /\ \A i \in 1..pending_pos : Pending[i] = pending_data[i]
    /\ Gathered \in Seq(Cell) /\ Held \in Seq(Cell) /\ Header \in Seq(Cell)
    /\ wire \in Seq(Cell) /\ Unscanned \o wire \in Seq(Cell)
    /\ Flow \in Seq(Cell) /\ Said \in Seq(Cell)
    /\ request \o <<NL>> \in Seq(Cell) /\ Len(request \o <<NL>>) = Len(request) + 1
<1> SUFFICES ASSUME TypeOK, NoOverflow
             PROVE  /\ Unscanned \in Seq(Cell) /\ Len(Unscanned) = Len(readed_data) - read_pos
                    /\ \A i \in 1..Len(Unscanned) : Unscanned[i] = readed_data[read_pos + i]
                    /\ Pending \in Seq(Cell) /\ Len(Pending) = pending_pos
                    /\ \A i \in 1..pending_pos : Pending[i] = pending_data[i]
                    /\ Gathered \in Seq(Cell) /\ Held \in Seq(Cell) /\ Header \in Seq(Cell)
                    /\ wire \in Seq(Cell) /\ Unscanned \o wire \in Seq(Cell)
                    /\ Flow \in Seq(Cell) /\ Said \in Seq(Cell)
                    /\ request \o <<NL>> \in Seq(Cell) /\ Len(request \o <<NL>>) = Len(request) + 1
  OBVIOUS
<1>1. /\ readed_data \in Seq(Cell) /\ read_pos \in Nat /\ read_pos <= Len(readed_data)
      /\ wire \in Seq(Cell) /\ request \in Seq(Cell) /\ write_buffer \in Seq(Cell)
      /\ uploaded \in Seq(Cell) /\ pending_data \in [1..BUF -> Cell] /\ pending_pos \in Nat
      /\ pending_pos <= BUF
  BY DEF TypeOK, NoOverflow
<1>2. /\ Unscanned \in Seq(Cell) /\ Len(Unscanned) = Len(readed_data) - read_pos
      /\ \A i \in 1..Len(Unscanned) : Unscanned[i] = readed_data[read_pos + i]
  <2>1. Len(readed_data) \in Nat /\ Len(readed_data) <= Len(readed_data)
    BY <1>1, Nothing
  <2>2. QED
    BY <1>1, <2>1, Piece DEF Unscanned
<1>3. /\ Pending \in Seq(Cell) /\ Len(Pending) = pending_pos
      /\ \A i \in 1..pending_pos : Pending[i] = pending_data[i]
  <2>1. \A i \in 1..pending_pos : pending_data[i] \in Cell
    BY <1>1, BufAssumption
  <2>2. 1 \in Int /\ pending_pos \in Int
    BY <1>1
  <2>3. /\ Pending \in Seq(Cell)
        /\ Len(Pending) = IF 1 <= pending_pos THEN pending_pos - 1 + 1 ELSE 0
        /\ \A i \in 1..(pending_pos - 1 + 1) : Pending[i] = pending_data[1 + i - 1]
    BY <2>1, <2>2, SubSeqProperties DEF Pending
  <2>4. pending_pos - 1 + 1 = pending_pos /\ \A i \in 1..pending_pos : 1 + i - 1 = i
    BY <1>1
  <2>5. QED
    BY <1>1, <2>3, <2>4
<1>4. Gathered \in Seq(Cell) /\ Held \in Seq(Cell)
  BY <1>1, <1>3 DEF Gathered, Held
<1>5. <<NL>> \in Seq(Cell) /\ Len(<<NL>>) = 1
  BY Terminators
<1>6. /\ request \o <<NL>> \in Seq(Cell)
      /\ Len(request \o <<NL>>) = Len(request) + Len(<<NL>>)
  BY <1>1, <1>5, Joined
<1>7. Header \in Seq(Cell)
  BY <1>6, Nothing DEF Header
<1>8. Unscanned \o wire \in Seq(Cell)
  BY <1>1, <1>2, Joined
<1>9. Flow \in Seq(Cell)
  BY <1>4, <1>8, Joined DEF Flow
<1>10. Said \in Seq(Cell)
  BY <1>7, <1>9, Joined DEF Said
<1>11. QED
  BY <1>1, <1>2, <1>3, <1>4, <1>5, <1>6, <1>7, <1>8, <1>9, <1>10

\* The stream of CommandStream is Flow, and it awaits what the slot awaits.
LEMMA Mapping ==
  TypeOK /\ NoOverflow /\ pc # "ub" =>
    /\ peer = "none" => Untaken = <<>> /\ AwaitedFor = <<>>
    /\ peer # "none" => Untaken = Flow
    /\ peer # "none" /\ Awaiting => AwaitedFor = request
    /\ ~Awaiting => AwaitedFor = <<>>
<1> SUFFICES ASSUME TypeOK, NoOverflow, pc # "ub"
             PROVE  /\ peer = "none" => Untaken = <<>> /\ AwaitedFor = <<>>
                    /\ peer # "none" => Untaken = Flow
                    /\ peer # "none" /\ Awaiting => AwaitedFor = request
                    /\ ~Awaiting => AwaitedFor = <<>>
  OBVIOUS
<1>1. Unparsed = Held
  BY DEF Unparsed, Held, Awaiting, Gathered, Pending
<1>2. Held \in Seq(Cell) /\ Unscanned \in Seq(Cell) /\ wire \in Seq(Cell)
  BY PartTypes
<1>3. (Held \o Unscanned) \o wire = Held \o (Unscanned \o wire)
  BY <1>2, Regroup
<1>4. peer # "none" => Untaken = Flow
  BY <1>1, <1>3 DEF Untaken, Flow, Unscanned
<1>5. QED
  BY <1>4 DEF Untaken, AwaitedFor, Awaiting


LEMMA MappingNext ==
  (TypeOK /\ NoOverflow /\ pc # "ub")' =>
    (/\ peer = "none" => Untaken = <<>> /\ AwaitedFor = <<>>
     /\ peer # "none" => Untaken = Flow
     /\ peer # "none" /\ Awaiting => AwaitedFor = request
     /\ ~Awaiting => AwaitedFor = <<>>)'
BY Mapping, PTL

LEMMA PartTypesNext ==
  (TypeOK /\ NoOverflow)' =>
    (/\ Unscanned \in Seq(Cell) /\ Pending \in Seq(Cell) /\ Len(Pending) = pending_pos
     /\ \A i \in 1..pending_pos : Pending[i] = pending_data[i]
     /\ Gathered \in Seq(Cell) /\ Held \in Seq(Cell) /\ Header \in Seq(Cell)
     /\ wire \in Seq(Cell) /\ Flow \in Seq(Cell))'
<1>1. TypeOK /\ NoOverflow =>
        (/\ Unscanned \in Seq(Cell) /\ Pending \in Seq(Cell) /\ Len(Pending) = pending_pos
         /\ \A i \in 1..pending_pos : Pending[i] = pending_data[i]
         /\ Gathered \in Seq(Cell) /\ Held \in Seq(Cell) /\ Header \in Seq(Cell)
         /\ wire \in Seq(Cell) /\ Flow \in Seq(Cell))
  BY PartTypes
<1>2. QED
  BY <1>1, PTL

\* A step that only moves cells within the slot is none of CommandStream.
LEMMA Unseen ==
  ASSUME PInv, IInv', pc' # "ub", peer' = peer, log' = log, Flow' = Flow,
         Awaiting' <=> Awaiting, Awaiting => request' = request
  PROVE  UNCHANGED Stream!vars
<1>1. pc # "ub" /\ TypeOK /\ NoOverflow /\ TypeOK' /\ NoOverflow'
  BY DEF PInv, IInv, Agree
<1>2. /\ peer = "none" => Untaken = <<>> /\ AwaitedFor = <<>>
      /\ peer # "none" => Untaken = Flow
      /\ peer # "none" /\ Awaiting => AwaitedFor = request
      /\ ~Awaiting => AwaitedFor = <<>>
  BY <1>1, Mapping
<1>3. /\ peer' = "none" => Untaken' = <<>> /\ AwaitedFor' = <<>>
      /\ peer' # "none" => Untaken' = Flow'
      /\ peer' # "none" /\ Awaiting' => AwaitedFor' = request'
      /\ ~Awaiting' => AwaitedFor' = <<>>
  BY <1>1, MappingNext
<1>4. Untaken' = Untaken
  BY <1>2, <1>3
<1>5. AwaitedFor' = AwaitedFor
  BY <1>2, <1>3
<1>6. QED
  BY <1>4, <1>5 DEF Stream!vars

\* Cells that move within what was said leave the conversation what it was.
LEMMA SameSaid ==
  ASSUME PInv, Flow' = Flow, Header' = Header, peer' = peer, streaming' = streaming
  PROVE  InStep'
BY DEF PInv, InStep, Said

LEMMA InitKept == Init => Kept /\ Stream!Init
<1> SUFFICES ASSUME Init PROVE Kept /\ Stream!Init
  OBVIOUS
<1>1. IInv /\ TypeOK /\ NoOverflow
  BY InitInv DEF IInv
<1>2. /\ peer = "none" /\ wire = <<>> /\ pc = "select" /\ log = <<>> /\ pending_pos = 0
      /\ in_cmd = FALSE /\ readed_data = <<>> /\ pending_size = 0
  BY DEF Init
<1>3. Agree /\ AtRest /\ PayloadComes /\ StreamsLast
  BY <1>2 DEF Agree, AtRest, PayloadComes, StreamsLast, Awaiting
<1>4. Said = <<>>
  <2>1. /\ Unscanned \in Seq(Cell) /\ Len(Unscanned) = Len(readed_data) - read_pos
        /\ Pending \in Seq(Cell) /\ Len(Pending) = 0
    BY <1>1, <1>2, PartTypes
  <2>2. Pending = <<>>
    BY <2>1, Nothing
  <2>3. Unscanned = <<>>
    <3>1. read_pos = 0 /\ Len(readed_data) = 0
      BY <1>2, Nothing DEF Init
    <3>2. Len(Unscanned) = 0
      BY <2>1, <3>1
    <3>3. QED
      BY <2>1, <3>2, Nothing
  <2>4. Header = <<>> /\ Held = <<>>
    BY <1>2, <2>2 DEF Header, Held, Awaiting
  <2>5. <<>> \o <<>> = <<>>
    BY Nothing
  <2>6. QED
    BY <1>2, <2>3, <2>4, <2>5 DEF Said, Flow
<1>5. InStep
  <2>1. <<>> \in Whole
    BY WholeExtended DEF Extended
  <2>2. QED
    BY <1>4, <2>1, Nothing DEF InStep, Conversations
<1>6. Stream!Init
  <2>1. Untaken = <<>> /\ AwaitedFor = <<>>
    BY <1>1, <1>2, Mapping
  <2>2. QED
    BY <1>2, <2>1 DEF Stream!Init
<1>7. QED
  BY <1>3, <1>5, <1>6 DEF Kept

-----------------------------------------------------------------------------
(* Clients, and the slot between reads.                                    *)

\* What a client adds is behind all that was said.
LEMMA Appended ==
  ASSUME TypeOK, NoOverflow, NEW m \in Seq(Cell), wire' = wire \o m,
         Held' = Held, Unscanned' = Unscanned, Header' = Header
  PROVE  Flow' = Flow \o m /\ Said' = Said \o m
<1>1. /\ Held \in Seq(Cell) /\ Unscanned \in Seq(Cell) /\ wire \in Seq(Cell)
      /\ Header \in Seq(Cell) /\ Flow \in Seq(Cell) /\ Unscanned \o wire \in Seq(Cell)
  BY PartTypes
<1>2. Unscanned \o (wire \o m) = (Unscanned \o wire) \o m
  <2>1. Unscanned \in Seq(Cell) /\ wire \in Seq(Cell) /\ m \in Seq(Cell)
    BY <1>1
  <2>2. QED
    BY <2>1, Regroup
<1> DEFINE a == Unscanned \o wire
<1>3. a \in Seq(Cell)
  BY <1>1
<1>4. Flow = Held \o a /\ Flow' = Held \o (a \o m)
  BY <1>2 DEF Flow
<1> HIDE DEF a
<1>5. Held \o (a \o m) = (Held \o a) \o m
  <2>1. Held \in Seq(Cell) /\ a \in Seq(Cell) /\ m \in Seq(Cell)
    BY <1>1, <1>3
  <2>2. QED
    BY <2>1, Regroup
<1>6. Flow' = Flow \o m
  BY <1>4, <1>5
<1>7. Header \o (Flow \o m) = (Header \o Flow) \o m
  <2>1. Header \in Seq(Cell) /\ Flow \in Seq(Cell) /\ m \in Seq(Cell)
    BY <1>1
  <2>2. QED
    BY <2>1, Regroup
<1>8. QED
  BY <1>6, <1>7 DEF Said

LEMMA SendsKept ==
  ASSUME PoliteClients, PInv, IInv',
         NEW r \in Requests, NEW k \in 1..Len(r), \E i \in 1..k : r[i] = NL,
         peer = "open", ~streaming, wire' = wire \o SubSeq(r, 1, k),
         peer' \in {"open", "closing"},
         peer' = "open" /\ ~streaming' => r \in Plain /\ SubSeq(r, 1, k) = r,
         UNCHANGED <<scanVars, pendingVars, writeVars, uploadVars, cmdVars>>
  PROVE  Kept' /\ \E m \in UNION { { SubSeq(q, 1, j) : j \in 1..Len(q) } : q \in Requests } :
                    Stream!Send(m)
<1>1. TypeOK /\ NoOverflow /\ TypeOK' /\ NoOverflow'
  BY DEF PInv, IInv
<1>2. UNCHANGED <<pc, readed_data, read_pos, pending_data, pending_size, pending_pos, in_cmd,
                  current_cmd, request, log, write_info_size, write_buffer, write_pointer,
                  upload_file_fd, uploaded_size, uploaded_file_size, uploaded>>
  BY DEF scanVars, pendingVars, writeVars, uploadVars, cmdVars
<1>3. /\ Unscanned' = Unscanned /\ Pending' = Pending /\ Gathered' = Gathered
      /\ (Awaiting' <=> Awaiting)
  BY <1>2 DEF Unscanned, Pending, Gathered, Awaiting
<1>4. Held' = Held /\ Header' = Header
  BY <1>2, <1>3 DEF Held, Header
<1>5. PICK m : m = SubSeq(r, 1, k)
  OBVIOUS
<1>6. Said \in Whole
  BY DEF PInv, InStep
<1>7. /\ m \in Seq(Cell) /\ Said \o m \in Conversations
      /\ r \in Plain => Said \o r \in Whole
  BY <1>5, <1>6, Says
<1>8. Flow' = Flow \o m /\ Said' = Said \o m
  BY <1>1, <1>3, <1>4, <1>5, <1>7, Appended
<1>9. InStep'
  BY <1>5, <1>7, <1>8 DEF InStep
<1>10. Agree' /\ PayloadComes'
  BY <1>2, <1>3 DEF PInv, Agree, PayloadComes
<1>11. AtRest' /\ StreamsLast'
  BY <1>2 DEF AtRest, StreamsLast, PInv
<1>12. Stream!Send(m)
  <2>1. pc # "ub" /\ pc' # "ub"
    BY <1>2 DEF PInv, Agree
  <2>2. Untaken = Flow /\ Untaken' = Flow'
    BY <1>1, <2>1, Mapping, MappingNext
  <2>3. AwaitedFor' = AwaitedFor
    <3>1. /\ Awaiting => AwaitedFor = request
          /\ ~Awaiting => AwaitedFor = <<>>
      BY <1>1, <2>1, Mapping
    <3>2. /\ Awaiting' => AwaitedFor' = request'
          /\ ~Awaiting' => AwaitedFor' = <<>>
      BY <1>1, <2>1, MappingNext
    <3>3. QED
      BY <1>2, <1>3, <3>1, <3>2
  <2>4. QED
    BY <1>2, <1>8, <2>2, <2>3 DEF Stream!Send
<1>13. m \in UNION { { SubSeq(q, 1, j) : j \in 1..Len(q) } : q \in Requests }
  BY <1>5
<1>14. QED
  BY <1>9, <1>10, <1>11, <1>12, <1>13 DEF Kept

LEMMA ClientKept ==
  ASSUME PoliteClients, PInv, IInv', Client
  PROVE  Kept' /\ [Stream!Next]_(Stream!vars)
<1>1. ASSUME NEW r \in Requests, Send(r)
      PROVE  Kept' /\ [Stream!Next]_(Stream!vars)
  <2>1. r \in Seq(Cell)
    BY RequestsAssumption
  <2>2. PICK e \in 1..Len(r) : r[e] = NL
    BY DEF PoliteClients, Polite, FirstAt
  <2>3. Len(r) \in 1..Len(r)
    BY <2>1, <2>2, Nothing
  <2>4. SubSeq(r, 1, Len(r)) = r
    <3> DEFINE C == Cell
    <3> HIDE DEF C
    <3>1. r \in Seq(C)
      BY <2>1 DEF C
    <3>2. QED
      BY <3>1, SubSeqFull
  <2>5. /\ peer = "open" /\ ~streaming /\ wire' = wire \o r /\ peer' = "open"
        /\ ~streaming' => Verb(r) # "STREAM_FILE"
        /\ UNCHANGED <<scanVars, pendingVars, writeVars, uploadVars, cmdVars>>
    BY <1>1 DEF Send, MaySend, PoliteClients
  <2>6. ~streaming' => r \in Plain
    BY <2>5 DEF Plain
  <2>7. Kept' /\ \E m \in UNION { { SubSeq(q, 1, j) : j \in 1..Len(q) } : q \in Requests } :
                   Stream!Send(m)
    BY <2>2, <2>3, <2>4, <2>5, <2>6, SendsKept
  <2>8. QED
    BY <2>7 DEF Stream!Next
<1>2. ASSUME NEW r \in Requests, NEW k \in 1..(Len(r) - 1), SendPart(r, k)
      PROVE  Kept' /\ [Stream!Next]_(Stream!vars)
  <2>1. k \in 1..Len(r)
    BY RequestsAssumption, Nothing
  <2>2. /\ peer = "open" /\ ~streaming /\ wire' = wire \o SubSeq(r, 1, k) /\ peer' = "closing"
        /\ \E i \in 1..k : r[i] = NL
        /\ UNCHANGED <<scanVars, pendingVars, writeVars, uploadVars, cmdVars>>
    BY <1>2 DEF SendPart, MaySend, PoliteClients
  <2>3. Kept' /\ \E m \in UNION { { SubSeq(q, 1, j) : j \in 1..Len(q) } : q \in Requests } :
                   Stream!Send(m)
    BY <2>1, <2>2, SendsKept
  <2>4. QED
    BY <2>3 DEF Stream!Next
<1>3. CASE Close
  <2>1. /\ peer = "open" /\ peer' = "closing" /\ UNCHANGED wire /\ UNCHANGED streaming
        /\ UNCHANGED <<pc, readed_data, read_pos, pending_data, pending_size, pending_pos, in_cmd,
                  current_cmd, request, log, write_info_size, write_buffer, write_pointer,
                  upload_file_fd, uploaded_size, uploaded_file_size, uploaded>>
    BY <1>3 DEF Close, scanVars, pendingVars, writeVars, uploadVars, cmdVars
  <2>2. Kept'
    BY <2>1 DEF PInv, Kept, Agree, AtRest, PayloadComes, StreamsLast, InStep, Awaiting, Gathered,
                Unscanned, Said, Header, Flow, Held, Pending
  <2>3. Untaken' = Untaken /\ AwaitedFor' = AwaitedFor
    BY <2>1 DEF Untaken, AwaitedFor, Unparsed
  <2>4. Stream!Close
    BY <2>1, <2>3 DEF Stream!Close
  <2>5. QED
    BY <2>2, <2>4 DEF Stream!Next
<1>4. ~Abort
  BY DEF Abort, PoliteClients
<1>5. QED
  BY <1>1, <1>2, <1>3, <1>4 DEF Client


\* A slot that holds nothing, with nothing under way.
LEMMA HoldsNothing ==
  TypeOK /\ NoOverflow /\ ~in_cmd /\ pending_pos = 0 /\ readed_data = <<>> /\ wire = <<>> =>
    Flow = <<>> /\ Header = <<>> /\ InStep
<1> SUFFICES ASSUME TypeOK, NoOverflow, ~in_cmd, pending_pos = 0, readed_data = <<>>, wire = <<>>
             PROVE  Flow = <<>> /\ Header = <<>> /\ InStep
  OBVIOUS
<1>1. /\ Unscanned \in Seq(Cell) /\ Len(Unscanned) = Len(readed_data) - read_pos
      /\ Pending \in Seq(Cell) /\ Len(Pending) = 0
  BY PartTypes
<1>2. Pending = <<>>
  BY <1>1, Nothing
<1>3. Unscanned = <<>>
  <2>1. Len(readed_data) = 0 /\ read_pos \in Nat /\ read_pos <= Len(readed_data)
    BY Nothing DEF TypeOK
  <2>2. Len(Unscanned) = 0
    BY <1>1, <2>1
  <2>3. QED
    BY <1>1, <2>2, Nothing
<1>4. <<>> \o <<>> = <<>>
  BY Nothing
<1>5. Header = <<>> /\ Flow = <<>>
  BY <1>2, <1>3, <1>4 DEF Header, Held, Awaiting, Flow
<1>6. <<>> \in Whole
  BY WholeExtended DEF Extended
<1>7. QED
  BY <1>4, <1>5, <1>6, Nothing DEF InStep, Said, Conversations

\* add_to_clients.
LEMMA AcceptKept ==
  ASSUME PInv, IInv', Accept
  PROVE  Kept' /\ [Stream!Next]_(Stream!vars)
<1>1. /\ peer = "none" /\ peer' = "open" /\ ~in_cmd' /\ pending_size' = 0 /\ log' = <<>>
      /\ UNCHANGED <<wire, pc, readed_data, read_pos, pending_pos, current_cmd>>
  BY DEF Accept, scanVars
<1>2. wire = <<>> /\ pc = "select" /\ readed_data = <<>> /\ log = <<>> /\ pending_pos = 0
  BY <1>1 DEF PInv, AtRest, Agree
<1>3. /\ wire' = <<>> /\ pc' = "select" /\ readed_data' = <<>> /\ pending_pos' = 0
      /\ TypeOK /\ NoOverflow /\ TypeOK' /\ NoOverflow' /\ pc # "ub"
  BY <1>1, <1>2 DEF PInv, IInv
<1>4. Flow' = <<>> /\ InStep'
  <2>1. (TypeOK /\ NoOverflow /\ ~in_cmd /\ pending_pos = 0 /\ readed_data = <<>> /\ wire = <<>>)' =>
          (Flow = <<>> /\ Header = <<>> /\ InStep)'
    BY HoldsNothing, PTL
  <2>2. QED
    BY <1>1, <1>3, <2>1
<1>5. Agree'
  BY <1>1, <1>3 DEF Agree
<1>6. AtRest' /\ PayloadComes' /\ StreamsLast'
  BY <1>1 DEF AtRest, PayloadComes, StreamsLast, Awaiting
<1>7. Untaken = <<>> /\ AwaitedFor = <<>>
  BY <1>1, <1>3, Mapping
<1>8. Untaken' = <<>> /\ AwaitedFor' = <<>>
  <2>1. pc' # "ub" /\ peer' # "none" /\ ~Awaiting'
    BY <1>1, <1>3 DEF Awaiting
  <2>2. QED
    BY <1>3, <1>4, <2>1, MappingNext
<1>9. Stream!Connect
  BY <1>1, <1>2, <1>7, <1>8 DEF Stream!Connect
<1>10. QED
  BY <1>4, <1>5, <1>6, <1>9 DEF Kept, Stream!Next

\* read_client_data: what is read leaves the wire.
LEMMA ReadKept ==
  ASSUME PInv, IInv', ReadSome
  PROVE  Kept' /\ [Stream!Next]_(Stream!vars)
<1>1. PICK k \in 1..BUF : Read(k)
  BY DEF ReadSome
<1>2. /\ pc = "select" /\ k <= Len(wire) /\ pc' = "scan" /\ read_pos' = 0
      /\ readed_data' = SubSeq(wire, 1, k) /\ wire' = SubSeq(wire, k + 1, Len(wire))
      /\ UNCHANGED <<peer, streaming, pending_data, pending_size, pending_pos, in_cmd, current_cmd,
                     request, log, write_info_size, write_buffer, write_pointer, upload_file_fd,
                     uploaded_size, uploaded_file_size, uploaded>>
  BY <1>1 DEF Read, pendingVars, writeVars, uploadVars, cmdVars
<1>3. /\ readed_data = <<>> /\ TypeOK /\ NoOverflow /\ TypeOK' /\ NoOverflow'
      /\ wire \in Seq(Cell) /\ Len(wire) \in Nat /\ k \in Nat /\ k >= 1
  BY <1>2, BufAssumption, Nothing DEF PInv, IInv, Agree, TypeOK
<1>4. wire # <<>>
  BY <1>2, <1>3, Nothing
<1>5. Unscanned = <<>>
  <2>1. Len(readed_data) = 0 /\ read_pos \in Nat /\ read_pos <= Len(readed_data)
    BY <1>3, Nothing DEF TypeOK
  <2>2. Unscanned \in Seq(Cell) /\ Len(Unscanned) = 0
    BY <1>3, <2>1, PartTypes
  <2>3. QED
    BY <2>2, Nothing
<1>6. Unscanned' \o wire' = wire
  <2>1. readed_data' \in Seq(Cell)
    BY <1>3 DEF TypeOK
  <2>2. Unscanned' = readed_data'
    <3>1. Unscanned' = SubSeq(readed_data', 0 + 1, Len(readed_data'))
      BY <1>2 DEF Unscanned
    <3> DEFINE C == Cell
               a == readed_data'
    <3> HIDE DEF C, a
    <3>2. a \in Seq(C)
      BY <2>1 DEF C, a
    <3>3. SubSeq(a, 1, Len(a)) = a /\ 0 + 1 = 1
      BY <3>2, SubSeqFull
    <3>4. QED
      BY <3>1, <3>3 DEF a
  <2>3. SubSeq(wire, 0 + 1, Len(wire)) = SubSeq(wire, 0 + 1, k) \o SubSeq(wire, k + 1, Len(wire))
    <3>1. wire \in Seq(Cell) /\ 0 \in Nat /\ k \in Nat /\ 0 <= k /\ k <= Len(wire)
      BY <1>2, <1>3
    <3>2. QED
      BY <3>1, Splits
  <2>4. SubSeq(wire, 1, Len(wire)) = wire
    <3> DEFINE C == Cell
    <3> HIDE DEF C
    <3>1. wire \in Seq(C)
      BY <1>3 DEF C
    <3>2. QED
      BY <3>1, SubSeqFull
  <2>5. 0 + 1 = 1
    OBVIOUS
  <2>6. QED
    BY <1>2, <2>2, <2>3, <2>4, <2>5
<1>7. Unscanned \o wire = wire
  BY <1>3, <1>5, Nothing
<1>8. Held' = Held /\ Header' = Header /\ (Awaiting' <=> Awaiting)
  BY <1>2 DEF Held, Header, Awaiting, Gathered, Pending
<1>9. Flow' = Flow
  BY <1>6, <1>7, <1>8 DEF Flow
<1>10. InStep'
  BY <1>2, <1>8, <1>9, SameSaid
<1>11. Agree' /\ PayloadComes'
  BY <1>2 DEF PInv, Agree, PayloadComes, Awaiting, Gathered
<1>12. AtRest' /\ StreamsLast'
  BY <1>2, <1>4 DEF PInv, AtRest, StreamsLast
<1>13. UNCHANGED Stream!vars
  BY <1>2, <1>8, <1>9, Unseen
<1>14. QED
  BY <1>10, <1>11, <1>12, <1>13 DEF Kept

\* What was said and is not nothing has a first line.
LEMMA HasLine ==
  ASSUME PoliteClients, NEW s \in Conversations, s # <<>>
  PROVE  \E p \in 1..Len(s) : FirstAt(s, NL, p)
<1>1. PICK r \in Requests : \E k \in 1..Len(r), t \in Conversations : Opens(s, r, k, t)
  BY ConversationOpens
<1>2. PICK k \in 1..Len(r), t \in Conversations : Opens(s, r, k, t)
  BY <1>1
<1>3. r \in Seq(Cell) /\ t \in Seq(Cell) /\ Len(r) \in Nat /\ k \in Nat /\ k <= Len(r)
  BY RequestsAssumption, Nothing DEF Conversations
<1>4. PICK start \in Seq(Cell) : start = SubSeq(r, 1, k) /\ Len(start) = k
                                 /\ \A i \in 1..k : start[i] = r[i]
  BY <1>3, Start
<1>5. s = start \o t
  BY <1>2, <1>4 DEF Opens
<1>6. /\ Len(start \o t) = Len(start) + Len(t) /\ Len(t) \in Nat
      /\ \A i \in 1..Len(start) : (start \o t)[i] = start[i]
  BY <1>3, <1>4, Joined
<1>7. Len(s) >= k /\ Len(s) \in Nat /\ \A i \in 1..k : s[i] = r[i]
  BY <1>3, <1>4, <1>5, <1>6
<1>8. PICK e \in 1..Len(r) : FirstAt(r, NL, e)
  BY DEF PoliteClients, Polite
<1>9. PICK i \in 1..k : r[i] = NL
  BY <1>2 DEF Opens
<1>10. ~(i < e)
  BY <1>3, <1>8, <1>9 DEF FirstAt
<1>11. e \in 1..k /\ e \in 1..Len(s) /\ \A j \in 1..(e - 1) : j \in 1..k
  BY <1>3, <1>7, <1>10
<1>12. FirstAt(s, NL, e)
  BY <1>7, <1>8, <1>11 DEF FirstAt
<1>13. QED
  BY <1>11, <1>12

\* remove_client, for a client that closed: nothing it said is left to do.
LEMMA DisconnectKept ==
  ASSUME PoliteClients, PInv, IInv', Disconnect
  PROVE  Kept' /\ [Stream!Next]_(Stream!vars)
<1>1. /\ pc = "select" /\ peer \in {"closing", "reset"} /\ wire = <<>> /\ peer' = "none"
      /\ log' = <<>> /\ readed_data = <<>>
      /\ UNCHANGED <<wire, streaming, pc, readed_data, read_pos, pending_data, pending_size,
                     pending_pos, in_cmd, current_cmd, request, write_info_size, write_buffer,
                     write_pointer, upload_file_fd, uploaded_size, uploaded_file_size, uploaded>>
  BY DEF Disconnect, scanVars, pendingVars, writeVars, uploadVars, PInv, Agree
<1>2. TypeOK /\ NoOverflow /\ TypeOK' /\ NoOverflow'
  BY DEF PInv, IInv
<1>3. Unscanned \o wire = <<>>
  <2>1. Len(readed_data) = 0 /\ read_pos \in Nat /\ read_pos <= Len(readed_data)
    BY <1>1, <1>2, Nothing DEF TypeOK
  <2>2. Unscanned \in Seq(Cell) /\ Len(Unscanned) = 0
    BY <1>2, <2>1, PartTypes
  <2>3. Unscanned = <<>>
    BY <2>2, Nothing
  <2>4. QED
    BY <1>1, <2>3, Nothing
<1>4. Flow = Held /\ Held \in Seq(Cell)
  <2>1. Held \in Seq(Cell)
    BY <1>2, PartTypes
  <2>2. QED
    BY <1>3, <2>1, Nothing DEF Flow
<1>5. ASSUME ~Awaiting PROVE Flow = <<>> /\ pending_pos = 0
  <2>1. Said = Pending /\ Held = Pending /\ Pending \in Seq(Cell) /\ Len(Pending) = pending_pos
    <3>1. Pending \in Seq(Cell) /\ Len(Pending) = pending_pos
      BY <1>2, PartTypes
    <3>2. Header = <<>> /\ Held = Pending
      BY <1>5 DEF Header, Held
    <3>3. QED
      BY <1>4, <3>1, <3>2, Nothing DEF Said
  <2>2. Pending = <<>>
    <3>1. SUFFICES ASSUME Pending # <<>> PROVE FALSE
      OBVIOUS
    <3>2. Pending \in Conversations
      BY <2>1 DEF PInv, InStep
    <3>3. PICK p \in 1..Len(Pending) : FirstAt(Pending, NL, p)
      BY <3>1, <3>2, HasLine
    <3>4. pending_data[p] = NL /\ p \in 1..pending_pos
      <4>1. p \in 1..pending_pos
        BY <2>1
      <4>2. Pending[p] = pending_data[p]
        BY <1>2, <4>1, PartTypes
      <4>3. QED
        BY <3>3, <4>1, <4>2 DEF FirstAt
    <3>5. ~in_cmd
      BY <3>4 DEF PInv, Agree, TypeOK
    <3>6. QED
      BY <3>4, <3>5 DEF PInv, Agree
  <2>3. QED
    BY <1>4, <2>1, <2>2, Nothing
<1>6. pending_pos = 0
  BY <1>5 DEF PInv, Agree, Awaiting
<1>7. AtRest' /\ Agree'
  BY <1>1, <1>6 DEF PInv, Agree, AtRest
<1>8. PayloadComes' /\ StreamsLast'
  BY <1>1 DEF PInv, PayloadComes, StreamsLast, Awaiting, Gathered, Unscanned
<1>9. InStep'
  BY <1>1 DEF PInv, InStep, Said, Flow, Header, Held, Awaiting, Gathered, Pending, Unscanned
<1>10. peer # "none" /\ Untaken = Flow
  BY <1>1, <1>2, Mapping
<1>11. Untaken' = <<>> /\ AwaitedFor' = <<>>
  BY <1>1, <1>2, MappingNext
<1>12. ~Stream!Ready
  <2>1. CASE Awaiting
    <3>1. AwaitedFor = request /\ Untaken = Gathered
      BY <1>1, <1>2, <1>4, <1>10, <2>1, Mapping DEF Held
    <3>2. request # <<>> /\ Len(Gathered) < Size(request) /\ Size(request) \in Int
      <4>1. PoliteLine(request) /\ Len(Gathered) < Size(request) /\ request \in Seq(Cell)
        BY <1>2, <2>1 DEF PInv, PayloadComes, TypeOK
      <4>2. Verb(request) # "nul"
        BY <4>1 DEF PoliteLine, Verbs
      <4>3. Len(request) # 0
        BY <4>2 DEF Verb
      <4>4. QED
        BY <4>1, <4>3, Nothing, SizeType
    <3>3. ~(Len(Gathered) >= Size(request))
      <4>1. Gathered \in Seq(Cell)
        BY <1>2, PartTypes
      <4>2. Len(Gathered) \in Nat
        BY <4>1, Nothing
      <4>3. QED
        BY <3>2, <4>2
    <3>4. QED
      BY <3>1, <3>2, <3>3 DEF Stream!Ready, Stream!LineReady, Stream!PayloadReady, Stream!Size, Size
  <2>2. CASE ~Awaiting
    <3>1. AwaitedFor = <<>> /\ Untaken = <<>>
      BY <1>1, <1>2, <1>5, <1>10, <2>2, Mapping
    <3>2. 1..Len(<<>>) = {}
      BY Nothing
    <3>3. QED
      BY <3>1, <3>2 DEF Stream!Ready, Stream!LineReady, Stream!PayloadReady
  <2>3. QED
    BY <2>1, <2>2
<1>13. Stream!Hangup
  BY <1>1, <1>11, <1>12, <1>10 DEF Stream!Hangup
<1>14. QED
  BY <1>7, <1>8, <1>9, <1>13 DEF Kept, Stream!Next


-----------------------------------------------------------------------------
(* Lines, and what is kept of them.                                        *)

\* Cells copied behind the start of a line are behind it.
LEMMA CopiedCells ==
  ASSUME TypeOK, NoOverflow, NEW b \in Seq(Cell), pending_pos + Len(b) <= BUF
  PROVE  /\ pending_pos \in Nat /\ Len(b) \in Nat
         /\ \A i \in 1..(pending_pos + Len(b)) :
              Copied(pending_data, pending_pos, b)[i] = (Pending \o b)[i]
<1>1. pending_pos \in Nat /\ Len(b) \in Nat
  BY Nothing DEF TypeOK
<1>2. /\ Pending \in Seq(Cell) /\ Len(Pending) = pending_pos
      /\ \A i \in 1..pending_pos : Pending[i] = pending_data[i]
  BY PartTypes
<1>3. /\ \A i \in 1..Len(Pending) : (Pending \o b)[i] = Pending[i]
      /\ \A i \in 1..Len(b) : (Pending \o b)[Len(Pending) + i] = b[i]
  BY <1>2, Joined
<1>4. ASSUME NEW i \in 1..(pending_pos + Len(b))
      PROVE  Copied(pending_data, pending_pos, b)[i] = (Pending \o b)[i]
  <2>1. i \in 1..BUF
    BY <1>1, BufAssumption
  <2>2. CASE i <= pending_pos
    <3>1. Copied(pending_data, pending_pos, b)[i] = pending_data[i]
      BY <1>1, <2>1, <2>2 DEF Copied
    <3>2. QED
      BY <1>1, <1>2, <1>3, <2>2, <3>1
  <2>3. CASE i > pending_pos
    <3>1. Copied(pending_data, pending_pos, b)[i] = b[i - pending_pos]
      BY <1>1, <2>1, <2>3 DEF Copied
    <3>2. i - pending_pos \in 1..Len(b) /\ pending_pos + (i - pending_pos) = i
      BY <1>1, <2>3
    <3>3. (Pending \o b)[pending_pos + (i - pending_pos)] = b[i - pending_pos]
      BY <1>2, <1>3, <3>2
    <3>4. QED
      BY <3>1, <3>2, <3>3
  <2>4. i <= pending_pos \/ i > pending_pos
    BY <1>1
  <2>5. QED
    BY <2>2, <2>3, <2>4
<1>5. QED
  BY <1>1, <1>4

\* Between requests nothing is in front of the stream.
LEMMA BetweenRequests ==
  ASSUME PInv, ~in_cmd
  PROVE  /\ ~Awaiting /\ Header = <<>> /\ Held = Pending
         /\ Flow = Pending \o (Unscanned \o wire) /\ Said = Flow
         /\ Flow \in Conversations /\ Flow \in Seq(Cell)
<1>1. Header = <<>> /\ Held = Pending /\ ~Awaiting
  BY DEF Header, Held, Awaiting
<1>2. Flow \in Seq(Cell)
  BY PartTypes DEF PInv, IInv
<1>3. Said = Flow
  BY <1>1, <1>2, Nothing DEF Said
<1>4. QED
  BY <1>1, <1>2, <1>3 DEF Flow, PInv, InStep

\* The start of a line leaves room for its newline in pending_data.
LEMMA LineFits ==
  ASSUME PoliteClients, PInv, ~in_cmd, NEW b \in Seq(Cell), NEW rest \in Seq(Cell),
         Flow = (Pending \o b) \o rest, \A i \in 1..Len(b) : b[i] # NL
  PROVE  /\ pending_pos + Len(b) < BUF
         /\ \A i \in 1..(pending_pos + Len(b)) : (Pending \o b)[i] \notin {NL, NUL}
<1>1. /\ Pending \in Seq(Cell) /\ Len(Pending) = pending_pos /\ pending_pos \in Nat /\ Len(b) \in Nat
      /\ \A i \in 1..pending_pos : Pending[i] = pending_data[i]
  BY PartTypes, Nothing DEF PInv, IInv, TypeOK
<1>2. PICK h \in Seq(Cell) : h = Pending \o b /\ Len(h) = pending_pos + Len(b)
  BY <1>1, Joined
<1>3. /\ \A i \in 1..pending_pos : h[i] = Pending[i]
      /\ \A i \in 1..Len(b) : h[pending_pos + i] = b[i]
  <2>1. Pending \in Seq(Cell) /\ b \in Seq(Cell)
    BY <1>1
  <2>2. /\ \A i \in 1..Len(Pending) : (Pending \o b)[i] = Pending[i]
        /\ \A i \in 1..Len(b) : (Pending \o b)[Len(Pending) + i] = b[i]
    BY <2>1, Joined
  <2>3. QED
    BY <1>1, <1>2, <2>2
<1>4. ASSUME NEW i \in 1..Len(h) PROVE h[i] # NL
  <2>1. CASE i <= pending_pos
    <3>1. i \in 1..pending_pos
      BY <1>1, <1>2, <2>1
    <3>2. h[i] = pending_data[i]
      BY <1>1, <1>3, <3>1
    <3>3. pending_data[i] \notin {NL, NUL}
      BY <3>1 DEF PInv, Agree
    <3>4. QED
      BY <3>2, <3>3
  <2>2. CASE i > pending_pos
    <3>1. i - pending_pos \in 1..Len(b) /\ pending_pos + (i - pending_pos) = i
      BY <1>1, <1>2, <2>2
    <3>2. h[pending_pos + (i - pending_pos)] = b[i - pending_pos]
      BY <1>3, <3>1
    <3>3. QED
      BY <3>1, <3>2
  <2>3. QED
    BY <1>1, <1>2, <2>1, <2>2
<1>5. /\ Flow = h \o rest /\ Flow \in Conversations /\ Len(Flow) = Len(h) + Len(rest)
      /\ Len(rest) \in Nat /\ \A i \in 1..Len(h) : Flow[i] = h[i]
  <2>1. Flow = h \o rest /\ Flow \in Conversations
    BY <1>2, BetweenRequests
  <2>2. /\ Len(h \o rest) = Len(h) + Len(rest) /\ Len(rest) \in Nat
        /\ \A i \in 1..Len(h) : (h \o rest)[i] = h[i]
    BY Joined
  <2>3. QED
    BY <2>1, <2>2
<1>6. CASE Flow = <<>>
  <2>1. Len(h) = 0
    BY <1>1, <1>2, <1>5, <1>6, Nothing
  <2>2. QED
    BY <1>1, <1>2, <2>1, BufAssumption
<1>7. CASE Flow # <<>>
  <2>1. PICK p \in 1..Len(Flow) : FirstAt(Flow, NL, p)
    BY <1>5, <1>7, HasLine
  <2>2. p > Len(h) /\ p \in Nat
    <3>1. Flow[p] = NL
      BY <2>1 DEF FirstAt
    <3>2. ~(p \in 1..Len(h))
      BY <1>4, <1>5, <3>1
    <3>3. QED
      BY <1>1, <1>2, <1>5, <3>2
  <2>3. PICK line : line = SubSeq(Flow, 1, p - 1)
    OBVIOUS
  <2>4. PICK n : n = p + Announced(line)
    OBVIOUS
  <2>a. FirstLine(Flow, p, line, n)
    BY <2>1, <2>3, <2>4 DEF FirstLine
  <2>5. line \in Seq(Cell) /\ Len(line) = p - 1 /\ PoliteLine(line) /\ p <= BUF
    BY <1>5, <2>a, FirstRequest
  <2>6. \A i \in 1..(p - 1) : line[i] = Flow[i]
    <3>1. p - 1 \in Nat /\ p - 1 <= Len(Flow)
      BY <1>1, <1>2, <1>5, <2>2
    <3>2. Flow \in Seq(Cell)
      BY BetweenRequests
    <3>3. QED
      BY <2>3, <3>1, <3>2, Start
  <2>7. \A i \in 1..Len(h) : h[i] # NUL
    <3>1. \A i \in 1..Len(h) : i \in 1..(p - 1)
      BY <1>1, <1>2, <2>2
    <3>2. \A i \in 1..(p - 1) : line[i] # NUL
      BY <2>5 DEF PoliteLine
    <3>3. QED
      BY <1>5, <2>6, <3>1, <3>2
  <2>8. pending_pos + Len(b) < BUF
    BY <1>1, <1>2, <2>2, <2>5, BufAssumption
  <2>9. QED
    BY <1>2, <1>4, <2>7, <2>8
<1>8. QED
  BY <1>6, <1>7

\* A read that ends in the middle of a line: what there is of it is kept.
LEMMA PartialLineKept ==
  ASSUME PoliteClients, PInv, IInv', PartialLine
  PROVE  Kept' /\ [Stream!Next]_(Stream!vars)
<1>1. /\ pc = "scan" /\ ~in_cmd /\ \A i \in 1..Len(Unscanned) : Unscanned[i] # NL
      /\ IF pending_pos + Len(Unscanned) > BUF
           THEN Fault
           ELSE /\ pending_data' = Copied(pending_data, pending_pos, Unscanned)
                /\ pending_pos' = pending_pos + Len(Unscanned)
                /\ pending_size' = pending_size + Len(Unscanned)
                /\ pc' = "select" /\ read_pos' = 0 /\ readed_data' = <<>>
      /\ UNCHANGED <<peer, streaming, wire, in_cmd, current_cmd, request, log>>
  BY DEF PartialLine, Unscanned, clientVars, cmdVars
<1>2. /\ TypeOK /\ NoOverflow /\ TypeOK' /\ NoOverflow' /\ Unscanned \in Seq(Cell)
      /\ wire \in Seq(Cell) /\ Pending \in Seq(Cell) /\ Len(Pending) = pending_pos
      /\ pending_pos \in Nat
  BY PartTypes DEF PInv, IInv, TypeOK
<1>3. PICK h \in Seq(Cell) : h = Pending \o Unscanned /\ Len(h) = pending_pos + Len(Unscanned)
                             /\ Len(Unscanned) \in Nat
  BY <1>2, Joined
<1>4. Flow = h \o wire
  <2>1. Pending \in Seq(Cell) /\ Unscanned \in Seq(Cell) /\ wire \in Seq(Cell)
    BY <1>2
  <2>2. (Pending \o Unscanned) \o wire = Pending \o (Unscanned \o wire)
    BY <2>1, Regroup
  <2>3. QED
    BY <1>1, <1>3, <2>2, BetweenRequests
<1>5. /\ pending_pos + Len(Unscanned) < BUF
      /\ \A i \in 1..(pending_pos + Len(Unscanned)) :
           (Pending \o Unscanned)[i] \notin {NL, NUL}
  BY <1>1, <1>2, <1>3, <1>4, LineFits
<1>6. /\ pending_data' = Copied(pending_data, pending_pos, Unscanned)
      /\ pending_pos' = pending_pos + Len(Unscanned)
      /\ pending_size' = pending_size + Len(Unscanned)
      /\ pc' = "select" /\ read_pos' = 0 /\ readed_data' = <<>>
  BY <1>1, <1>2, <1>3, <1>5, BufAssumption
<1>7. \A i \in 1..(pending_pos + Len(Unscanned)) : pending_data'[i] = h[i]
  <2>1. pending_pos + Len(Unscanned) <= BUF
    BY <1>2, <1>3, <1>5, BufAssumption
  <2>2. \A i \in 1..(pending_pos + Len(Unscanned)) :
          Copied(pending_data, pending_pos, Unscanned)[i] = (Pending \o Unscanned)[i]
    BY <1>2, <2>1, CopiedCells
  <2>3. QED
    BY <1>3, <1>6, <2>2
<1>8. Pending' = h
  <2>1. /\ Pending' \in Seq(Cell) /\ Len(Pending') = pending_pos'
        /\ \A i \in 1..pending_pos' : Pending'[i] = pending_data'[i]
    BY <1>2, PartTypesNext
  <2>2. Len(Pending') = Len(h) /\ \A i \in 1..Len(Pending') : Pending'[i] = h[i]
    BY <1>3, <1>6, <1>7, <2>1
  <2>3. PICK q \in Seq(Cell) : q = Pending'
    BY <2>1
  <2>4. Len(q) = Len(h) /\ \A i \in 1..Len(q) : q[i] = h[i]
    BY <2>2, <2>3
  <2>5. q = h
    BY <2>4, SameCells
  <2>6. QED
    BY <2>3, <2>5
<1>9. /\ ~in_cmd' /\ ~Awaiting' /\ ~Awaiting /\ Header' = Header
  BY <1>1 DEF Awaiting, Header
<1>10. Flow' = Flow
  <2>1. Unscanned' = <<>>
    <3>1. Unscanned' = SubSeq(<<>>, 1, 0)
      BY <1>6, Nothing DEF Unscanned
    <3>2. QED
      BY <3>1, SubSeqEmpty
  <2>2. <<>> \o wire = wire
    BY <1>2, Nothing
  <2>3. QED
    BY <1>1, <1>4, <1>8, <1>9, <2>1, <2>2 DEF Flow, Held
<1>11. Agree'
  <2>1. pending_size = pending_pos
    BY DEF PInv, Agree
  <2>2. \A i \in 1..pending_pos' : pending_data'[i] \notin {NL, NUL}
    BY <1>3, <1>5, <1>6, <1>7
  <2>3. QED
    BY <1>6, <1>9, <2>1, <2>2 DEF Agree
<1>12. peer # "none"
  BY <1>1 DEF PInv, AtRest
<1>13. AtRest' /\ PayloadComes' /\ StreamsLast'
  BY <1>1, <1>9, <1>12 DEF AtRest, PayloadComes, StreamsLast
<1>14. InStep'
  BY <1>1, <1>9, <1>10, SameSaid
<1>15. UNCHANGED Stream!vars
  BY <1>1, <1>6, <1>9, <1>10, Unseen
<1>16. QED
  BY <1>11, <1>13, <1>14, <1>15 DEF Kept


\* What a line's newline in what was read tells: the line, which is all that
\* the handlers see, is the first of what the client said.
Found(e, line, rest) ==
  /\ line \in Seq(Cell) /\ rest \in Seq(Cell) /\ Fits(e)
  /\ \A i \in 1..Len(line) : line[i] # NL
  /\ rest = SubSeq(readed_data, e + 1, Len(readed_data)) \o wire
  /\ Flow = (line \o <<NL>>) \o rest
  /\ \A z \in 1..BUF : FirstAt(Block(e), NUL, z) => Line(e, z) = line

LEMMA LineFound ==
  ASSUME PoliteClients, PInv, NEW e, LineEnds(e)
  PROVE  \E line, rest : Found(e, line, rest)
<1>1. /\ TypeOK /\ NoOverflow /\ ~in_cmd /\ e \in Nat /\ read_pos \in Nat /\ e - 1 \in Nat
      /\ read_pos + 1 <= e /\ e <= Len(readed_data) /\ readed_data \in Seq(Cell)
      /\ Len(readed_data) \in Nat /\ readed_data[e] = NL
      /\ \A i \in (read_pos + 1)..(e - 1) : readed_data[i] # NL
  BY Nothing DEF PInv, IInv, TypeOK, LineEnds
<1>2. PICK b \in Seq(Cell) : /\ b = SubSeq(readed_data, read_pos + 1, e - 1)
                             /\ Len(b) = (e - 1) - read_pos
                             /\ \A i \in 1..Len(b) : b[i] = readed_data[read_pos + i]
  <2>1. PICK m \in Nat : m = e - 1
    BY <1>1
  <2>2. /\ readed_data \in Seq(Cell) /\ read_pos \in Nat /\ read_pos <= m
        /\ m <= Len(readed_data)
    BY <1>1, <2>1
  <2>3. /\ SubSeq(readed_data, read_pos + 1, m) \in Seq(Cell)
        /\ Len(SubSeq(readed_data, read_pos + 1, m)) = m - read_pos
        /\ \A k \in 1..(m - read_pos) :
             SubSeq(readed_data, read_pos + 1, m)[k] = readed_data[read_pos + k]
    BY <2>2, Piece
  <2>4. QED
    BY <2>1, <2>3
<1>3. PICK part \in Seq(Cell) : /\ part = SubSeq(readed_data, read_pos + 1, e)
                                /\ Len(part) = e - read_pos
                                /\ \A i \in 1..Len(part) : part[i] = readed_data[read_pos + i]
  <2>1. /\ readed_data \in Seq(Cell) /\ read_pos \in Nat /\ e \in Nat /\ read_pos <= e
        /\ e <= Len(readed_data)
    BY <1>1
  <2>2. /\ SubSeq(readed_data, read_pos + 1, e) \in Seq(Cell)
        /\ Len(SubSeq(readed_data, read_pos + 1, e)) = e - read_pos
        /\ \A k \in 1..(e - read_pos) :
             SubSeq(readed_data, read_pos + 1, e)[k] = readed_data[read_pos + k]
    BY <2>1, Piece
  <2>3. QED
    BY <2>2
<1>4. PICK after \in Seq(Cell) : after = SubSeq(readed_data, e + 1, Len(readed_data))
  <2>1. Len(readed_data) <= Len(readed_data)
    BY <1>1
  <2>2. QED
    BY <1>1, <2>1, Piece
<1>5. PICK nl \in Seq(Cell) : nl = <<NL>> /\ Len(nl) = 1 /\ nl[1] = NL
  <2>1. <<NL>> \in Seq(Cell) /\ Len(<<NL>>) = 1 /\ <<NL>>[1] = NL
    BY Terminators
  <2>2. QED
    BY <2>1
<1>6. part = b \o nl
  <2>1. /\ b \o nl \in Seq(Cell) /\ Len(b \o nl) = Len(b) + Len(nl)
        /\ \A i \in 1..Len(b) : (b \o nl)[i] = b[i]
        /\ \A i \in 1..Len(nl) : (b \o nl)[Len(b) + i] = nl[i]
    BY Joined
  <2>2. Len(b) \in Nat /\ Len(part) = Len(b) + 1 /\ Len(part) = Len(b \o nl)
    BY <1>1, <1>2, <1>3, <1>5, <2>1
  <2>3. ASSUME NEW i \in 1..Len(part) PROVE part[i] = (b \o nl)[i]
    <3>1. CASE i \in 1..Len(b)
      BY <1>2, <1>3, <2>1, <3>1
    <3>2. CASE i = Len(b) + 1
      <4>1. (b \o nl)[Len(b) + 1] = NL
        BY <1>5, <2>1
      <4>2. read_pos + i = e
        BY <1>1, <1>2, <3>2
      <4>3. part[i] = readed_data[e]
        BY <1>3, <4>2
      <4>4. QED
        BY <1>1, <3>2, <4>1, <4>3
    <3>3. QED
      BY <2>2, <3>1, <3>2
  <2>4. QED
    BY <2>1, <2>2, <2>3, SameCells
<1>7. \A i \in 1..Len(b) : b[i] # NL
  <2>1. \A i \in 1..Len(b) : read_pos + i \in (read_pos + 1)..(e - 1)
    BY <1>1, <1>2
  <2>2. QED
    BY <1>1, <1>2, <2>1
<1>8. /\ Pending \in Seq(Cell) /\ Len(Pending) = pending_pos /\ wire \in Seq(Cell)
      /\ pending_pos \in Nat /\ pending_size = pending_pos
  BY <1>1, PartTypes DEF TypeOK, PInv, Agree
<1>9. PICK line \in Seq(Cell) : line = Pending \o b /\ Len(line) = pending_pos + Len(b)
                                /\ Len(b) \in Nat
  BY <1>8, Joined
<1>10. PICK rest \in Seq(Cell) : rest = after \o wire
  BY <1>8, Joined
<1>11. Flow = (line \o nl) \o rest /\ Flow = line \o (nl \o rest) /\ nl \o rest \in Seq(Cell)
  <2>1. Unscanned = part \o after
    <3>1. read_pos \in Nat /\ e \in Nat /\ read_pos <= e /\ e <= Len(readed_data)
      BY <1>1
    <3>2. SubSeq(readed_data, read_pos + 1, Len(readed_data)) =
            SubSeq(readed_data, read_pos + 1, e) \o SubSeq(readed_data, e + 1, Len(readed_data))
      BY <1>1, <3>1, Splits
    <3>3. QED
      BY <1>3, <1>4, <3>2 DEF Unscanned
  <2>2. PICK w \in Seq(Cell), h \in Seq(Cell) : w = wire /\ h = Pending
    BY <1>8
  <2>a. Shaped(h, b, nl, after, w)
    BY LineShape
  <2>3. /\ h \o (((b \o nl) \o after) \o w) = ((h \o b) \o nl) \o (after \o w)
        /\ h \o (((b \o nl) \o after) \o w) = (h \o b) \o (nl \o (after \o w))
    BY <2>a DEF Shaped
  <2>4. Flow = h \o (((b \o nl) \o after) \o w)
    BY <1>1, <1>6, <2>1, <2>2, BetweenRequests
  <2>5. nl \o rest \in Seq(Cell)
    BY Joined
  <2>6. QED
    BY <1>9, <1>10, <2>2, <2>3, <2>4, <2>5
<1>12. /\ pending_pos + Len(b) < BUF
       /\ \A i \in 1..(pending_pos + Len(b)) : line[i] \notin {NL, NUL}
  <2>1. PICK x \in Seq(Cell) : x = nl \o rest
    BY <1>11
  <2>2. Flow = (Pending \o b) \o x
    BY <1>9, <1>11, <2>1
  <2>3. /\ pending_pos + Len(b) < BUF
        /\ \A i \in 1..(pending_pos + Len(b)) : (Pending \o b)[i] \notin {NL, NUL}
    BY <1>1, <1>7, <2>2, LineFits
  <2>4. QED
    BY <1>9, <2>3
<1>13. Fits(e) /\ pending_pos + Len(part) <= BUF /\ pending_pos + Len(part) = Len(line) + 1
  <2>1. Len(part) = Len(b) + 1 /\ Len(part) = e - read_pos
    <3>1. e \in Nat /\ read_pos \in Nat
      BY <1>1
    <3>2. PICK l : l = Len(b) /\ l = (e - 1) - read_pos
      BY <1>2
    <3>3. l + 1 = e - read_pos
      BY <3>1, <3>2
    <3>4. QED
      BY <1>3, <3>2, <3>3
  <2>2. pending_pos + Len(b) + 1 <= BUF /\ Len(b) \in Nat
    BY <1>8, <1>9, <1>12, BufAssumption
  <2>3. pending_pos + Len(part) <= BUF /\ pending_pos + Len(part) = Len(line) + 1
    BY <1>8, <1>9, <2>1, <2>2
  <2>4. QED
    BY <2>1, <2>3 DEF Fits
<1>14. /\ \A i \in 1..Len(line) : Block(e)[i] = line[i]
       /\ Block(e)[Len(line) + 1] = NUL
  <2>1. PICK d : d = Copied(pending_data, pending_pos, part)
    OBVIOUS
  <2>2. \A i \in 1..(pending_pos + Len(part)) : d[i] = (Pending \o part)[i]
    BY <1>1, <1>13, <2>1, CopiedCells
  <2>3. Pending \o part = line \o nl
    <3>1. PICK h \in Seq(Cell) : h = Pending
      BY <1>8
    <3>2. Assoc(h, b, nl)
      BY Assocs
    <3>3. QED
      BY <1>6, <1>9, <3>1, <3>2 DEF Assoc
  <2>4. \A i \in 1..Len(line) : (line \o nl)[i] = line[i]
    BY Joined
  <2>5. Block(e) = [d EXCEPT ![Len(line) + 1] = NUL]
    <3>1. pending_size + (e - read_pos) = Len(line) + 1
      BY <1>3, <1>8, <1>13
    <3>2. QED
      BY <1>3, <2>1, <3>1 DEF Block
  <2>6. DOMAIN d = 1..BUF /\ Len(line) \in Nat
    BY <1>8, <1>9, <2>1 DEF Copied
  <2>7. Len(line) + 1 \in 1..BUF
    BY <1>13, <2>6, BufAssumption
  <2>8. Block(e)[Len(line) + 1] = NUL
    BY <2>5, <2>6, <2>7
  <2>9. ASSUME NEW i \in 1..Len(line) PROVE Block(e)[i] = line[i]
    <3>1. i \in 1..BUF /\ i # Len(line) + 1 /\ i \in 1..(pending_pos + Len(part))
      <4>1. PICK l \in Nat : l = Len(line)
        BY <2>6
      <4>2. i \in 1..l /\ l + 1 \in 1..BUF /\ pending_pos + Len(part) = l + 1 /\ BUF \in Nat
        BY <1>13, <2>7, <4>1, BufAssumption
      <4>3. i \in 1..BUF /\ i # l + 1 /\ i \in 1..(l + 1)
        BY <4>2
      <4>4. QED
        BY <4>1, <4>2, <4>3
    <3>2. Block(e)[i] = d[i]
      BY <2>5, <2>6, <3>1
    <3>3. QED
      BY <2>2, <2>3, <2>4, <3>1, <3>2
  <2>10. QED
    BY <2>8, <2>9
<1>15. ASSUME NEW z \in 1..BUF, FirstAt(Block(e), NUL, z) PROVE Line(e, z) = line
  <2>1. Len(line) \in Nat /\ z \in Nat
    BY <1>8, <1>9, BufAssumption
  <2>2. Block(e)[z] = NUL /\ \A j \in 1..(z - 1) : Block(e)[j] # NUL
    BY <1>15 DEF FirstAt
  <2>3. ~(z <= Len(line))
    <3>1. SUFFICES ASSUME z <= Len(line) PROVE FALSE
      OBVIOUS
    <3>2. z \in 1..Len(line) /\ z \in 1..(pending_pos + Len(b))
      BY <1>9, <2>1, <3>1
    <3>3. QED
      BY <1>12, <1>14, <2>2, <3>2
  <2>4. ~(Len(line) + 1 < z)
    <3>1. SUFFICES ASSUME Len(line) + 1 < z PROVE FALSE
      OBVIOUS
    <3>2. Len(line) + 1 \in 1..(z - 1)
      BY <2>1, <3>1
    <3>3. QED
      BY <1>14, <2>2, <3>2
  <2>5. z - 1 = Len(line)
    <3>1. PICK l \in Nat : l = Len(line)
      BY <2>1
    <3>2. ~(z <= l) /\ ~(l + 1 < z) /\ z \in Nat
      BY <2>1, <2>3, <2>4, <3>1
    <3>3. z - 1 = l
      BY <3>2
    <3>4. QED
      BY <3>1, <3>3
  <2>6. PICK d : d = Block(e)
    OBVIOUS
  <2>7. \A i \in 1..Len(line) : d[i] \in Cell /\ d[i] = line[i]
    BY <1>14, <2>6, LenProperties
  <2>8. /\ SubSeq(d, 1, Len(line)) \in Seq(Cell)
        /\ Len(SubSeq(d, 1, Len(line))) = IF 1 <= Len(line) THEN Len(line) - 1 + 1 ELSE 0
        /\ \A i \in 1..(Len(line) - 1 + 1) : SubSeq(d, 1, Len(line))[i] = d[1 + i - 1]
    <3>1. 1 \in Int /\ Len(line) \in Int /\ \A i \in 1..Len(line) : d[i] \in Cell
      BY <2>1, <2>7
    <3>2. QED
      BY <3>1, SubSeqProperties
  <2>9. PICK q \in Seq(Cell) : q = SubSeq(d, 1, Len(line))
    BY <2>8
  <2>10. Len(q) = Len(line) /\ \A i \in 1..Len(q) : q[i] = line[i]
    <3>1. Len(line) - 1 + 1 = Len(line) /\ \A i \in 1..Len(line) : 1 + i - 1 = i
      BY <2>1
    <3>2. Len(q) = Len(line)
      BY <2>1, <2>8, <2>9
    <3>3. QED
      BY <2>7, <2>8, <2>9, <3>1, <3>2
  <2>11. q = line
    BY <2>10, SameCells
  <2>12. QED
    BY <2>5, <2>6, <2>9, <2>11 DEF Line
<1>16. \A i \in 1..Len(line) : line[i] # NL
  BY <1>9, <1>12
<1>17. Found(e, line, rest)
  BY <1>4, <1>5, <1>10, <1>11, <1>13, <1>15, <1>16 DEF Found
<1>18. QED
  BY <1>17

\* The loop goes on behind position pos of what was read.
LEMMA LoopLeaves ==
  ASSUME TypeOK, NEW pos \in Nat, pos <= Len(readed_data), LoopFrom(pos)
  PROVE  /\ pc' \in {"select", "scan"} /\ (pc' = "select" => readed_data' = <<>>)
         /\ Unscanned' = SubSeq(readed_data, pos + 1, Len(readed_data))
<1>1. readed_data \in Seq(Cell) /\ Len(readed_data) \in Nat
  BY Nothing DEF TypeOK
<1>2. CASE pos = 0 \/ pos < Len(readed_data)
  BY <1>2 DEF LoopFrom, Unscanned
<1>3. CASE ~(pos = 0 \/ pos < Len(readed_data))
  <2>1. readed_data' = <<>> /\ read_pos' = 0 /\ pc' = "select" /\ pos = Len(readed_data)
    BY <1>1, <1>3 DEF LoopFrom
  <2>2. Unscanned' = SubSeq(<<>>, 1, 0)
    BY <2>1, Nothing DEF Unscanned
  <2>3. SubSeq(<<>>, 1, 0) = <<>>
    BY SubSeqEmpty
  <2>4. SubSeq(readed_data, pos + 1, Len(readed_data)) = <<>>
    BY <1>1, <2>1, SubSeqEmpty
  <2>5. QED
    BY <2>1, <2>2, <2>3, <2>4
<1>4. QED
  BY <1>2, <1>3


-----------------------------------------------------------------------------
(* Lines carried out.                                                      *)

\* A line, its newline, and what follows.
Starts(s, line, rest) ==
  s = (line \o <<NL>>) \o rest /\ \A i \in 1..Len(line) : line[i] # NL

\* What is left of the cells behind a line after those it announces.
Left(rest, n) == SubSeq(rest, n + 1, Len(rest))

LEMMA BehindLine ==
  ASSUME NEW line \in Seq(Cell), NEW rest \in Seq(Cell), NEW s, Starts(s, line, rest)
  PROVE  /\ s \in Seq(Cell) /\ Len(line) \in Nat /\ Len(rest) \in Nat /\ Len(s) \in Nat
         /\ Len(s) = Len(line) + 1 + Len(rest) /\ Len(line) + 1 \in 1..Len(s)
         /\ FirstAt(s, NL, Len(line) + 1)
         /\ SubSeq(s, 1, Len(line)) = line
         /\ SubSeq(s, (Len(line) + 1) + 1, Len(s)) = rest
<1>1. PICK nl \in Seq(Cell) : nl = <<NL>> /\ Len(nl) = 1 /\ nl[1] = NL
  <2>1. <<NL>> \in Seq(Cell) /\ Len(<<NL>>) = 1 /\ <<NL>>[1] = NL
    BY Terminators
  <2>2. QED
    BY <2>1
<1>2. PICK h \in Seq(Cell) : h = line \o nl
  BY Joined
<1>3. /\ Len(h) = Len(line) + 1 /\ Len(line) \in Nat /\ h[Len(line) + 1] = NL
      /\ \A i \in 1..Len(line) : h[i] = line[i]
  <2>1. /\ Len(line \o nl) = Len(line) + Len(nl) /\ Len(line) \in Nat
        /\ \A i \in 1..Len(line) : (line \o nl)[i] = line[i]
        /\ \A i \in 1..Len(nl) : (line \o nl)[Len(line) + i] = nl[i]
    BY Joined
  <2>2. QED
    BY <1>1, <1>2, <2>1
<1>4. s = h \o rest /\ \A i \in 1..Len(line) : line[i] # NL
  BY <1>1, <1>2 DEF Starts
<1>5. /\ h \o rest \in Seq(Cell) /\ Len(h \o rest) = Len(h) + Len(rest) /\ Len(rest) \in Nat
      /\ \A i \in 1..Len(h) : (h \o rest)[i] = h[i]
  BY Joined
<1>6. SubSeq(h \o rest, Len(h) + 1, Len(h \o rest)) = rest
  BY Parted
<1>7. PICK x \in Seq(Cell) : x = nl \o rest
  BY Joined
<1>8. SubSeq(line \o x, 1, Len(line)) = line
  BY Parted
<1>9. Assoc(line, nl, rest)
  BY Assocs
<1>10. s = line \o x
  BY <1>2, <1>4, <1>7, <1>9 DEF Assoc
<1>11. PICK l \in Nat : l = Len(line)
  BY <1>3
<1>12. FirstAt(s, NL, Len(line) + 1)
  <2>1. l + 1 \in 1..(l + 1) /\ \A j \in 1..((l + 1) - 1) : j \in 1..l /\ j \in 1..(l + 1)
    BY <1>11
  <2>2. s[l + 1] = NL
    BY <1>3, <1>4, <1>5, <1>11, <2>1
  <2>3. ASSUME NEW j \in 1..((l + 1) - 1) PROVE s[j] # NL
    BY <1>3, <1>4, <1>5, <1>11, <2>1
  <2>4. QED
    BY <1>11, <2>2, <2>3 DEF FirstAt
<1>13. QED
  BY <1>3, <1>4, <1>5, <1>6, <1>8, <1>10, <1>12

\* What a conversation that starts with a line tells of it.
LEMMA FirstTold ==
  ASSUME PoliteClients, NEW s \in Conversations, NEW line \in Seq(Cell), NEW rest \in Seq(Cell),
         Starts(s, line, rest)
  PROVE  /\ PoliteLine(line) /\ Announced(line) \in Nat
         /\ Len(rest) >= Announced(line) =>
              /\ Left(rest, Announced(line)) \in Conversations
              /\ s \in Whole => Left(rest, Announced(line)) \in Whole
              /\ Verb(line) = "STREAM_FILE" => Len(rest) = Announced(line) /\ s \notin Whole
<1>1. /\ s \in Seq(Cell) /\ Len(line) \in Nat /\ Len(rest) \in Nat
      /\ Len(s) = Len(line) + 1 + Len(rest) /\ Len(line) + 1 \in 1..Len(s)
      /\ FirstAt(s, NL, Len(line) + 1) /\ SubSeq(s, 1, Len(line)) = line
  BY BehindLine
<1>2. PICK p \in 1..Len(s) : p = Len(line) + 1
  BY <1>1
<1>3. PICK n : n = p + Announced(line)
  OBVIOUS
<1>4. FirstLine(s, p, line, n)
  <2>1. p - 1 = Len(line)
    BY <1>1, <1>2
  <2>2. QED
    BY <1>1, <1>2, <1>3, <2>1 DEF FirstLine
<1>5. /\ PoliteLine(line) /\ Announced(line) \in Nat
      /\ Len(s) >= n => Remains(s, n)
      /\ Len(s) >= n /\ Verb(line) = "STREAM_FILE" => Len(s) = n /\ s \notin Whole
  BY <1>4, FirstRequest
<1>6. ASSUME Len(rest) >= Announced(line)
      PROVE  /\ Left(rest, Announced(line)) \in Conversations
             /\ s \in Whole => Left(rest, Announced(line)) \in Whole
             /\ Verb(line) = "STREAM_FILE" => Len(rest) = Announced(line) /\ s \notin Whole
  <2>1. PICK m \in Nat : m = Announced(line)
    BY <1>5
  <2>2. Len(s) >= n /\ (Len(s) = n => Len(rest) = m) /\ n = (Len(line) + 1) + m
    BY <1>1, <1>2, <1>3, <1>6, <2>1
  <2>3. PICK a \in Seq(Cell), b \in Seq(Cell) :
          a = SubSeq(rest, 0 + 1, m) /\ b = SubSeq(rest, m + 1, Len(rest)) /\ Len(a) = m
    <3>1. 0 \in Nat /\ 0 <= m /\ m <= Len(rest) /\ Len(rest) \in Nat /\ Len(rest) <= Len(rest)
      BY <1>1, <1>6, <2>1
    <3>2. SubSeq(rest, 0 + 1, m) \in Seq(Cell) /\ Len(SubSeq(rest, 0 + 1, m)) = m - 0
      BY <3>1, Piece
    <3>3. SubSeq(rest, m + 1, Len(rest)) \in Seq(Cell)
      BY <3>1, Piece
    <3>4. PICK a \in Seq(Cell) : a = SubSeq(rest, 0 + 1, m)
      BY <3>2
    <3>5. PICK b \in Seq(Cell) : b = SubSeq(rest, m + 1, Len(rest))
      BY <3>3
    <3>6. Len(a) = m
      BY <3>2, <3>4
    <3>7. QED
      BY <3>4, <3>5, <3>6
  <2>4. rest = a \o b
    <3>1. 0 \in Nat /\ 0 <= m /\ m <= Len(rest)
      BY <1>1, <1>6, <2>1
    <3>2. SubSeq(rest, 0 + 1, Len(rest)) = SubSeq(rest, 0 + 1, m) \o SubSeq(rest, m + 1, Len(rest))
      BY <3>1, Splits
    <3>3. SubSeq(rest, 0 + 1, Len(rest)) = rest
      <4> DEFINE C == Cell
      <4> HIDE DEF C
      <4>1. rest \in Seq(C)
        BY DEF C
      <4>2. SubSeq(rest, 1, Len(rest)) = rest /\ 0 + 1 = 1
        BY <4>1, SubSeqFull
      <4>3. QED
        BY <4>2
    <3>4. QED
      BY <2>3, <3>2, <3>3
  <2>5. PICK h \in Seq(Cell) : h = line \o <<NL>> /\ Len(h) = Len(line) + 1
    <3>0. <<NL>> \in Seq(Cell) /\ Len(<<NL>>) = 1
      BY Terminators
    <3>1. PICK nl \in Seq(Cell) : nl = <<NL>> /\ Len(nl) = 1
      BY <3>0
    <3>2. line \o nl \in Seq(Cell) /\ Len(line \o nl) = Len(line) + Len(nl)
      BY Joined
    <3>3. QED
      BY <3>1, <3>2
  <2>6. PICK g \in Seq(Cell) : g = h \o a /\ Len(g) = n
    <3>1. h \o a \in Seq(Cell) /\ Len(h \o a) = Len(h) + Len(a)
      BY Joined
    <3>2. QED
      BY <2>2, <2>3, <2>5, <3>1
  <2>7. s = g \o b
    <3>1. Assoc(h, a, b)
      BY Assocs
    <3>2. QED
      BY <2>4, <2>5, <2>6, <3>1 DEF Assoc, Starts
  <2>8. SubSeq(g \o b, Len(g) + 1, Len(g \o b)) = b
    BY Parted
  <2>9. SubSeq(s, n + 1, Len(s)) = b
    BY <2>6, <2>7, <2>8
  <2>10. Left(rest, Announced(line)) = SubSeq(s, n + 1, Len(s))
    BY <2>1, <2>3, <2>9 DEF Left
  <2>11. Remains(s, n)
    BY <1>5, <2>2
  <2>12. QED
    BY <1>5, <2>1, <2>2, <2>10, <2>11 DEF Remains
<1>7. QED
  BY <1>5, <1>6

\* Taking a line off the stream, in CommandStream's words.
LEMMA Takes ==
  ASSUME NEW line \in Seq(Cell), NEW rest \in Seq(Cell), Starts(Untaken, line, rest),
         AwaitedFor = <<>>, Untaken' = rest, peer' = peer,
         \/ Announces(line) /\ AwaitedFor' = line /\ log' = log
         \/ /\ Verb(line) \in Verbs /\ ~Announces(line) /\ AwaitedFor' = <<>>
            /\ \E r \in Replies(line) : Carried(line, <<>>, r)
  PROVE  Stream!TakeLine
<1>1. PICK p \in 1..Len(Untaken) : p = Len(line) + 1
  BY BehindLine
<1>2. /\ FirstAt(Untaken, NL, p) /\ SubSeq(Untaken, 1, p - 1) = line
      /\ SubSeq(Untaken, p + 1, Len(Untaken)) = rest
  <2>1. Len(line) \in Nat
    BY BehindLine
  <2>2. p - 1 = Len(line)
    BY <1>1, <2>1
  <2>3. QED
    BY <1>1, <2>2, BehindLine
<1>3. Stream!NewlineAt(p)
  BY <1>2 DEF Stream!NewlineAt, Stream!FirstAt, FirstAt, Stream!NL, NL, Stream!Sym, Sym,
             Stream!NoSize, NoSize
<1>4. /\ (Stream!Announces(line) <=> Announces(line)) /\ Stream!Verb(line) = Verb(line)
      /\ Stream!Verbs = Verbs /\ Stream!Replies(line) = Replies(line)
  BY DEF Stream!Announces, Announces, Stream!Verb, Verb, Stream!Size, Size, Stream!NoSize, NoSize,
         Stream!Verbs, Verbs, Stream!Replies, Replies, Stream!Object, Object
<1>5. QED
  BY <1>1, <1>2, <1>3, <1>4 DEF Stream!TakeLine, Carried


\* What process_command does with a line, whichever its handler is.
Handled(line, rest) ==
  /\ pc' \in {"select", "scan"} /\ (pc' = "select" => readed_data' = <<>>)
  /\ Unscanned' \o wire' = rest
  /\ pending_size' = 0 /\ pending_pos' = 0
  /\ current_cmd' = Verb(line) /\ request' = line
  /\ UNCHANGED clientVars

\* A line whose handler has answered is the next request, and what is left is
\* what follows it.
LEMMA LineDone ==
  ASSUME PoliteClients, PInv, IInv', NEW e, LineEnds(e),
         NEW line, NEW rest, Found(e, line, rest), Handled(line, rest),
         ~Announces(line), in_cmd' => Verb(line) = "STREAM_FILE",
         NEW r \in Replies(line), Carried(line, <<>>, r)
  PROVE  Kept' /\ [Stream!Next]_(Stream!vars)
<1>1. /\ pc = "scan" /\ ~in_cmd /\ peer # "none" /\ pc' # "ub"
      /\ TypeOK /\ NoOverflow /\ TypeOK' /\ NoOverflow'
  BY DEF LineEnds, PInv, AtRest, IInv, Handled
<1>2. UNCHANGED <<peer, wire, streaming>>
  BY DEF Handled, clientVars
<1>3. line \in Seq(Cell) /\ rest \in Seq(Cell) /\ Starts(Flow, line, rest)
  BY DEF Found, Starts
<1>4. ~Awaiting /\ Flow \in Conversations /\ Said = Flow
  BY <1>1, BetweenRequests
<1>5. Announced(line) = 0 /\ Left(rest, 0) = rest /\ Len(rest) \in Nat
  <2>1. Len(rest) \in Nat
    BY <1>3, Nothing
  <2>2. SubSeq(rest, 1, Len(rest)) = rest /\ 0 + 1 = 1
    <3> DEFINE C == Cell
    <3> HIDE DEF C
    <3>1. rest \in Seq(C)
      BY <1>3 DEF C
    <3>2. QED
      BY <3>1, SubSeqFull
  <2>3. QED
    BY <2>1, <2>2 DEF Announced, Left
<1>6. /\ PoliteLine(line) /\ rest \in Conversations
      /\ Flow \in Whole => rest \in Whole
      /\ Verb(line) = "STREAM_FILE" => Len(rest) = 0 /\ Flow \notin Whole
  BY <1>3, <1>4, <1>5, FirstTold
<1>7. ~Awaiting' /\ Header' = <<>> /\ Held' = <<>>
  <2>1. ~Awaiting'
    BY DEF Awaiting, Handled
  <2>2. Pending' \in Seq(Cell) /\ Len(Pending') = 0
    BY <1>1, PartTypesNext DEF Handled
  <2>3. Pending' = <<>>
    BY <2>2, Nothing
  <2>4. QED
    BY <2>1, <2>3 DEF Header, Held
<1>8. Flow' = rest /\ Said' = rest
  <2>1. <<>> \o rest = rest
    BY <1>3, Nothing
  <2>2. QED
    BY <1>7, <2>1 DEF Flow, Said, Handled
<1>9. InStep'
  BY <1>2, <1>4, <1>6, <1>8 DEF InStep, PInv
<1>10. Agree'
  <2>1. \A i \in 1..0 : FALSE
    OBVIOUS
  <2>2. QED
    BY <2>1 DEF Agree, Handled
<1>11. AtRest' /\ PayloadComes'
  BY <1>1, <1>2, <1>7 DEF AtRest, PayloadComes
<1>12. StreamsLast'
  <2>1. SUFFICES ASSUME in_cmd'
                 PROVE  (peer' = "open" => streaming') /\ Unscanned' = <<>> /\ wire' = <<>>
    BY DEF StreamsLast
  <2>2. rest = <<>> /\ Flow \notin Whole
    BY <1>3, <1>6, <2>1, Nothing
  <2>3. peer' = "open" => streaming'
    BY <1>2, <1>4, <2>2 DEF PInv, InStep, TypeOK
  <2>4. PICK a \in Seq(Cell), b \in Seq(Cell) : a = Unscanned' /\ b = wire'
    BY <1>1, PartTypesNext
  <2>5. a \o b = <<>>
    BY <2>2, <2>4 DEF Handled
  <2>6. Len(a \o b) = Len(a) + Len(b) /\ Len(a) \in Nat /\ Len(b) \in Nat /\ Len(<<>>) = 0
    BY Joined, Nothing
  <2>7. Len(a) = 0 /\ Len(b) = 0
    BY <2>5, <2>6
  <2>8. QED
    BY <2>3, <2>4, <2>7, Nothing
<1>13. Stream!TakeLine
  <2>1. Untaken = Flow /\ AwaitedFor = <<>>
    BY <1>1, <1>4, Mapping
  <2>2. Untaken' = rest /\ AwaitedFor' = <<>>
    BY <1>1, <1>2, <1>7, <1>8, MappingNext
  <2>3. Verb(line) \in Verbs
    BY <1>6 DEF PoliteLine
  <2>4. Starts(Untaken, line, rest)
    BY <1>3, <2>1
  <2>5. QED
    BY <1>2, <1>3, <2>1, <2>2, <2>3, <2>4, Takes
<1>14. QED
  BY <1>9, <1>10, <1>11, <1>12, <1>13 DEF Kept, Stream!Next

\* A line that announces a payload is taken, and its payload awaited.
LEMMA LineAwaits ==
  ASSUME PoliteClients, PInv, IInv', NEW e, LineEnds(e),
         NEW line, NEW rest, Found(e, line, rest), Handled(line, rest),
         Announces(line), in_cmd', log' = log, Gathered' = <<>>,
         Verb(line) = "WRITE_MEM" => write_pointer' = "live" /\ write_info_size' = Size(line),
         Verb(line) = "PUT_FILE" =>
           /\ upload_file_fd' = "open"
           /\ uploaded_file_size' = Size(line) /\ uploaded_size' = 0
  PROVE  Kept' /\ [Stream!Next]_(Stream!vars)
<1>1. /\ pc = "scan" /\ ~in_cmd /\ peer # "none" /\ pc' # "ub"
      /\ TypeOK /\ NoOverflow /\ TypeOK' /\ NoOverflow'
  BY DEF LineEnds, PInv, AtRest, IInv, Handled
<1>2. UNCHANGED <<peer, wire, streaming>> /\ current_cmd' = Verb(line) /\ request' = line
  BY DEF Handled, clientVars
<1>3. line \in Seq(Cell) /\ rest \in Seq(Cell) /\ Starts(Flow, line, rest)
  BY DEF Found, Starts
<1>4. ~Awaiting /\ Flow \in Conversations /\ Said = Flow
  BY <1>1, BetweenRequests
<1>5. PoliteLine(line)
  BY <1>3, <1>4, FirstTold
<1>6. Awaiting'
  BY <1>2 DEF Awaiting, Announces
<1>7. Header' = line \o <<NL>> /\ Held' = <<>> /\ Flow' = rest
  <2>1. Header' = line \o <<NL>> /\ Held' = <<>>
    BY <1>2, <1>6 DEF Header, Held
  <2>2. <<>> \o rest = rest
    BY <1>3, Nothing
  <2>3. QED
    BY <2>1, <2>2 DEF Flow, Handled
<1>8. Said' = Flow
  BY <1>3, <1>7 DEF Said, Starts
<1>9. InStep'
  BY <1>2, <1>4, <1>8 DEF InStep, PInv
<1>10. Agree'
  <2>1. current_cmd' \in {"WRITE_MEM", "PUT_FILE"}
    BY <1>2 DEF Announces
  <2>2. QED
    BY <2>1 DEF Agree, Handled
<1>11. AtRest' /\ StreamsLast'
  BY <1>1, <1>2 DEF AtRest, StreamsLast, Announces
<1>12. PayloadComes'
  <2>1. Len(Gathered') = 0 /\ Size(line) > 0
    BY <1>5, Nothing DEF PoliteLine
  <2>2. current_cmd' = "PUT_FILE" => uploaded' = <<>>
    BY DEF Gathered
  <2>3. \A i \in 1..Len(line) : line[i] # NL
    BY DEF Found
  <2>4. Len(Gathered') < Size(line)
    <3>1. Size(line) \in Int
      BY <1>3, SizeType
    <3>2. QED
      BY <2>1, <3>1
  <2>5. current_cmd' = "PUT_FILE" => uploaded_size' = Len(uploaded')
    BY <1>2, <2>2, Nothing
  <2>6. QED
    BY <1>2, <1>5, <2>3, <2>4, <2>5 DEF PayloadComes
<1>13. Stream!TakeLine
  <2>1. Untaken = Flow /\ AwaitedFor = <<>>
    BY <1>1, <1>4, Mapping
  <2>2. Untaken' = rest /\ AwaitedFor' = line
    BY <1>1, <1>2, <1>6, <1>7, MappingNext
  <2>3. Starts(Untaken, line, rest)
    BY <1>3, <2>1
  <2>4. QED
    BY <1>2, <1>3, <2>1, <2>2, <2>3, Takes
<1>14. QED
  BY <1>9, <1>10, <1>11, <1>12, <1>13 DEF Kept, Stream!Next

\* What preprocess_data does around every handler makes of a line what
\* Handled says.
LEMMA DispatchHandles ==
  ASSUME PoliteClients, PInv, NEW verb \in Verbs, NEW e, NEW z \in 1..BUF,
         Dispatch(verb, e, z)
  PROVE  \E rest : /\ LineEnds(e) /\ e \in Nat /\ e <= Len(readed_data)
                   /\ Found(e, Line(e, z), rest) /\ PoliteLine(Line(e, z))
                   /\ Line(e, z) \in Seq(Cell) /\ Verb(Line(e, z)) = verb
                   /\ LoopFrom(e) => Handled(Line(e, z), rest)
<1>1. LineEnds(e) /\ TypeOK /\ NoOverflow /\ ~in_cmd /\ FirstAt(Block(e), NUL, z)
  BY DEF Dispatch, LineEnds, PInv, IInv
<1>2. PICK line, rest : Found(e, line, rest)
  BY <1>1, LineFound
<1>3. Line(e, z) = line
  BY <1>1, <1>2 DEF Found
<1>4. /\ line \in Seq(Cell) /\ Verb(line) = verb /\ current_cmd' = verb /\ request' = line
      /\ pending_size' = 0 /\ pending_pos' = 0
      /\ e \in Nat /\ e <= Len(readed_data)
      /\ UNCHANGED clientVars
  BY <1>1, <1>3, DispatchType
<1>5. PoliteLine(line)
  <2>1. Flow \in Conversations
    BY <1>1, BetweenRequests
  <2>2. rest \in Seq(Cell) /\ Starts(Flow, line, rest)
    BY <1>2 DEF Found, Starts
  <2>3. QED
    BY <1>4, <2>1, <2>2, FirstTold
<1>6. ASSUME LoopFrom(e) PROVE Handled(line, rest)
  <2>1. /\ pc' \in {"select", "scan"} /\ (pc' = "select" => readed_data' = <<>>)
        /\ Unscanned' = SubSeq(readed_data, e + 1, Len(readed_data))
    BY <1>1, <1>4, <1>6, LoopLeaves
  <2>2. Unscanned' \o wire' = rest
    BY <1>2, <1>4, <2>1 DEF Found, clientVars
  <2>3. QED
    BY <1>4, <2>1, <2>2 DEF Handled
<1>7. QED
  BY <1>1, <1>2, <1>3, <1>4, <1>5, <1>6


\* Lines that no polite client sends.
LEMMA NoOtherLine ==
  ASSUME PoliteClients, PInv, NEW e, LineEnds(e)
  PROVE  /\ Fits(e)
         /\ \A z \in 1..BUF : FirstAt(Block(e), NUL, z) => Verb(Line(e, z)) \in Verbs
<1>1. PICK line, rest : Found(e, line, rest)
  BY LineFound
<1>2. ~in_cmd
  BY DEF LineEnds
<1>3. Flow \in Conversations
  BY <1>2, BetweenRequests
<1>4. line \in Seq(Cell) /\ rest \in Seq(Cell) /\ Starts(Flow, line, rest)
  BY <1>1 DEF Found, Starts
<1>5. PoliteLine(line)
  BY <1>3, <1>4, FirstTold
<1>6. QED
  BY <1>1, <1>5 DEF Found, PoliteLine

\* The handlers that answer at once.
LEMMA AnswerKept ==
  ASSUME PoliteClients, PInv, IInv', NEW verb \in Verbs, NEW e, NEW z \in 1..BUF,
         Dispatch(verb, e, z), Answer(e, z), ~Announces(Line(e, z))
  PROVE  Kept' /\ [Stream!Next]_(Stream!vars)
<1>1. PICK rest : /\ LineEnds(e) /\ Found(e, Line(e, z), rest)
                  /\ LoopFrom(e) => Handled(Line(e, z), rest)
  BY DispatchHandles
<1>2. PICK r \in Replies(Line(e, z)) : Carried(Line(e, z), <<>>, r)
  BY DEF Answer
<1>3. ~in_cmd' /\ Handled(Line(e, z), rest)
  BY <1>1 DEF Answer
<1>4. QED
  BY <1>1, <1>2, <1>3, LineDone

LEMMA ExecCommandKept ==
  ASSUME PoliteClients, PInv, IInv', NEW e, NEW z \in 1..BUF,
         ExecCommand(e, z) \/ ReadMemory(e, z) \/ DetachedCommand(e, z)
  PROVE  Kept' /\ [Stream!Next]_(Stream!vars)
<1>1. ASSUME NEW verb \in {"CMD", "READ_MEM", "CMD_DETACHED"},
             Dispatch(verb, e, z), Answer(e, z)
      PROVE  Kept' /\ [Stream!Next]_(Stream!vars)
  <2>1. verb \in Verbs
    BY DEF Verbs
  <2>2. ~Announces(Line(e, z))
    BY <1>1 DEF Dispatch, Announces
  <2>3. QED
    BY <1>1, <2>1, <2>2, AnswerKept
<1>2. QED
  BY <1>1 DEF ExecCommand, ReadMemory, DetachedCommand

LEMMA GetFileKept ==
  ASSUME PoliteClients, PInv, IInv', NEW e, NEW z \in 1..BUF, GetFile(e, z)
  PROVE  Kept' /\ [Stream!Next]_(Stream!vars)
<1>1. "GET_FILE" \in Verbs /\ Dispatch("GET_FILE", e, z)
  BY DEF Verbs, GetFile
<1>2. PoliteLine(Line(e, z)) /\ Verb(Line(e, z)) = "GET_FILE"
  BY <1>1, DispatchHandles
<1>3. Answer(e, z) /\ ~Announces(Line(e, z))
  BY <1>2 DEF GetFile, PoliteLine, Announces
<1>4. QED
  BY <1>1, <1>3, AnswerKept

LEMMA WriteMemoryKept ==
  ASSUME PoliteClients, PInv, IInv', NEW e, NEW z \in 1..BUF, WriteMemory(e, z)
  PROVE  Kept' /\ [Stream!Next]_(Stream!vars)
<1>1. "WRITE_MEM" \in Verbs /\ Dispatch("WRITE_MEM", e, z)
  BY DEF Verbs, WriteMemory
<1>2. PICK rest : /\ LineEnds(e) /\ Found(e, Line(e, z), rest)
                  /\ Verb(Line(e, z)) = "WRITE_MEM"
                  /\ LoopFrom(e) => Handled(Line(e, z), rest)
  BY <1>1, DispatchHandles
<1>3. CASE Size(Line(e, z)) = NoSize
  <2>1. Answer(e, z) /\ ~Announces(Line(e, z))
    BY <1>3 DEF WriteMemory, Announces
  <2>2. QED
    BY <1>1, <2>1, AnswerKept
<1>4. CASE Size(Line(e, z)) # NoSize
  <2>1. /\ in_cmd' /\ write_info_size' = Size(Line(e, z)) /\ write_buffer' = <<>>
        /\ write_pointer' = "live" /\ LoopFrom(e) /\ log' = log
    BY <1>4 DEF WriteMemory
  <2>2. Handled(Line(e, z), rest) /\ Announces(Line(e, z))
    BY <1>2, <1>4, <2>1 DEF Announces
  <2>3. Gathered' = <<>>
    BY <1>2, <2>1, <2>2 DEF Gathered, Handled
  <2>4. QED
    BY <1>2, <2>1, <2>2, <2>3, LineAwaits
<1>5. QED
  BY <1>3, <1>4

LEMMA StreamFileKept ==
  ASSUME PoliteClients, PInv, IInv', NEW e, NEW z \in 1..BUF, StreamFile(e, z)
  PROVE  Kept' /\ [Stream!Next]_(Stream!vars)
<1>1. "STREAM_FILE" \in Verbs /\ Dispatch("STREAM_FILE", e, z)
  BY DEF Verbs, StreamFile
<1>2. PICK rest : /\ LineEnds(e) /\ Found(e, Line(e, z), rest) /\ PoliteLine(Line(e, z))
                  /\ Verb(Line(e, z)) = "STREAM_FILE"
                  /\ LoopFrom(e) => Handled(Line(e, z), rest)
  BY <1>1, DispatchHandles
<1>3. LoopFrom(e) /\ \E r \in Replies(Line(e, z)) : Carried(Line(e, z), <<>>, r)
  BY <1>2 DEF StreamFile, PoliteLine
<1>4. PICK r \in Replies(Line(e, z)) : Carried(Line(e, z), <<>>, r)
  BY <1>3
<1>5. ~Announces(Line(e, z)) /\ Handled(Line(e, z), rest)
  BY <1>2, <1>3 DEF Announces
<1>6. QED
  BY <1>2, <1>4, <1>5, LineDone

LEMMA PutFileKept ==
  ASSUME PoliteClients, PInv, IInv', NEW e, NEW z \in 1..BUF, PutFile(e, z)
  PROVE  Kept' /\ [Stream!Next]_(Stream!vars)
<1>1. "PUT_FILE" \in Verbs /\ Dispatch("PUT_FILE", e, z)
  BY DEF Verbs, PutFile
<1>2. PICK rest : /\ LineEnds(e) /\ Found(e, Line(e, z), rest) /\ PoliteLine(Line(e, z))
                  /\ Verb(Line(e, z)) = "PUT_FILE"
                  /\ LoopFrom(e) => Handled(Line(e, z), rest)
  BY <1>1, DispatchHandles
<1>3. Announces(Line(e, z)) /\ Object(Line(e, z)) = "path" /\ Size(Line(e, z)) # NoSize
  BY <1>2 DEF PoliteLine, Announces
<1>4. in_cmd' /\ OpenUpload(Line(e, z)) /\ LoopFrom(e) /\ log' = log
  BY <1>3 DEF PutFile
<1>5. /\ upload_file_fd' = "open" /\ uploaded' = <<>> /\ uploaded_size' = 0
      /\ uploaded_file_size' = Size(Line(e, z))
  BY <1>4 DEF OpenUpload
<1>6. Handled(Line(e, z), rest)
  BY <1>2, <1>4
<1>7. Gathered' = <<>>
  BY <1>2, <1>5, <1>6 DEF Gathered, Handled
<1>8. QED
  BY <1>2, <1>3, <1>4, <1>5, <1>6, <1>7, LineAwaits

LEMMA ProcessLineKept ==
  ASSUME PoliteClients, PInv, IInv', ProcessLine
  PROVE  Kept' /\ [Stream!Next]_(Stream!vars)
<1>1. PICK e \in 1..Len(readed_data) :
        \/ LineTooLong(e)
        \/ \E z \in 1..BUF :
             \/ ExecCommand(e, z) \/ ReadMemory(e, z) \/ WriteMemory(e, z)
             \/ StreamFile(e, z)  \/ GetFile(e, z)    \/ PutFile(e, z)
             \/ DetachedCommand(e, z) \/ UnknownLine(e, z)
  BY DEF ProcessLine
<1>2. ~LineTooLong(e)
  BY NoOtherLine DEF LineTooLong
<1>3. PICK z \in 1..BUF :
             \/ ExecCommand(e, z) \/ ReadMemory(e, z) \/ WriteMemory(e, z)
             \/ StreamFile(e, z)  \/ GetFile(e, z)    \/ PutFile(e, z)
             \/ DetachedCommand(e, z) \/ UnknownLine(e, z)
  BY <1>1, <1>2
<1>4. ~UnknownLine(e, z)
  BY NoOtherLine DEF UnknownLine
<1>5. QED
  BY <1>3, <1>4, ExecCommandKept, WriteMemoryKept, StreamFileKept, GetFileKept, PutFileKept

-----------------------------------------------------------------------------
(* Payloads.                                                               *)

\* The cells taken go from what was read to what is gathered.
LEMMA FeedMoves ==
  ASSUME TypeOK, NoOverflow, Awaiting, LoopFrom(read_pos + Taken), wire' = wire
  PROVE  /\ Gathered \in Seq(Cell) /\ Chunk \in Seq(Cell) /\ Gathered \o Chunk \in Seq(Cell)
         /\ Len(Gathered \o Chunk) = Len(Gathered) + Taken
         /\ Len(Gathered) \in Nat /\ Taken \in Nat
         /\ Unscanned' \o wire' \in Seq(Cell)
         /\ Flow = (Gathered \o Chunk) \o (Unscanned' \o wire')
         /\ pc' \in {"select", "scan"} /\ (pc' = "select" => readed_data' = <<>>)
<1>1. /\ Taken \in Nat /\ read_pos + Taken \in Nat /\ read_pos + Taken <= Len(readed_data)
      /\ Chunk \in Seq(Cell) /\ Len(Chunk) = Taken /\ read_pos \in Nat
      /\ readed_data \in Seq(Cell) /\ Len(readed_data) \in Nat
  BY TakenType, Nothing DEF TypeOK
<1>2. PICK pos \in Nat : pos = read_pos + Taken
  BY <1>1
<1>3. PICK u \in Seq(Cell) : u = SubSeq(readed_data, pos + 1, Len(readed_data))
  <2>1. pos <= Len(readed_data) /\ Len(readed_data) <= Len(readed_data)
    BY <1>1, <1>2
  <2>2. QED
    BY <1>1, <2>1, Piece
<1>4. PICK c \in Seq(Cell) : c = Chunk
  BY <1>1
<1>5. Unscanned = c \o u
  <2>1. readed_data \in Seq(Cell) /\ read_pos <= pos /\ pos <= Len(readed_data)
    BY <1>1, <1>2
  <2>2. SubSeq(readed_data, read_pos + 1, Len(readed_data)) =
          SubSeq(readed_data, read_pos + 1, pos) \o SubSeq(readed_data, pos + 1, Len(readed_data))
    BY <1>1, <2>1, Splits
  <2>3. QED
    BY <1>2, <1>3, <1>4, <2>2 DEF Unscanned, Chunk
<1>6. /\ Unscanned' = u /\ pc' \in {"select", "scan"}
      /\ (pc' = "select" => readed_data' = <<>>)
  BY <1>1, <1>2, <1>3, LoopLeaves
<1>7. PICK g \in Seq(Cell), w \in Seq(Cell) : g = Gathered /\ w = wire
  BY PartTypes
<1>8. PICK r \in Seq(Cell) : r = u \o w
  BY Joined
<1>9. Assoc(c, u, w) /\ Assoc(g, c, r)
  BY Assocs
<1>10. Flow = (g \o c) \o (u \o w)
  BY <1>5, <1>7, <1>8, <1>9 DEF Flow, Held, Assoc
<1>11. /\ g \o c \in Seq(Cell) /\ Len(g \o c) = Len(g) + Len(c) /\ Len(g) \in Nat
  BY Joined
<1>12. QED
  BY <1>1, <1>4, <1>6, <1>7, <1>8, <1>10, <1>11

\* What a payload still wants.
LEMMA Wanted ==
  ASSUME PInv, Awaiting
  PROVE  /\ ToComplete = Size(request) - Len(Gathered) /\ Size(request) \in Nat
         /\ Len(Gathered) \in Nat /\ request \in Seq(Cell)
<1>1. TypeOK /\ NoOverflow
  BY DEF PInv, IInv
<1>2. request \in Seq(Cell) /\ Size(request) # NoSize
  BY <1>1 DEF PInv, PayloadComes, Announces, TypeOK
<1>3. Gathered \in Seq(Cell)
  BY <1>1, PartTypes
<1>4. ToComplete = Size(request) - Len(Gathered)
  <2>1. CASE current_cmd = "WRITE_MEM"
    BY <2>1, ToCompleteValue DEF PInv, PayloadComes, Gathered
  <2>2. CASE current_cmd = "PUT_FILE"
    BY <2>2, ToCompleteValue DEF PInv, PayloadComes, Gathered
  <2>3. QED
    BY <2>1, <2>2 DEF Awaiting
<1>5. QED
  BY <1>2, <1>3, <1>4, SizeType, Nothing


\* A payload of which more is to come.
LEMMA FeedsMore ==
  ASSUME PInv, IInv', Awaiting, pc = "scan", LoopFrom(read_pos + Taken), Taken < ToComplete,
         in_cmd', pending_size' = 0, pending_pos' = 0, log' = log,
         UNCHANGED <<clientVars, current_cmd, request>>,
         Gathered' = Gathered \o Chunk,
         current_cmd = "WRITE_MEM" => UNCHANGED <<write_pointer, write_info_size>>,
         current_cmd = "PUT_FILE" =>
           /\ UNCHANGED <<upload_file_fd, uploaded_file_size>>
           /\ uploaded_size' = uploaded_size + Taken
  PROVE  Kept' /\ [Stream!Next]_(Stream!vars)
<1>1. TypeOK /\ NoOverflow /\ UNCHANGED <<peer, wire, streaming>> /\ peer # "none"
  BY DEF PInv, IInv, clientVars, AtRest
<1>2. /\ Len(Gathered \o Chunk) = Len(Gathered) + Taken
      /\ Len(Gathered) \in Nat /\ Taken \in Nat
      /\ Flow = (Gathered \o Chunk) \o (Unscanned' \o wire')
      /\ pc' \in {"select", "scan"} /\ (pc' = "select" => readed_data' = <<>>)
  BY <1>1, FeedMoves
<1>3. Awaiting' /\ current_cmd' \in {"WRITE_MEM", "PUT_FILE"}
  BY DEF Awaiting
<1>4. Held' = Gathered \o Chunk /\ Header' = Header
  BY <1>3 DEF Held, Header
<1>5. Flow' = Flow
  BY <1>2, <1>4 DEF Flow
<1>6. InStep'
  BY <1>1, <1>4, <1>5, SameSaid
<1>7. Agree'
  BY <1>2, <1>3 DEF Agree
<1>8. AtRest' /\ StreamsLast'
  BY <1>1, <1>3 DEF AtRest, StreamsLast
<1>9. PayloadComes'
  <2>1. /\ PoliteLine(request) /\ Announces(request) /\ Verb(request) = current_cmd
        /\ \A i \in 1..Len(request) : request[i] # NL
    BY DEF PInv, PayloadComes
  <2>2. Len(Gathered') < Size(request) /\ Len(Gathered') = Len(Gathered) + Taken
    <3>1. ToComplete = Size(request) - Len(Gathered) /\ Size(request) \in Nat
      BY Wanted
    <3>2. Len(Gathered) + Taken < Size(request)
      BY <1>2, <3>1
    <3>3. QED
      BY <1>2, <3>2
  <2>3. current_cmd = "WRITE_MEM" =>
          write_pointer' = "live" /\ write_info_size' = Size(request)
    BY DEF PInv, PayloadComes
  <2>4. current_cmd = "PUT_FILE" =>
          /\ upload_file_fd' = "open"
          /\ uploaded_file_size' = Size(request) /\ uploaded_size' = Len(uploaded')
    BY <2>2 DEF PInv, PayloadComes, Gathered
  <2>5. QED
    BY <2>1, <2>2, <2>3, <2>4 DEF PayloadComes
<1>10. UNCHANGED Stream!vars
  BY <1>1, <1>2, <1>3, <1>5, Unseen
<1>11. QED
  BY <1>6, <1>7, <1>8, <1>9, <1>10 DEF Kept

\* A payload that is all there: the request is carried out with it.
LEMMA FeedsAll ==
  ASSUME PoliteClients, PInv, IInv', Awaiting, pc = "scan",
         LoopFrom(read_pos + Taken), Taken = ToComplete,
         ~in_cmd', pending_size' = 0, pending_pos' = 0,
         UNCHANGED <<clientVars, current_cmd, request>>,
         NEW r \in Replies(request), Carried(request, Gathered \o Chunk, r)
  PROVE  Kept' /\ [Stream!Next]_(Stream!vars)
<1>1. /\ TypeOK /\ NoOverflow /\ TypeOK' /\ NoOverflow'
      /\ UNCHANGED <<peer, wire, streaming>> /\ peer # "none" /\ pc # "ub"
  BY DEF PInv, IInv, clientVars, AtRest
<1>2. /\ Gathered \o Chunk \in Seq(Cell) /\ Unscanned' \o wire' \in Seq(Cell)
      /\ Len(Gathered \o Chunk) = Len(Gathered) + Taken
      /\ Len(Gathered) \in Nat /\ Taken \in Nat
      /\ Flow = (Gathered \o Chunk) \o (Unscanned' \o wire')
      /\ pc' \in {"select", "scan"} /\ (pc' = "select" => readed_data' = <<>>)
  BY <1>1, FeedMoves
<1>3. PICK size \in Nat : size = Size(request) /\ Len(Gathered \o Chunk) = size
  <2>1. ToComplete = Size(request) - Len(Gathered) /\ Size(request) \in Nat
    BY Wanted
  <2>2. Len(Gathered) + Taken = Size(request)
    BY <1>2, <2>1
  <2>3. QED
    BY <1>2, <2>1, <2>2
<1>4. PICK data \in Seq(Cell), rest \in Seq(Cell) :
        data = Gathered \o Chunk /\ rest = Unscanned' \o wire'
  BY <1>2
<1>5. /\ Flow = data \o rest /\ SubSeq(Flow, 1, size) = data
      /\ SubSeq(Flow, size + 1, Len(Flow)) = rest /\ Len(Flow) >= size /\ Flow \in Seq(Cell)
  <2>1. SubSeq(data \o rest, 1, Len(data)) = data
    BY Parted
  <2>2. SubSeq(data \o rest, Len(data) + 1, Len(data \o rest)) = rest
    BY Parted
  <2>3. /\ data \o rest \in Seq(Cell) /\ Len(data \o rest) = Len(data) + Len(rest)
        /\ Len(rest) \in Nat /\ Len(data) = size
    BY <1>3, <1>4, Joined
  <2>4. Flow = data \o rest /\ Len(data \o rest) >= size
    BY <1>2, <1>4, <2>3
  <2>5. QED
    BY <2>1, <2>2, <2>3, <2>4
<1>6. request \in Seq(Cell) /\ Announces(request) /\ \A i \in 1..Len(request) : request[i] # NL
  BY Wanted DEF PInv, PayloadComes
<1>7. Starts(Said, request, Flow) /\ Said \in Conversations
  <2>1. Header = request \o <<NL>>
    BY DEF Header
  <2>2. QED
    BY <1>6, <2>1 DEF Starts, Said, PInv, InStep
<1>8. /\ rest \in Conversations /\ (Said \in Whole => rest \in Whole)
      /\ PoliteLine(request)
  <2>1. Announced(request) = size /\ Left(Flow, size) = rest
    BY <1>3, <1>5, <1>6 DEF Announced, Left
  <2>2. /\ PoliteLine(request)
        /\ Len(Flow) >= Announced(request) =>
             /\ Left(Flow, Announced(request)) \in Conversations
             /\ Said \in Whole => Left(Flow, Announced(request)) \in Whole
    BY <1>5, <1>6, <1>7, FirstTold
  <2>3. QED
    BY <1>5, <2>1, <2>2
<1>9. ~Awaiting' /\ Header' = <<>> /\ Held' = <<>>
  <2>1. ~Awaiting'
    BY DEF Awaiting
  <2>2. Pending' \in Seq(Cell) /\ Len(Pending') = 0
    BY <1>1, PartTypesNext
  <2>3. Pending' = <<>>
    BY <2>2, Nothing
  <2>4. QED
    BY <2>1, <2>3 DEF Header, Held
<1>10. Flow' = rest /\ Said' = rest
  <2>1. <<>> \o rest = rest
    BY Nothing
  <2>2. QED
    BY <1>4, <1>9, <2>1 DEF Flow, Said
<1>11. InStep'
  BY <1>1, <1>8, <1>10 DEF InStep, PInv
<1>12. Agree'
  <2>1. \A i \in 1..0 : FALSE
    OBVIOUS
  <2>2. QED
    BY <1>2, <2>1 DEF Agree
<1>13. AtRest' /\ StreamsLast' /\ PayloadComes'
  BY <1>1, <1>9 DEF AtRest, StreamsLast, PayloadComes
<1>14. Stream!TakePayload
  <2>1. Untaken = Flow /\ AwaitedFor = request
    BY <1>1, Mapping
  <2>2. Untaken' = rest /\ AwaitedFor' = <<>>
    <3>1. pc' # "ub" /\ peer' # "none"
      BY <1>1, <1>2
    <3>2. QED
      BY <1>1, <1>9, <1>10, <3>1, MappingNext
  <2>3. request # <<>>
    <3>1. Len(request) # 0
      BY <1>6 DEF Announces, Verb
    <3>2. QED
      BY <1>6, <3>1, Nothing
  <2>4. Stream!Size(request) = size /\ Stream!Replies(request) = Replies(request)
    BY <1>3 DEF Stream!Size, Size, Stream!Replies, Replies, Stream!Object, Object, Stream!Verb, Verb,
               Stream!NoSize, NoSize
  <2>5. Stream!PayloadReady
    BY <1>5, <2>1, <2>3, <2>4 DEF Stream!PayloadReady
  <2>6. QED
    BY <1>1, <1>4, <1>5, <2>1, <2>2, <2>4, <2>5 DEF Stream!TakePayload, Carried
<1>15. QED
  BY <1>11, <1>12, <1>13, <1>14 DEF Kept, Stream!Next

LEMMA FeedWriteKept ==
  ASSUME PoliteClients, PInv, IInv', FeedWrite
  PROVE  Kept' /\ [Stream!Next]_(Stream!vars)
<1>1. /\ pc = "scan" /\ in_cmd /\ current_cmd = "WRITE_MEM" /\ Awaiting
      /\ pending_size' = 0 /\ pending_pos' = 0
      /\ UNCHANGED <<clientVars, current_cmd, request, write_info_size>>
  BY DEF FeedWrite, Feed, Awaiting
<1>2. write_pointer = "live"
  BY <1>1 DEF PInv, PayloadComes
<1>3. /\ LoopFrom(read_pos + Taken)
      /\ \/ /\ Taken < ToComplete
            /\ write_buffer' = write_buffer \o Chunk
            /\ UNCHANGED <<write_pointer, in_cmd, log>>
         \/ /\ Taken = ToComplete
            /\ \E r \in Replies(request) : Carried(request, write_buffer \o Chunk, r)
            /\ in_cmd' = FALSE
  BY <1>2 DEF FeedWrite
<1>4. CASE Taken < ToComplete
  <2>1. Taken # ToComplete
    BY <1>4, TakenType DEF PInv, IInv
  <2>2. Gathered' = Gathered \o Chunk /\ UNCHANGED <<write_pointer, in_cmd, log>>
    BY <1>1, <1>3, <2>1 DEF Gathered
  <2>3. QED
    BY <1>1, <1>3, <1>4, <2>2, FeedsMore
<1>5. CASE ~(Taken < ToComplete)
  <2>1. /\ Taken = ToComplete /\ ~in_cmd'
        /\ \E r \in Replies(request) : Carried(request, write_buffer \o Chunk, r)
    BY <1>3, <1>5
  <2>2. PICK r \in Replies(request) : Carried(request, Gathered \o Chunk, r)
    BY <1>1, <2>1 DEF Gathered
  <2>3. QED
    BY <1>1, <1>3, <2>1, <2>2, FeedsAll
<1>6. QED
  BY <1>4, <1>5

LEMMA FeedPutKept ==
  ASSUME PoliteClients, PInv, IInv', FeedPut
  PROVE  Kept' /\ [Stream!Next]_(Stream!vars)
<1>1. /\ pc = "scan" /\ in_cmd /\ current_cmd = "PUT_FILE" /\ Awaiting
      /\ pending_size' = 0 /\ pending_pos' = 0
      /\ UNCHANGED <<clientVars, current_cmd, request, uploaded_file_size>>
      /\ LoopFrom(read_pos + Taken) /\ uploaded_size' = uploaded_size + Taken
  BY DEF FeedPut, Feed, Awaiting
<1>2. upload_file_fd = "open" /\ Verb(request) = "PUT_FILE"
  BY <1>1 DEF PInv, PayloadComes
<1>3. /\ uploaded' = Gathered \o Chunk /\ Gathered' = Gathered \o Chunk
      /\ \/ Taken < ToComplete /\ UNCHANGED <<upload_file_fd, in_cmd, log>>
         \/ Taken = ToComplete /\ in_cmd' = FALSE /\ Carried(request, uploaded', "none")
  BY <1>1, <1>2 DEF FeedPut, Gathered
<1>4. CASE Taken < ToComplete
  <2>1. Taken # ToComplete
    BY <1>4, TakenType DEF PInv, IInv
  <2>2. UNCHANGED <<upload_file_fd, in_cmd, log>>
    BY <1>3, <2>1
  <2>3. QED
    BY <1>1, <1>3, <1>4, <2>2, FeedsMore
<1>5. CASE ~(Taken < ToComplete)
  <2>1. Taken = ToComplete /\ ~in_cmd' /\ Carried(request, Gathered \o Chunk, "none")
    BY <1>3, <1>5
  <2>2. "none" \in Replies(request)
    BY <1>2 DEF Replies
  <2>3. QED
    BY <1>1, <2>1, <2>2, FeedsAll
<1>6. QED
  BY <1>4, <1>5

\* A client that waits for its streamed file has sent nothing that could be
\* taken for a payload.
LEMMA FeedNobodyKept ==
  ASSUME PoliteClients, PInv, IInv', FeedNobody
  PROVE  Kept' /\ [Stream!Next]_(Stream!vars)
<1>1. /\ pc = "scan" /\ in_cmd /\ current_cmd \notin {"WRITE_MEM", "PUT_FILE"}
      /\ pending_size' = 0 /\ pending_pos' = 0 /\ LoopFrom(read_pos)
      /\ UNCHANGED <<peer, wire, streaming, current_cmd, request, in_cmd, log>>
  BY DEF FeedNobody, Feed, clientVars
<1>2. /\ TypeOK /\ NoOverflow /\ TypeOK' /\ NoOverflow' /\ peer # "none"
      /\ current_cmd = "STREAM_FILE" /\ pending_pos = 0
  BY <1>1 DEF PInv, IInv, AtRest, Agree
<1>3. ~Awaiting /\ ~Awaiting' /\ Header' = Header
  BY <1>1 DEF Awaiting, Header
<1>4. /\ pc' \in {"select", "scan"} /\ (pc' = "select" => readed_data' = <<>>)
      /\ Unscanned' = Unscanned
  <2>1. read_pos \in Nat /\ read_pos <= Len(readed_data)
    BY <1>2 DEF TypeOK
  <2>2. QED
    BY <1>1, <1>2, <2>1, LoopLeaves DEF Unscanned
<1>5. Held = <<>> /\ Held' = <<>>
  <2>1. Pending \in Seq(Cell) /\ Len(Pending) = 0
    BY <1>2, PartTypes
  <2>2. Pending' \in Seq(Cell) /\ Len(Pending') = 0
    BY <1>1, <1>2, PartTypesNext
  <2>3. QED
    BY <1>3, <2>1, <2>2, Nothing DEF Held
<1>6. Flow' = Flow
  BY <1>1, <1>4, <1>5 DEF Flow
<1>7. InStep'
  BY <1>1, <1>3, <1>6, SameSaid
<1>8. Agree'
  BY <1>1, <1>2, <1>4 DEF Agree
<1>9. AtRest' /\ PayloadComes' /\ StreamsLast'
  BY <1>1, <1>2, <1>3, <1>4 DEF AtRest, PayloadComes, StreamsLast, PInv
<1>10. UNCHANGED Stream!vars
  BY <1>1, <1>3, <1>4, <1>6, Unseen
<1>11. QED
  BY <1>7, <1>8, <1>9, <1>10 DEF Kept


-----------------------------------------------------------------------------
(* The theorems.                                                           *)

\* Nothing happens.
LEMMA StutterKept ==
  ASSUME PInv, UNCHANGED vars
  PROVE  Kept' /\ UNCHANGED Stream!vars
<1>1. UNCHANGED <<pc, readed_data, read_pos, pending_data, pending_size, pending_pos, in_cmd,
                  current_cmd, request, log, write_info_size, write_buffer, write_pointer,
                  upload_file_fd, uploaded_size, uploaded_file_size, uploaded,
                  peer, wire, streaming>>
  BY DEF vars, clientVars, scanVars, pendingVars, writeVars, uploadVars, cmdVars
<1>2. Kept'
  BY <1>1 DEF PInv, Kept, Agree, AtRest, PayloadComes, StreamsLast, InStep, Awaiting, Gathered,
              Unscanned, Said, Header, Flow, Held, Pending
<1>3. UNCHANGED Stream!vars
  BY <1>1 DEF Stream!vars, Untaken, AwaitedFor, Unparsed
<1>4. QED
  BY <1>2, <1>3

\* Every step keeps the invariant, and is one of CommandStream or none.
LEMMA StepKept ==
  ASSUME PoliteClients, PInv, [Next]_vars
  PROVE  PInv' /\ [Stream!Next]_(Stream!vars)
<1>1. IInv'
  BY NextInv DEF PInv
<1>2. CASE Next
  <2> SUFFICES Kept' /\ [Stream!Next]_(Stream!vars)
    BY <1>1 DEF PInv, Kept
  <2>1. CASE Client
    BY <1>1, <2>1, ClientKept
  <2>2. CASE Accept
    BY <1>1, <2>2, AcceptKept
  <2>3. CASE ReadSome
    BY <1>1, <2>3, ReadKept
  <2>4. CASE Disconnect
    BY <1>1, <2>4, DisconnectKept
  <2>5. CASE ProcessLine
    BY <1>1, <2>5, ProcessLineKept
  <2>6. CASE PartialLine
    BY <1>1, <2>6, PartialLineKept
  <2>7. CASE FeedWrite \/ FeedPut \/ FeedNobody
    BY <1>1, <2>7, FeedWriteKept, FeedPutKept, FeedNobodyKept
  <2>8. QED
    BY <1>2, <2>1, <2>2, <2>3, <2>4, <2>5, <2>6, <2>7 DEF Next, Server, Preprocess, Feeding
<1>3. CASE UNCHANGED vars
  BY <1>1, <1>3, StutterKept DEF PInv, Kept
<1>4. QED
  BY <1>2, <1>3

LEMMA PoliteInvariant == ASSUME PoliteClients PROVE Spec => []PInv
<1>1. Init => PInv
  BY InitInv, InitKept DEF PInv, Kept
<1>2. PInv /\ [Next]_vars => PInv'
  BY StepKept
<1>3. QED
  BY <1>1, <1>2, PTL DEF Spec

\* With polite clients the parser never leaves a buffer, uses freed memory or
\* puts -1 in the descriptor set, for any buffer size, any requests that fit
\* and any cut of them into reads (server.c:119-121, 132; cmd.c:150, 201-203).
THEOREM PoliteClientsAreSafe == ASSUME PoliteClients PROVE Spec => []NoFault
<1>1. PInv => NoFault
  BY DEF PInv, Agree, NoFault
<1>2. QED
  BY <1>1, PoliteInvariant, PTL

\* The slot implements CommandStream for polite clients: what they say is
\* carried out request by request, in the order said and each with exactly the
\* bytes announced, wherever the reads cut it, and nothing of one client
\* reaches the next (read_client_data, preprocess_data and process_command,
\* server.c:79-194 and cmd.c).
THEOREM SlotKeepsPromise == ASSUME PoliteClients PROVE Spec => Promise
<1>1. Init => PInv /\ Stream!Init
  BY InitInv, InitKept DEF PInv, Kept
<1>2. PInv /\ [Next]_vars => PInv' /\ [Stream!Next]_(Stream!vars)
  BY StepKept
<1>3. QED
  BY <1>1, <1>2, PTL DEF Spec, Promise, Stream!Spec
=============================================================================
