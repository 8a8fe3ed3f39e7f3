-------------------------- MODULE StuffClientProofs --------------------------
(***************************************************************************)
(* For every output, file and cut of what arrives, and whatever was lost   *)
(* before: a command's output is all of it and nothing else, and of a file *)
(* nothing is lost, doubled or out of order from its first data on.        *)
(***************************************************************************)
EXTENDS StuffClient, SequenceTheorems, TLAPS

-----------------------------------------------------------------------------
(* The inductive invariant.                                                *)

ClientTypeOK ==
  /\ state \in {"NONE", "DoingCommand", "StreamingFile", "SendingFile", "GettingFile"}
  /\ commandDatas \in Seq(Cells) /\ fileSizeData \in Seq(Cells) /\ fileSizeGot \in BOOLEAN
  /\ typed \in Requests \cup {NoRequest} /\ request \in Requests \cup {NoRequest}
  /\ wire \in Seq(Cells) /\ arrived \in Seq(Cells) /\ given \in Seq(Cells)

\* When the user waits for nothing, nothing is under way to the class.  While
\* it waits, its line is on the way out or its answer on the way back.
OneConversation ==
  /\ request = NoRequest => wire = <<>> /\ typed.verb \notin Answered
  /\ request # NoRequest => /\ request.verb \in Answered
                            /\ typed = NoRequest \/ (typed = request /\ wire = <<>>)

\* The class is in the state of the request it was asked.
InState ==
  /\ request.verb = "CMD" => state = "DoingCommand"
  /\ request.verb = "GET_FILE" => state = "GettingFile"
  /\ request.verb = "STREAM_FILE" => state = "StreamingFile"

\* What was kept of a command's answer is its start, and there is more.
AnswerComes ==
  request.verb = "CMD" =>
    IF typed = NoRequest THEN wire # <<>> /\ commandDatas \o wire = Answer(request)
    ELSE commandDatas = <<>>

\* At most half of a size is kept, perhaps of a file whose connection was
\* lost, and no data is given before the size is complete.
SizeComes ==
  ~fileSizeGot => Len(fileSizeData) <= 1 /\ (request.verb = "GET_FILE" => given = <<>>)

ClientInv ==
  /\ ClientTypeOK /\ OneConversation /\ InState /\ AnswerComes /\ SizeComes
  /\ OwnOutput /\ GivesEnd

-----------------------------------------------------------------------------
(* Sequences of cells.                                                     *)

\* A suffix, cell by cell.
LEMMA SuffixIndex ==
  ASSUME NEW S, NEW s \in Seq(S), NEW t \in Seq(S)
  PROVE  IsSuffix(s, t) <=> /\ Len(s) <= Len(t)
                            /\ \A i \in 1..Len(s) : s[i] = t[Len(t) - Len(s) + i]
<1> DEFINE rs == Reverse(s)
           rt == Reverse(t)
<1>1. Len(s) \in Nat /\ Len(t) \in Nat
  BY LenProperties
<1>2. /\ rs \in Seq(S) /\ Len(rs) = Len(s) /\ \A i \in 1..Len(s) : rs[i] = s[Len(s) - i + 1]
      /\ rt \in Seq(S) /\ Len(rt) = Len(t) /\ \A i \in 1..Len(t) : rt[i] = t[Len(t) - i + 1]
  <2>1. ASSUME NEW u \in Seq(S)
        PROVE  /\ Reverse(u) \in Seq(S) /\ Len(Reverse(u)) = Len(u)
               /\ \A i \in 1..Len(u) : Reverse(u)[i] = u[Len(u) - i + 1]
    <3>1. Len(u) \in Nat /\ \A i \in 1..Len(u) : u[(Len(u) - i) + 1] \in S
      BY LenProperties
    <3>2. Reverse(u) = [i \in 1..Len(u) |-> u[(Len(u) - i) + 1]]
      BY DEF Reverse
    <3>3. QED
      BY <3>1, <3>2
  <2>2. QED
    BY <2>1
<1> HIDE DEF rs, rt
<1>3. IsSuffix(s, t) <=> Len(s) <= Len(t) /\ SubSeq(rs, 1, Len(s)) = SubSeq(rt, 1, Len(s))
  BY <1>2 DEF IsSuffix, IsPrefix, rs, rt
<1>4. SUFFICES ASSUME Len(s) <= Len(t)
               PROVE  SubSeq(rs, 1, Len(s)) = SubSeq(rt, 1, Len(s))
                        <=> \A i \in 1..Len(s) : s[i] = t[Len(t) - Len(s) + i]
  BY <1>3
<1>5. /\ SubSeq(rs, 1, Len(s)) = rs
      /\ SubSeq(rt, 1, Len(s)) \in Seq(S) /\ Len(SubSeq(rt, 1, Len(s))) = Len(s)
      /\ \A i \in 1..Len(s) : SubSeq(rt, 1, Len(s))[i] = rt[i]
  <2>1. SubSeq(rs, 1, Len(s)) = rs
    BY <1>2, SubSeqFull
  <2>2. \A i \in 1..Len(s) : rt[i] \in S
    BY <1>1, <1>2, <1>4, LenProperties
  <2>3. QED
    BY <1>1, <2>1, <2>2, SubSeqProperties
<1>6. SubSeq(rs, 1, Len(s)) = SubSeq(rt, 1, Len(s)) <=> \A i \in 1..Len(s) : rs[i] = rt[i]
  BY <1>2, <1>5, SeqEqual
<1>7. (\A i \in 1..Len(s) : rs[i] = rt[i]) <=> \A i \in 1..Len(s) : s[i] = t[Len(t) - Len(s) + i]
  <2>1. ASSUME \A i \in 1..Len(s) : rs[i] = rt[i], NEW i \in 1..Len(s)
        PROVE  s[i] = t[Len(t) - Len(s) + i]
    <3> DEFINE j == Len(s) - i + 1
    <3>1. j \in 1..Len(s) /\ j \in 1..Len(t) /\ Len(s) - j + 1 = i /\ Len(t) - j + 1 = Len(t) - Len(s) + i
      BY <1>1, <1>4
    <3>2. rs[j] = rt[j]
      BY <2>1, <3>1
    <3>3. QED
      BY <1>2, <3>1, <3>2
  <2>2. ASSUME \A i \in 1..Len(s) : s[i] = t[Len(t) - Len(s) + i], NEW i \in 1..Len(s)
        PROVE  rs[i] = rt[i]
    <3> DEFINE j == Len(s) - i + 1
    <3>1. j \in 1..Len(s) /\ i \in 1..Len(t) /\ Len(t) - Len(s) + j = Len(t) - i + 1
      BY <1>1, <1>4
    <3>2. s[j] = t[Len(t) - Len(s) + j]
      BY <2>2, <3>1
    <3>3. QED
      BY <1>2, <3>1, <3>2
  <2>3. QED
    BY <2>1, <2>2
<1>8. QED
  BY <1>6, <1>7

\* What both have more at the end leaves a suffix a suffix.
LEMMA SuffixExtends ==
  ASSUME NEW S, NEW s \in Seq(S), NEW t \in Seq(S), NEW d \in Seq(S), IsSuffix(s, t)
  PROVE  IsSuffix(s \o d, t \o d)
<1>1. Len(s) <= Len(t) /\ \A i \in 1..Len(s) : s[i] = t[Len(t) - Len(s) + i]
  BY SuffixIndex
<1>2. /\ s \o d \in Seq(S) /\ Len(s \o d) = Len(s) + Len(d)
      /\ \A i \in 1..(Len(s) + Len(d)) : (s \o d)[i] = IF i <= Len(s) THEN s[i] ELSE d[i - Len(s)]
      /\ t \o d \in Seq(S) /\ Len(t \o d) = Len(t) + Len(d)
      /\ \A i \in 1..(Len(t) + Len(d)) : (t \o d)[i] = IF i <= Len(t) THEN t[i] ELSE d[i - Len(t)]
      /\ Len(s) \in Nat /\ Len(t) \in Nat /\ Len(d) \in Nat
  BY ConcatProperties, LenProperties
<1>3. ASSUME NEW i \in 1..(Len(s) + Len(d))
      PROVE  (s \o d)[i] = (t \o d)[Len(t) - Len(s) + i]
  <2>1. CASE i <= Len(s)
    BY <1>1, <1>2, <2>1
  <2>2. CASE i > Len(s)
    <3> DEFINE j == Len(t) - Len(s) + i
    <3>1. /\ j \in 1..(Len(t) + Len(d)) /\ ~(j <= Len(t)) /\ j - Len(t) = i - Len(s)
          /\ ~(i <= Len(s))
      BY <1>1, <1>2, <2>2
    <3> HIDE DEF j
    <3>2. (t \o d)[j] = d[i - Len(s)]
      BY <1>2, <3>1
    <3>3. (s \o d)[i] = d[i - Len(s)]
      BY <1>2, <3>1
    <3>4. QED
      BY <3>2, <3>3 DEF j
  <2>3. i <= Len(s) \/ i > Len(s)
    BY <1>2
  <2>4. QED
    BY <2>1, <2>2, <2>3, Zenon
<1>4. Len(s \o d) <= Len(t \o d)
      /\ \A i \in 1..Len(s \o d) : (s \o d)[i] = (t \o d)[Len(t \o d) - Len(s \o d) + i]
  BY <1>1, <1>2, <1>3
<1>5. QED
  BY <1>2, <1>4, SuffixIndex

\* Any end of what was read is an end of all that arrived.
LEMMA EndIsSuffix ==
  ASSUME NEW S, NEW a \in Seq(S), NEW b \in Seq(S), NEW d \in Seq(S), NEW k \in Nat, k <= Len(d)
  PROVE  LET c == b \o d IN
         /\ SubSeq(c, Len(c) - k + 1, Len(c)) \in Seq(S)
         /\ IsSuffix(SubSeq(c, Len(c) - k + 1, Len(c)), a \o d)
<1> DEFINE c == b \o d
           e == SubSeq(c, Len(c) - k + 1, Len(c))
           t == a \o d
<1>1. /\ c \in Seq(S) /\ Len(c) = Len(b) + Len(d)
      /\ \A i \in 1..(Len(b) + Len(d)) : c[i] = IF i <= Len(b) THEN b[i] ELSE d[i - Len(b)]
      /\ t \in Seq(S) /\ Len(t) = Len(a) + Len(d)
      /\ \A i \in 1..(Len(a) + Len(d)) : t[i] = IF i <= Len(a) THEN a[i] ELSE d[i - Len(a)]
      /\ Len(a) \in Nat /\ Len(b) \in Nat /\ Len(d) \in Nat
  BY ConcatProperties, LenProperties
<1> HIDE DEF c, t
<1>2. /\ e \in Seq(S) /\ Len(e) = k
      /\ \A i \in 1..k : e[i] = c[Len(c) - k + i]
  <2>1. \A i \in (Len(c) - k + 1)..Len(c) : c[i] \in S
    BY <1>1, LenProperties
  <2>2. /\ e \in Seq(S)
        /\ Len(e) = IF Len(c) - k + 1 <= Len(c) THEN Len(c) - (Len(c) - k + 1) + 1 ELSE 0
        /\ \A i \in 1..(Len(c) - (Len(c) - k + 1) + 1) : e[i] = c[(Len(c) - k + 1) + i - 1]
    BY <1>1, <2>1, SubSeqProperties
  <2> HIDE DEF e
  <2>3. Len(e) = k
    BY <1>1, <2>2
  <2>4. \A i \in 1..k : e[i] = c[Len(c) - k + i]
    BY <1>1, <2>2
  <2>5. QED
    BY <2>2, <2>3, <2>4
<1> HIDE DEF e
<1>3. ASSUME NEW i \in 1..k PROVE e[i] = t[Len(t) - k + i]
  <2> DEFINE x == Len(c) - k + i
             y == Len(t) - k + i
             z == Len(d) - k + i
  <2>1. /\ x \in 1..(Len(b) + Len(d)) /\ ~(x <= Len(b)) /\ x - Len(b) = z
        /\ y \in 1..(Len(a) + Len(d)) /\ ~(y <= Len(a)) /\ y - Len(a) = z
    BY <1>1
  <2> HIDE DEF x, y, z
  <2>2. c[x] = d[z] /\ t[y] = d[z]
    BY <1>1, <2>1
  <2>3. e[i] = c[x]
    BY <1>2 DEF x
  <2>4. QED
    BY <2>2, <2>3 DEF y
<1>4. IsSuffix(e, t)
  <2>1. Len(e) <= Len(t) /\ \A i \in 1..Len(e) : e[i] = t[Len(t) - Len(e) + i]
    BY <1>1, <1>2, <1>3
  <2>2. QED
    BY <1>1, <1>2, <2>1, SuffixIndex
<1>5. QED
  BY <1>2, <1>4 DEF c, e, t

\* A read takes the first cells and leaves the others.
LEMMA ReadSplits ==
  ASSUME NEW S, NEW w \in Seq(S), NEW n \in 1..Len(w)
  PROVE  /\ SubSeq(w, 1, n) \in Seq(S) /\ Len(SubSeq(w, 1, n)) = n
         /\ SubSeq(w, n + 1, Len(w)) \in Seq(S)
         /\ w = SubSeq(w, 1, n) \o SubSeq(w, n + 1, Len(w))
<1>1. Len(w) \in Nat /\ \A i \in 1..Len(w) : w[i] \in S
  BY LenProperties
<1>2. /\ SubSeq(w, 1, n) \in Seq(S) /\ Len(SubSeq(w, 1, n)) = n
      /\ SubSeq(w, n + 1, Len(w)) \in Seq(S)
  BY <1>1, SubSeqProperties
<1>3. SubSeq(w, 1, n) \o SubSeq(w, n + 1, Len(w)) = SubSeq(w, 1, Len(w))
  BY <1>1, ConcatAdjacentSubSeq
<1>4. QED
  BY <1>2, <1>3, SubSeqFull

\* The start of a concatenation.
LEMMA ConcatStart ==
  ASSUME NEW S, NEW s \in Seq(S), NEW t \in Seq(S)
  PROVE  SubSeq(s \o t, 1, Len(s)) = s
<1>1. Len(s) \in Nat /\ (s # <<>> => Len(s) > 0)
  BY LenProperties, EmptySeq
<1>2. CASE s = <<>>
  BY <1>2, SubSeqEmpty, EmptySeq
<1>3. CASE s # <<>>
  <2>1. 1 \in 1..Len(s) /\ Len(s) \in 1..Len(s)
    BY <1>1, <1>3
  <2>2. SubSeq(s \o t, 1, Len(s)) = SubSeq(s, 1, Len(s))
    BY <2>1, SubSeqOfConcat1
  <2>3. QED
    BY <2>2, SubSeqFull
<1>4. QED
  BY <1>2, <1>3

-----------------------------------------------------------------------------
(* Answers.                                                                *)

\* What a request may be.
LEMMA RequestCases ==
  ASSUME NEW r \in Requests \cup {NoRequest}
  PROVE  \/ r.verb = "CMD" /\ r.content \in Outputs /\ r.fails \in BOOLEAN
         \/ r.verb \in {"GET_FILE", "STREAM_FILE"} /\ r.content \in Files /\ ~r.fails
         \/ r.verb \in {"PUT_FILE", "CMD_DETACHED"} /\ r.content = <<>> /\ ~r.fails
         \/ r.verb = "none" /\ r.content = <<>> /\ ~r.fails /\ r = NoRequest
<1>1. CASE r \in [verb : {"CMD"}, content : Outputs, fails : BOOLEAN]
  BY <1>1
<1>2. CASE r \in [verb : {"GET_FILE", "STREAM_FILE"}, content : Files, fails : {FALSE}]
  BY <1>2
<1>3. CASE r \in {[verb |-> v, content |-> <<>>, fails |-> FALSE] : v \in {"PUT_FILE", "CMD_DETACHED"}}
  BY <1>3
<1>4. CASE r = NoRequest
  BY <1>4 DEF NoRequest
<1>5. QED
  BY <1>1, <1>2, <1>3, <1>4 DEF Requests

\* None of the requests is none.
LEMMA SomeRequest ==
  ASSUME NEW r \in Requests
  PROVE  r.verb # "none" /\ r # NoRequest
<1>1. CASE r \in [verb : {"CMD"}, content : Outputs, fails : BOOLEAN]
  BY <1>1 DEF NoRequest
<1>2. CASE r \in [verb : {"GET_FILE", "STREAM_FILE"}, content : Files, fails : {FALSE}]
  BY <1>2 DEF NoRequest
<1>3. CASE r \in {[verb |-> v, content |-> <<>>, fails |-> FALSE] : v \in {"PUT_FILE", "CMD_DETACHED"}}
  BY <1>3 DEF NoRequest
<1>4. QED
  BY <1>1, <1>2, <1>3 DEF Requests

\* The markers are sequences of cells.
LEMMA MarkersType ==
  /\ End \in Seq(Cells) /\ Len(End) = 2 /\ End[1] = NULs /\ End[2] = NULs
  /\ Fail \in Seq(Cells) /\ Len(Fail) = 3 /\ Fail[1] = NULs /\ Fail[2] = Error /\ Fail[3] = NULs
  /\ Size \in Seq(Cells) /\ Len(Size) = 2
  /\ NULs # Error
<1>1. NULs \in Cells /\ Error \in Cells /\ "size" \in Cells /\ "size'" \in Cells
  BY DEF Cells
<1>2. End \in Seq(Cells) /\ Len(End) = 2 /\ End[1] = NULs /\ End[2] = NULs
  BY <1>1 DEF End
<1>3. Fail \in Seq(Cells) /\ Len(Fail) = 3 /\ Fail[1] = NULs /\ Fail[2] = Error /\ Fail[3] = NULs
  BY <1>1 DEF Fail
<1>4. Size \in Seq(Cells) /\ Len(Size) = 2
  BY <1>1 DEF Size
<1>5. NULs # Error
  BY DEF NULs, Error
<1>6. QED
  BY <1>2, <1>3, <1>4, <1>5

\* Requests and their answers are sequences of cells.
LEMMA AnswerType ==
  ASSUME NEW r \in Requests \cup {NoRequest}
  PROVE  /\ Answer(r) \in Seq(Cells) /\ r.content \in Seq(Cells)
         /\ r.verb \in {"CMD", "GET_FILE", "STREAM_FILE", "PUT_FILE", "CMD_DETACHED", "none"}
         /\ r.verb \notin Answered => Answer(r) = <<>>
         /\ r.verb = "none" <=> r = NoRequest
<1>1. r.content \in Seq(Cells)
  BY RequestCases, OutputsAssumption, FilesAssumption, EmptySeq
<1>2. /\ r.verb \in {"CMD", "GET_FILE", "STREAM_FILE", "PUT_FILE", "CMD_DETACHED", "none"}
      /\ r.verb = "none" <=> r = NoRequest
  BY RequestCases DEF NoRequest
<1>3. r.content \o End \in Seq(Cells) /\ Size \o r.content \in Seq(Cells) /\ <<>> \in Seq(Cells)
  BY <1>1, MarkersType, ConcatProperties, EmptySeq
<1>4. Answer(r) \in Seq(Cells)
  BY <1>1, <1>3, MarkersType DEF Answer
<1>5. r.verb \notin Answered => Answer(r) = <<>>
  BY <1>2 DEF Answered, Answer
<1>6. QED
  BY <1>1, <1>2, <1>4, <1>5

\* The markers, cell by cell.
LEMMA Markers ==
  ASSUME NEW s \in Seq(Cells)
  PROVE  /\ EndsWith(s, End) <=> Len(s) >= 2 /\ s[Len(s)] = NULs /\ s[Len(s) - 1] = NULs
         /\ EndsWith(s, Fail) <=> /\ Len(s) >= 3 /\ s[Len(s)] = NULs /\ s[Len(s) - 1] = Error
                                  /\ s[Len(s) - 2] = NULs
<1>1. Len(s) \in Nat
  BY LenProperties
<1>2. EndsWith(s, End) <=> Len(s) >= 2 /\ s[Len(s)] = NULs /\ s[Len(s) - 1] = NULs
  <2>1. End \in Seq(Cells) /\ Len(End) = 2 /\ End[1] = NULs /\ End[2] = NULs
    BY MarkersType
  <2>2. IsSuffix(End, s) <=> 2 <= Len(s) /\ \A i \in 1..2 : End[i] = s[Len(s) - 2 + i]
    <3>1. IsSuffix(End, s) <=> /\ Len(End) <= Len(s)
                              /\ \A i \in 1..Len(End) : End[i] = s[Len(s) - Len(End) + i]
      <4>1. End \in Seq(Cells)
        BY <2>1
      <4>2. QED
        BY <4>1, SuffixIndex
    <3>2. QED
      BY <2>1, <3>1
  <2>3. Len(s) - 2 + 1 = Len(s) - 1 /\ Len(s) - 2 + 2 = Len(s)
    BY <1>1
  <2>4. QED
    BY <1>1, <2>1, <2>2, <2>3 DEF EndsWith
<1>3. EndsWith(s, Fail) <=> /\ Len(s) >= 3 /\ s[Len(s)] = NULs /\ s[Len(s) - 1] = Error
                            /\ s[Len(s) - 2] = NULs
  <2>1. Fail \in Seq(Cells) /\ Len(Fail) = 3 /\ Fail[1] = NULs /\ Fail[2] = Error /\ Fail[3] = NULs
    BY MarkersType
  <2>2. IsSuffix(Fail, s) <=> 3 <= Len(s) /\ \A i \in 1..3 : Fail[i] = s[Len(s) - 3 + i]
    <3>1. IsSuffix(Fail, s) <=> /\ Len(Fail) <= Len(s)
                              /\ \A i \in 1..Len(Fail) : Fail[i] = s[Len(s) - Len(Fail) + i]
      <4>1. Fail \in Seq(Cells)
        BY <2>1
      <4>2. QED
        BY <4>1, SuffixIndex
    <3>2. QED
      BY <2>1, <3>1
  <2>3. Len(s) - 3 + 1 = Len(s) - 2 /\ Len(s) - 3 + 2 = Len(s) - 1 /\ Len(s) - 3 + 3 = Len(s)
    BY <1>1
  <2>4. QED
    BY <1>1, <2>1, <2>2, <2>3 DEF EndsWith
<1>4. QED
  BY <1>2, <1>3

\* The start of a command's answer does not end like one, and all of it does.
LEMMA AnswerEnds ==
  ASSUME NEW r \in Requests, r.verb = "CMD",
         NEW datas \in Seq(Cells), NEW rest \in Seq(Cells), datas \o rest = Answer(r)
  PROVE  /\ rest # <<>> => ~EndsWith(datas, End) /\ ~EndsWith(datas, Fail)
         /\ rest = <<>> /\ r.fails => ~EndsWith(datas, End) /\ EndsWith(datas, Fail)
         /\ rest = <<>> /\ ~r.fails => /\ EndsWith(datas, End)
                                       /\ SubSeq(datas, 1, Len(datas) - Len(End)) = r.content
<1>1. /\ Len(datas) \in Nat /\ Len(rest) \in Nat /\ Len(Answer(r)) = Len(datas) + Len(rest)
      /\ rest # <<>> => Len(rest) > 0
      /\ rest = <<>> => datas = Answer(r)
      /\ SubSeq(Answer(r), 1, Len(datas)) = datas
      /\ \A i \in 1..Len(datas) : datas[i] = Answer(r)[i]
  <2>1. \A i \in 1..Len(datas) : (datas \o rest)[i] = datas[i]
    BY ConcatProperties, LenProperties
  <2>2. rest = <<>> => datas \o rest = datas
    BY ConcatEmptySeq
  <2>3. SubSeq(datas \o rest, 1, Len(datas)) = datas
    BY ConcatStart
  <2>4. Len(datas \o rest) = Len(datas) + Len(rest) /\ (rest # <<>> => Len(rest) > 0)
    BY ConcatProperties, EmptySeq
  <2>5. QED
    BY <2>1, <2>2, <2>3, <2>4, LenProperties
<1>2. CASE r.fails
  <2>1. Answer(r) = Fail /\ Fail = <<NULs, Error, NULs>> /\ Len(Answer(r)) = 3
    BY <1>2 DEF Answer, Fail
  <2>2. NULs # Error
    BY DEF NULs, Error
  <2>3. \A i \in 1..Len(datas) : i \in 1..3 /\ (i = 1 => datas[i] = NULs) /\ (i = 2 => datas[i] = Error)
                                  /\ (i = 3 => datas[i] = NULs)
    BY <1>1, <2>1
  <2>4. ~EndsWith(datas, End)
    <3>1. SUFFICES ASSUME Len(datas) >= 2, datas[Len(datas)] = NULs, datas[Len(datas) - 1] = NULs
                   PROVE  FALSE
      BY Markers
    <3>2. Len(datas) = 2 \/ Len(datas) = 3
      BY <1>1, <2>1, <3>1
    <3>3. QED
      BY <2>2, <2>3, <3>1, <3>2
  <2>5. rest # <<>> => ~EndsWith(datas, Fail)
    <3>1. rest # <<>> => ~(Len(datas) >= 3)
      BY <1>1, <2>1
    <3>2. EndsWith(datas, Fail) => Len(datas) >= 3
      BY Markers
    <3>3. QED
      BY <3>1, <3>2
  <2>6. rest = <<>> => EndsWith(datas, Fail)
    <3>1. ASSUME rest = <<>> PROVE EndsWith(datas, Fail)
      <4>1. Len(datas) = 3 /\ datas[3] = NULs /\ datas[2] = Error /\ datas[1] = NULs
        BY <1>1, <2>1, <2>3, <3>1
      <4>2. Len(datas) - 1 = 2 /\ Len(datas) - 2 = 1 /\ Len(datas) >= 3
        BY <4>1
      <4>3. QED
        BY <4>1, <4>2, Markers
    <3>2. QED
      BY <3>1
  <2>7. QED
    BY <1>2, <2>4, <2>5, <2>6
<1>3. CASE ~r.fails
  <2>1. r.content \in Outputs /\ Answer(r) = r.content \o End
    BY <1>3, RequestCases DEF Answer
  <2>2. r.content \in Seq(Cells) /\ Text(r.content)
    BY <2>1, OutputsAssumption
  <2>3. \A n \in 0..(Len(Answer(r)) - 1) : /\ ~EndsWith(SubSeq(Answer(r), 1, n), End)
                                           /\ ~EndsWith(SubSeq(Answer(r), 1, n), Fail)
    BY <2>1, <2>2 DEF Text
  <2>4. ASSUME rest # <<>> PROVE ~EndsWith(datas, End) /\ ~EndsWith(datas, Fail)
    <3>1. Len(datas) \in 0..(Len(Answer(r)) - 1)
      BY <1>1, <2>4
    <3>2. QED
      BY <1>1, <2>3, <3>1
  <2>5. ASSUME rest = <<>>
        PROVE  EndsWith(datas, End) /\ SubSeq(datas, 1, Len(datas) - Len(End)) = r.content
    <3>1. End \in Seq(Cells) /\ Len(End) = 2 /\ End[1] = NULs /\ End[2] = NULs
      BY MarkersType
    <3>2. /\ datas = r.content \o End /\ Len(datas) = Len(r.content) + 2 /\ Len(r.content) \in Nat
          /\ datas[Len(r.content) + 1] = End[1] /\ datas[Len(r.content) + 2] = End[2]
      <4>1. /\ Len(r.content \o End) = Len(r.content) + 2 /\ Len(r.content) \in Nat
            /\ \A i \in 1..(Len(r.content) + 2) :
                 (r.content \o End)[i] = IF i <= Len(r.content) THEN r.content[i]
                                         ELSE End[i - Len(r.content)]
        <5> DEFINE q == r.content
        <5>1. q \in Seq(Cells)
          BY <2>2
        <5> HIDE DEF q
        <5>2. /\ Len(q \o End) = Len(q) + Len(End) /\ Len(q) \in Nat
              /\ \A i \in 1..(Len(q) + Len(End)) :
                   (q \o End)[i] = IF i <= Len(q) THEN q[i] ELSE End[i - Len(q)]
          BY <3>1, <5>1, ConcatProperties, LenProperties
        <5>3. QED
          BY <3>1, <5>2 DEF q
      <4>2. datas = r.content \o End
        BY <1>1, <2>1, <2>5
      <4>3. /\ Len(r.content) + 1 \in 1..(Len(r.content) + 2)
            /\ Len(r.content) + 2 \in 1..(Len(r.content) + 2)
            /\ (Len(r.content) + 1) - Len(r.content) = 1 /\ ~(Len(r.content) + 1 <= Len(r.content))
            /\ (Len(r.content) + 2) - Len(r.content) = 2 /\ ~(Len(r.content) + 2 <= Len(r.content))
        BY <4>1
      <4>4. QED
        BY <4>1, <4>2, <4>3
    <3>3. EndsWith(datas, End)
      <4>1. Len(datas) >= 2 /\ Len(datas) - 1 = Len(r.content) + 1
        BY <3>2
      <4>2. QED
        BY <3>1, <3>2, <4>1, Markers
    <3>4. Len(datas) - Len(End) = Len(r.content)
      BY <3>1, <3>2
    <3>5. SubSeq(r.content \o End, 1, Len(r.content)) = r.content
      BY <2>2, <3>1, ConcatStart
    <3>6. QED
      BY <3>2, <3>3, <3>4, <3>5
  <2>6. QED
    BY <1>3, <2>4, <2>5
<1>4. r.fails \in BOOLEAN
  BY RequestCases
<1>5. QED
  BY <1>2, <1>3, <1>4

-----------------------------------------------------------------------------
(* Steps.                                                                  *)

\* Nothing is asked yet.
LEMMA InitHolds == Init => ClientInv
<1> SUFFICES ASSUME Init PROVE ClientInv
  OBVIOUS
<1>1. NoRequest.verb = "none" /\ "none" \notin Answered /\ ~NoRequest.fails /\ NoRequest.content = <<>>
  BY DEF NoRequest, Answered
<1>2. <<>> \in Seq(Cells) /\ Len(<<>>) = 0
  BY EmptySeq
<1>3. ClientTypeOK
  BY <1>2 DEF Init, ClientTypeOK
<1>4. OneConversation /\ InState /\ AnswerComes /\ SizeComes
  BY <1>1, <1>2 DEF Init, OneConversation, InState, AnswerComes, SizeComes
<1>5. OwnOutput /\ GivesEnd
  BY <1>1 DEF Init, OwnOutput, GivesEnd
<1>6. QED
  BY <1>3, <1>4, <1>5 DEF ClientInv

\* What the class says of a request stays what it said.
LEMMA ToldKept ==
  ASSUME OwnOutput, UNCHANGED told
  PROVE  OwnOutput'
BY DEF OwnOutput

\* A request that is made starts a conversation from nothing, whatever the
\* one before left.
LEMMA AskStep ==
  ASSUME ClientInv, NEW r \in Requests, Ask(r)
  PROVE  ClientInv'
<1>1. /\ ClientTypeOK /\ SizeComes /\ OwnOutput /\ wire = <<>> /\ request = NoRequest
      /\ ExecuteCommand(r) \/ StreamFile(r) \/ GetFile(r) \/ SendFile(r) \/ DetachedCommand(r)
      /\ typed' = r
      /\ request' = IF r.verb \in Answered THEN r ELSE NoRequest
      /\ arrived' = <<>> /\ given' = <<>>
      /\ UNCHANGED <<fileSizeGot, fileSizeData, wire, told>>
  BY DEF ClientInv, Ask, WriteSocket
<1>2. /\ NoRequest.verb = "none" /\ NoRequest \in Requests \cup {NoRequest}
      /\ r \in Requests \cup {NoRequest} /\ <<>> \in Seq(Cells)
  BY EmptySeq DEF NoRequest
<1>3. r # NoRequest /\ r.verb # "none"
  BY SomeRequest
<1>4. ClientTypeOK'
  BY <1>1, <1>2 DEF ClientTypeOK, ExecuteCommand, StreamFile, GetFile, SendFile, DetachedCommand
<1>5. OneConversation'
  BY <1>1, <1>2, <1>3 DEF OneConversation, Answered
<1>6. InState' /\ AnswerComes'
  BY <1>1, <1>2, <1>3 DEF InState, AnswerComes, Answered, ExecuteCommand, StreamFile, GetFile,
     SendFile, DetachedCommand
<1>7. SizeComes'
  BY <1>1 DEF SizeComes
<1>8. GivesEnd'
  <2>1. IsSuffix(<<>>, <<>>)
    <3> DEFINE e == <<>>
    <3>1. e \in Seq(Cells)
      BY EmptySeq
    <3>2. Len(e) = 0
      BY EmptySeq
    <3> HIDE DEF e
    <3>3. IsSuffix(e, e) <=> /\ Len(e) <= Len(e)
                             /\ \A i \in 1..Len(e) : e[i] = e[Len(e) - Len(e) + i]
      BY <3>1, SuffixIndex
    <3>4. QED
      BY <3>2, <3>3 DEF e
  <2>2. QED
    BY <1>1, <2>1 DEF GivesEnd
<1>9. QED
  BY <1>1, <1>4, <1>5, <1>6, <1>7, <1>8, ToldKept DEF ClientInv

\* Steps that leave the conversation alone.
LEMMA TalkKept ==
  ASSUME ClientInv, UNCHANGED <<fields, typed, wire, request, arrived, given, told>>
  PROVE  ClientInv'
BY DEF ClientInv, fields, ClientTypeOK, OneConversation, InState, AnswerComes, SizeComes,
   OwnOutput, GivesEnd

\* The user stops waiting when nothing is under way any more.
LEMMA GivenUp ==
  ASSUME ClientInv, request' = NoRequest, typed' = NoRequest, wire' = <<>>,
         UNCHANGED <<fields, arrived, given, told>>
  PROVE  ClientInv'
<1>1. /\ NoRequest.verb = "none" /\ "none" \notin Answered
      /\ NoRequest \in Requests \cup {NoRequest} /\ <<>> \in Seq(Cells)
  BY EmptySeq DEF NoRequest, Answered
<1>2. ClientTypeOK'
  BY <1>1 DEF ClientInv, ClientTypeOK, fields
<1>3. OneConversation' /\ InState' /\ AnswerComes' /\ SizeComes' /\ GivesEnd'
  BY <1>1 DEF ClientInv, OneConversation, InState, AnswerComes, SizeComes, GivesEnd, fields
<1>4. QED
  BY <1>2, <1>3, ToldKept DEF ClientInv

\* The console answers the line, and nothing else is on the way.
LEMMA ServeStep ==
  ASSUME ClientInv, Serve
  PROVE  ClientInv'
<1>1. /\ ClientTypeOK /\ OneConversation /\ typed # NoRequest
      /\ wire' = wire \o Answer(typed) /\ typed' = NoRequest
      /\ UNCHANGED <<fields, request, arrived, given, told>>
  BY DEF ClientInv, Serve
<1>2. /\ wire = <<>>
      /\ request # NoRequest => typed = request
      /\ request = NoRequest => Answer(typed) = <<>>
  BY <1>1, AnswerType DEF OneConversation, ClientTypeOK
<1>3. Answer(typed) \in Seq(Cells) /\ wire' = Answer(typed)
  BY <1>1, <1>2, AnswerType, ConcatEmptySeq DEF ClientTypeOK
<1>4. NoRequest.verb = "none" /\ "none" \notin Answered /\ NoRequest \in Requests \cup {NoRequest}
  BY DEF NoRequest, Answered
<1>5. ClientTypeOK'
  BY <1>1, <1>3, <1>4 DEF ClientTypeOK, fields
<1>6. OneConversation'
  BY <1>1, <1>2, <1>3, <1>4 DEF OneConversation
<1>7. AnswerComes'
  <2>1. SUFFICES ASSUME request.verb = "CMD"
                 PROVE  Answer(request) # <<>> /\ commandDatas \o Answer(request) = Answer(request)
    BY <1>1, <1>2, <1>3, <1>4 DEF AnswerComes, fields
  <2>2. typed = request /\ request \in Requests
    BY <1>1, <1>2, <1>4, <2>1 DEF ClientTypeOK
  <2>3. commandDatas = <<>>
    BY <1>1, <2>1, <2>2 DEF ClientInv, AnswerComes
  <2>4. commandDatas \o Answer(request) = Answer(request)
    BY <1>3, <2>2, <2>3, ConcatEmptySeq
  <2>5. Answer(request) # <<>>
    <3>1. End # <<>> /\ Fail # <<>>
      BY DEF End, Fail
    <3>2. CASE request.fails
      BY <2>1, <3>1, <3>2, MarkersType DEF Answer
    <3>3. CASE ~request.fails
      <4>1. request.content \in Seq(Cells) /\ Answer(request) = request.content \o End
        BY <1>1, <2>1, <3>3, AnswerType DEF Answer, ClientTypeOK
      <4>2. QED
        BY <3>1, <4>1, ConcatEqualIffEmpty, MarkersType
    <3>4. QED
      BY <3>2, <3>3
  <2>6. QED
    BY <2>4, <2>5
<1>8. InState' /\ SizeComes' /\ GivesEnd'
  BY <1>1 DEF ClientInv, InState, SizeComes, GivesEnd, fields
<1>9. QED
  BY <1>1, <1>5, <1>6, <1>7, <1>8, ToldKept DEF ClientInv

\* What onReadyRead is called with: the state is that of the request the user
\* waits for, and the console has answered it.
LEMMA ReadFor ==
  ASSUME ClientInv, NEW n \in 1..Len(wire)
  PROVE  /\ request.verb \in Answered /\ request \in Requests /\ typed = NoRequest
         /\ wire # <<>> /\ wire \in Seq(Cells)
         /\ state = "DoingCommand" => request.verb = "CMD"
         /\ state = "GettingFile" => request.verb = "GET_FILE"
         /\ state = "StreamingFile" => request.verb = "STREAM_FILE"
<1>1. ClientTypeOK /\ OneConversation /\ InState
  BY DEF ClientInv
<1>2. wire \in Seq(Cells) /\ wire # <<>>
  <2>1. wire \in Seq(Cells) /\ Len(wire) \in Nat
    BY <1>1, LenProperties DEF ClientTypeOK
  <2>2. wire # <<>>
    BY <2>1, EmptySeq
  <2>3. QED
    BY <2>1, <2>2
<1>3. request # NoRequest /\ request \in Requests /\ request.verb \in Answered /\ typed = NoRequest
  BY <1>1, <1>2 DEF OneConversation, ClientTypeOK
<1>4. QED
  BY <1>1, <1>2, <1>3 DEF InState, Answered

\* A piece of a device's data is given as it came.
LEMMA StreamedDataStep ==
  ASSUME ClientInv, NEW n \in 1..Len(wire), NEW data, data = SubSeq(wire, 1, n),
         wire' = SubSeq(wire, n + 1, Len(wire)), arrived' = arrived \o data,
         StreamedData(data), UNCHANGED typed
  PROVE  ClientInv'
<1>1. /\ request.verb = "STREAM_FILE" /\ request \in Requests /\ typed = NoRequest
      /\ wire' \in Seq(Cells) /\ data \in Seq(Cells)
      /\ given' = given \o data
      /\ UNCHANGED <<fields, request, told>>
  BY ReadFor, ReadSplits DEF StreamedData
<1>2. ClientTypeOK'
  BY <1>1, ConcatProperties DEF ClientInv, ClientTypeOK, fields
<1>3. request # NoRequest
  BY <1>1, SomeRequest
<1>4. OneConversation' /\ InState' /\ AnswerComes' /\ SizeComes' /\ GivesEnd'
  BY <1>1, <1>3 DEF ClientInv, OneConversation, InState, AnswerComes, SizeComes, GivesEnd, fields
<1>5. QED
  BY <1>1, <1>2, <1>4, ToldKept DEF ClientInv

\* Pieces are put together in any order.
LEMMA CellsConcat ==
  \A s, t, u \in Seq(Cells) : (s \o t) \o u = s \o (t \o u)
<1>1. SUFFICES ASSUME NEW s \in Seq(Cells), NEW t \in Seq(Cells), NEW u \in Seq(Cells)
               PROVE  (s \o t) \o u = s \o (t \o u)
  OBVIOUS
<1>2. QED
  BY ConcatAssociative

\* A piece of a command's answer: it finishes the command when it is the last
\* one and only then.
LEMMA CommandDataStep ==
  ASSUME ClientInv, NEW n \in 1..Len(wire), NEW data, data = SubSeq(wire, 1, n),
         wire' = SubSeq(wire, n + 1, Len(wire)), arrived' = arrived \o data,
         CommandData(data), UNCHANGED typed
  PROVE  ClientInv'
<1> DEFINE datas == commandDatas \o data
<1>1. /\ request.verb = "CMD" /\ request \in Requests /\ typed = NoRequest
      /\ wire' \in Seq(Cells) /\ data \in Seq(Cells) /\ data \o wire' = wire
      /\ UNCHANGED <<state, fileSizeGot, fileSizeData, given>>
      /\ wire \in Seq(Cells)
  BY ReadFor, ReadSplits DEF CommandData
<1>2. ClientTypeOK /\ commandDatas \o wire = Answer(request) /\ commandDatas \in Seq(Cells)
  BY <1>1 DEF ClientInv, AnswerComes, ClientTypeOK
<1>3. datas \in Seq(Cells) /\ datas \o wire' = Answer(request) /\ arrived' \in Seq(Cells)
  <2>1. arrived \in Seq(Cells)
    BY <1>2 DEF ClientTypeOK
  <2>2. datas \in Seq(Cells) /\ arrived \o data \in Seq(Cells)
    BY <1>1, <1>2, <2>1, ConcatProperties
  <2>3. (commandDatas \o data) \o wire' = commandDatas \o (data \o wire')
    <3>1. commandDatas \in Seq(Cells) /\ data \in Seq(Cells) /\ wire' \in Seq(Cells)
      BY <1>1, <1>2
    <3>2. QED
      BY <3>1, CellsConcat
  <2>4. QED
    BY <1>1, <1>2, <2>2, <2>3
<1> HIDE DEF datas
<1>4. /\ wire' # <<>> => ~EndsWith(datas, End) /\ ~EndsWith(datas, Fail)
      /\ wire' = <<>> /\ request.fails => ~EndsWith(datas, End) /\ EndsWith(datas, Fail)
      /\ wire' = <<>> /\ ~request.fails =>
           EndsWith(datas, End) /\ SubSeq(datas, 1, Len(datas) - Len(End)) = request.content
  BY <1>1, <1>3, AnswerEnds
<1>5. request # NoRequest /\ request.fails \in BOOLEAN /\ request.content \in Seq(Cells)
  BY <1>1, SomeRequest, RequestCases, AnswerType
<1>6. CASE wire' # <<>>
  <2>1. commandDatas' = datas /\ UNCHANGED <<request, told>>
    BY <1>4, <1>6 DEF CommandData, datas
  <2>2. ClientTypeOK' /\ OneConversation' /\ AnswerComes'
    BY <1>1, <1>2, <1>3, <1>5, <1>6, <2>1 DEF ClientInv, ClientTypeOK, OneConversation, AnswerComes
  <2>3. InState' /\ SizeComes' /\ GivesEnd'
    BY <1>1, <2>1 DEF ClientInv, InState, SizeComes, GivesEnd
  <2>4. QED
    BY <2>1, <2>2, <2>3, ToldKept DEF ClientInv
<1>7. CASE wire' = <<>>
  <2>1. /\ told' = [success |-> ~request.fails, datas |-> commandDatas', of |-> request]
        /\ request' = NoRequest
        /\ commandDatas' = IF request.fails THEN <<>> ELSE request.content
    <3>1. CASE request.fails
      BY <1>4, <1>7, <3>1 DEF CommandData, Finished, datas
    <3>2. CASE ~request.fails
      BY <1>4, <1>7, <3>2 DEF CommandData, Finished, datas
    <3>3. QED
      BY <1>5, <3>1, <3>2
  <2>2. OwnOutput'
    BY <1>1, <1>5, <2>1 DEF OwnOutput
  <2>3. /\ NoRequest.verb = "none" /\ "none" \notin Answered /\ NoRequest \in Requests \cup {NoRequest}
        /\ commandDatas' \in Seq(Cells)
    BY <1>5, <2>1, EmptySeq DEF NoRequest, Answered
  <2>4. ClientTypeOK'
    BY <1>1, <1>2, <1>3, <2>1, <2>3 DEF ClientTypeOK
  <2>5. OneConversation' /\ InState' /\ AnswerComes' /\ SizeComes' /\ GivesEnd'
    BY <1>1, <1>7, <2>1, <2>3 DEF ClientInv, OneConversation, InState, AnswerComes, SizeComes, GivesEnd
  <2>6. QED
    BY <2>2, <2>4, <2>5 DEF ClientInv
<1>8. QED
  BY <1>6, <1>7

\* A piece of a file: before the size is complete nothing is given, with the
\* piece that completes it an end of that piece, and then all of it.
LEMMA FileDataStep ==
  ASSUME ClientInv, NEW n \in 1..Len(wire), NEW data, data = SubSeq(wire, 1, n),
         wire' = SubSeq(wire, n + 1, Len(wire)), arrived' = arrived \o data,
         FileData(data), UNCHANGED typed
  PROVE  ClientInv'
<1>1. /\ request.verb = "GET_FILE" /\ request \in Requests /\ typed = NoRequest
      /\ wire' \in Seq(Cells) /\ data \in Seq(Cells)
      /\ UNCHANGED <<state, commandDatas, request, told>>
      /\ request # NoRequest
  BY ReadFor, ReadSplits, SomeRequest DEF FileData
<1>2. ClientTypeOK /\ SizeComes /\ IsSuffix(given, arrived) /\ arrived' \in Seq(Cells)
  BY <1>1, ConcatProperties DEF ClientInv, GivesEnd, ClientTypeOK
<1>3. OneConversation' /\ InState' /\ AnswerComes' /\ OwnOutput'
  BY <1>1, ToldKept DEF ClientInv, OneConversation, InState, AnswerComes
<1>4. CASE fileSizeGot /\ given' = given \o data /\ UNCHANGED <<fileSizeGot, fileSizeData>>
  <2>1. given' \in Seq(Cells) /\ IsSuffix(given', arrived')
    BY <1>1, <1>2, <1>4, SuffixExtends, ConcatProperties DEF ClientTypeOK
  <2>2. ClientTypeOK' /\ SizeComes' /\ GivesEnd'
    BY <1>1, <1>2, <1>4, <2>1 DEF ClientTypeOK, SizeComes, GivesEnd
  <2>3. QED
    BY <1>3, <2>2 DEF ClientInv
<1>5. CASE /\ ~fileSizeGot
           /\ fileSizeData' = fileSizeData \o data
           /\ fileSizeGot' = (Len(fileSizeData') >= Len(Size))
           /\ given' = IF Len(fileSizeData') > Len(Size) THEN given \o LastTen(fileSizeData') ELSE given
  <2>1. /\ given = <<>> /\ Len(fileSizeData) <= 1 /\ Len(Size) = 2
        /\ fileSizeData \in Seq(Cells) /\ arrived \in Seq(Cells)
    BY <1>1, <1>2, <1>5, MarkersType DEF SizeComes, ClientTypeOK
  <2>2. /\ fileSizeData' \in Seq(Cells) /\ Len(fileSizeData') = Len(fileSizeData) + Len(data)
        /\ Len(fileSizeData) \in Nat /\ Len(data) \in Nat
    BY <1>1, <1>5, <2>1, ConcatProperties, LenProperties
  <2>3. CASE Len(fileSizeData') > Len(Size)
    <3> DEFINE c == fileSizeData'
               e == SubSeq(c, Len(c) - 2 + 1, Len(c))
    <3>1. 2 <= Len(data) /\ Len(c) - 2 + 1 = Len(c) - 1
      BY <2>1, <2>2, <2>3
    <3>2. e \in Seq(Cells) /\ IsSuffix(e, arrived')
      BY <1>1, <1>5, <2>1, <3>1, EndIsSuffix
    <3>3. given' = e
      <4>1. LastTen(c) = e
        BY <3>1 DEF LastTen
      <4> HIDE DEF e
      <4>2. <<>> \o e = e
        BY <3>2, ConcatEmptySeq
      <4>3. QED
        BY <1>5, <2>1, <2>3, <4>1, <4>2
    <3> HIDE DEF e
    <3>4. fileSizeGot'
      <4>1. Len(fileSizeData') >= Len(Size)
        BY <2>1, <2>2, <2>3
      <4>2. fileSizeGot' = (Len(fileSizeData') >= Len(Size))
        BY <1>5
      <4>3. QED
        BY <4>1, <4>2, Zenon
    <3>5. ClientTypeOK' /\ SizeComes' /\ GivesEnd'
      BY <1>1, <1>2, <1>5, <2>2, <3>2, <3>3, <3>4 DEF ClientTypeOK, SizeComes, GivesEnd
    <3>6. QED
      BY <1>3, <3>5 DEF ClientInv
  <2>4. CASE ~(Len(fileSizeData') > Len(Size))
    <3>1. given' = <<>> /\ (~fileSizeGot' => Len(fileSizeData') <= 1) /\ fileSizeGot' \in BOOLEAN
      <4>1. fileSizeGot' = (Len(fileSizeData') >= Len(Size)) /\ given' = <<>>
        BY <1>5, <2>1, <2>4
      <4>2. ~(Len(fileSizeData') >= Len(Size)) => Len(fileSizeData') <= 1
        BY <2>1, <2>2
      <4>3. (Len(fileSizeData') >= Len(Size)) \in BOOLEAN
        BY <2>1, <2>2, SMT
      <4>4. QED
        BY <4>1, <4>2, <4>3, Zenon
    <3>2. IsSuffix(<<>>, arrived')
      <4> DEFINE e == <<>>
      <4>1. e \in Seq(Cells)
        BY EmptySeq
      <4>2. Len(e) = 0 /\ Len(arrived') \in Nat
        BY <1>2, EmptySeq, LenProperties
      <4> HIDE DEF e
      <4>3. IsSuffix(e, arrived') <=>
              /\ Len(e) <= Len(arrived')
              /\ \A i \in 1..Len(e) : e[i] = arrived'[Len(arrived') - Len(e) + i]
        BY <1>2, <4>1, SuffixIndex
      <4>4. QED
        BY <4>2, <4>3 DEF e
    <3>3. ClientTypeOK' /\ SizeComes' /\ GivesEnd'
      BY <1>1, <1>2, <1>5, <2>1, <2>2, <3>1, <3>2 DEF ClientTypeOK, SizeComes, GivesEnd
    <3>4. QED
      BY <1>3, <3>3 DEF ClientInv
  <2>5. QED
    BY <2>3, <2>4
<1>6. QED
  BY <1>4, <1>5 DEF FileData

-----------------------------------------------------------------------------
(* Theorems.                                                               *)

\* Every step keeps the invariant.
LEMMA ClientInvariant == Spec => []ClientInv
<1>1. ClientInv /\ [Next]_vars => ClientInv'
  <2> SUFFICES ASSUME ClientInv, [Next]_vars PROVE ClientInv'
    OBVIOUS
  <2>1. CASE OnReadyRead
    <3>1. PICK n \in 1..Len(wire) :
            LET data == SubSeq(wire, 1, n) IN
            /\ wire' = SubSeq(wire, n + 1, Len(wire))
            /\ arrived' = arrived \o data
            /\ StreamedData(data) \/ CommandData(data) \/ FileData(data)
      BY <2>1 DEF OnReadyRead
    <3>2. UNCHANGED typed
      BY <2>1 DEF OnReadyRead
    <3>3. QED
      BY <3>1, <3>2, StreamedDataStep, CommandDataStep, FileDataStep
  <2>2. CASE Connect \/ Close \/ Connected \/ UNCHANGED vars
    BY <2>2, TalkKept DEF Connect, Close, Connected, vars
  <2>3. CASE FileEnds \/ Lost
    BY <2>3, GivenUp DEF FileEnds, Lost
  <2>4. CASE Serve
    BY <2>4, ServeStep
  <2>5. CASE \E r \in Requests : Ask(r)
    BY <2>5, AskStep
  <2>6. QED
    BY <2>1, <2>2, <2>3, <2>4, <2>5 DEF Next
<1>2. QED
  BY InitHolds, <1>1, PTL DEF Spec

\* A command that finished with success has the whole of its own output, and
\* it fails only if the console said so: however long the output is, wherever
\* reads cut the answer and whatever connections were lost before.
THEOREM CommandsGetTheirOutput == Spec => []OwnOutput
<1>1. ClientInv => OwnOutput
  BY DEF ClientInv
<1>2. QED
  BY <1>1, ClientInvariant, PTL

\* newFileData gives an end of what arrived for a file, in order and once, and
\* all of what arrived from a device.
THEOREM FilesAreGivenInOrder == Spec => []GivesEnd
<1>1. ClientInv => GivesEnd
  BY DEF ClientInv
<1>2. QED
  BY <1>1, ClientInvariant, PTL
=============================================================================
