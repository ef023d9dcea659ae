------------------------- MODULE WebusbLink_proofs --------------------------
(***************************************************************************)
(* Proofs about WebusbLink, for every set of packages, size of the frames  *)
(* and of the buffers.                                                     *)
(*                                                                         *)
(* LinkInv gives the requests that ota_webusb_task hands on the form that  *)
(* OtaWebusb expects, so every property of the session holds under the     *)
(* byte stream.  StepInv says where the request and the answer of an       *)
(* exchange are, and what the session holds of the page's file.            *)
(***************************************************************************)
EXTENDS WebusbLink, OtaWebusb_proofs, SequenceTheorems

LEMMA Sizes ==
  /\ RequestSize \in Nat \ {0} /\ MaxPayload \in Nat \ {0} /\ Capacity \in Nat
  /\ ConfigSize \in 1..MaxPayload
BY WebusbAssumption, LinkAssumption

LEMMA FrameSent ==
  ASSUME NEW c \in Command, NEW v \in Image \cup {None}, NEW o \in Nat,
         c \in {"begin", "data", "end"} => v \in Image,
         c = "data" => o < Size[v]
  PROVE  /\ FrameOf(c, v, o) \in Sent
         /\ FrameOf(c, v, o) \in Frame
         /\ FrameOf(c, v, o).command = c
<1> DEFINE f == FrameOf(c, v, o)
<1> USE WebusbAssumption, LinkAssumption
<1>1. c = "data" => Chunk(v, o) \in 1..MaxPayload
  BY DEF Chunk
<1>2. f.size \in 0..MaxPayload
  BY <1>1 DEF FrameOf
<1>3. /\ f.argument \in Nat
      /\ c = "begin" => f.argument \in HeaderSize..Capacity
  BY DEF FrameOf, Command
<1>4. f.file \in Image \cup {None} /\ (c = "data" => f.file \in Image)
  BY DEF FrameOf
<1>5. f.command = c
  BY DEF FrameOf
<1>6. f = [command |-> f.command, argument |-> f.argument,
           size |-> f.size, file |-> f.file]
  BY DEF FrameOf
<1>7. f \in Frame
  BY <1>2, <1>3, <1>4, <1>5, <1>6 DEF Frame
<1> HIDE DEF f
<1> QED BY <1>3, <1>4, <1>5, <1>7 DEF Sent, f

LEMMA PiecesOf ==
  ASSUME NEW f \in Sent
  PROVE  /\ Pieces(f) \in Seq(Piece)
         /\ Len(Pieces(f)) = RequestSize + f.size
         /\ \A k \in 1..(RequestSize + f.size) :
              Pieces(f)[k] = [frame |-> f, at |-> k]
<1> USE WebusbAssumption, LinkAssumption
<1>1. f \in Frame /\ f.size \in 0..MaxPayload
  BY DEF Sent, Frame
<1> DEFINE n == RequestSize + f.size
<1>2. n \in Nat /\ n <= RequestSize + MaxPayload
  BY <1>1
<1>3. \A k \in 1..n : [frame |-> f, at |-> k] \in Piece
  BY <1>1, <1>2 DEF Piece
<1>4. Pieces(f) \in [1..n -> Piece]
  BY <1>3 DEF Pieces
<1>5. Pieces(f) \in Seq(Piece)
  <2> HIDE DEF n
  <2>1. Pieces(f) \in UNION {[1..k -> Piece] : k \in Nat}
    BY <1>2, <1>4
  <2> QED BY <2>1, SeqDef, Zenon
<1>6. Len(Pieces(f)) = n
  BY <1>2, <1>4, <1>5, LenProperties
<1> QED BY <1>5, <1>6 DEF Pieces

LEMMA Appending ==
  ASSUME wire \in Seq(Piece), NEW f \in Sent, wire' = wire \o Pieces(f),
         \A k \in 1..Len(wire) : wire[k].frame \in Sent
  PROVE  /\ wire' \in Seq(Piece)
         /\ \A k \in 1..Len(wire') : wire'[k].frame \in Sent
         /\ wire = <<>> => Follows(f, 0)'
<1> DEFINE p == Pieces(f)
<1>1. f.size \in Nat
  BY WebusbAssumption DEF Sent, Frame
<1>2. /\ p \in Seq(Piece)
      /\ Len(p) = RequestSize + f.size
      /\ \A k \in 1..Len(p) : p[k] = [frame |-> f, at |-> k]
  BY PiecesOf
<1>3. wire' = wire \o p
  OBVIOUS
<1> HIDE DEF p
<1>4. Len(wire) \in Nat /\ Len(p) \in Nat
  BY <1>2, LenProperties
<1>5. /\ wire' \in Seq(Piece)
      /\ Len(wire') = Len(wire) + Len(p)
      /\ \A k \in 1..(Len(wire) + Len(p)) :
           wire'[k] = IF k <= Len(wire) THEN wire[k] ELSE p[k - Len(wire)]
  BY <1>2, <1>3, ConcatProperties
<1>6. ASSUME NEW k \in 1..Len(wire') PROVE wire'[k].frame \in Sent
  <2>1. CASE k <= Len(wire)
    BY <2>1, <1>4, <1>5
  <2>2. CASE k > Len(wire)
    <3>1. k - Len(wire) \in 1..Len(p) /\ wire'[k] = p[k - Len(wire)]
      BY <2>2, <1>4, <1>5
    <3>2. p[k - Len(wire)] = [frame |-> f, at |-> k - Len(wire)]
      BY <3>1, <1>2
    <3>3. wire'[k].frame = f
      BY <3>1, <3>2
    <3> QED BY <3>3
  <2> QED BY <2>1, <2>2, <1>4, <1>5
<1>7. ASSUME wire = <<>> PROVE Follows(f, 0)'
  <2>1. wire' = p
    BY <1>2, <1>3, <1>7, ConcatEmptySeq
  <2>2. /\ Len(wire') = RequestSize + f.size - 0
        /\ \A k \in 1..Len(wire') : wire'[k] = [frame |-> f, at |-> 0 + k]
    BY <2>1, <1>1, <1>2, LinkAssumption
  <2> QED BY <2>2 DEF Follows
<1> QED BY <1>5, <1>6, <1>7

\* exchange puts the page's request behind what is on the wire.
LEMMA Sending ==
  ASSUME wire \in Seq(Piece), NEW c \in Command, NEW v \in Image \cup {None},
         NEW o \in 0..Capacity, c \in {"begin", "data", "end"} => v \in Image,
         c = "data" => o < Size[v],
         \A k \in 1..Len(wire) : wire[k].frame \in Sent,
         Exchange(c, v, o)
  PROVE  /\ wire' \in Seq(Piece)
         /\ \A k \in 1..Len(wire') : wire'[k].frame \in Sent
         /\ wire = <<>> => Follows(FrameOf(c, v, o), 0)'
         /\ page' = c /\ file' = v /\ offset' = o
<1> DEFINE f == FrameOf(c, v, o)
<1>1. f \in Sent
  <2>1. o \in Nat
    BY WebusbAssumption
  <2> QED BY <2>1, FrameSent, Zenon
<1>2. wire' = wire \o Pieces(f) /\ page' = c /\ file' = v /\ offset' = o
  BY DEF Exchange
<1> HIDE DEF f
<1>3. /\ wire' \in Seq(Piece)
      /\ \A k \in 1..Len(wire') : wire'[k].frame \in Sent
      /\ wire = <<>> => Follows(f, 0)'
  BY <1>1, <1>2, Appending
<1> QED BY <1>2, <1>3 DEF f

\* tud_vendor_read takes pieces from the front.
LEMMA Dropping ==
  ASSUME wire \in Seq(Piece), NEW n \in 1..Len(wire)
  PROVE  /\ Drop(n) \in Seq(Piece)
         /\ Len(Drop(n)) = Len(wire) - n
         /\ \A k \in 1..(Len(wire) - n) : Drop(n)[k] = wire[n + k]
<1>1. Len(wire) \in Nat /\ \A k \in 1..Len(wire) : wire[k] \in Piece
  BY LenProperties, ElementOfSeq
<1>2. /\ Drop(n) \in Seq(Piece)
      /\ Len(Drop(n)) = IF n + 1 <= Len(wire) THEN Len(wire) - (n + 1) + 1 ELSE 0
      /\ \A k \in 1..(Len(wire) - (n + 1) + 1) : Drop(n)[k] = wire[n + 1 + k - 1]
  <2>1. \A k \in (n + 1)..Len(wire) : wire[k] \in Piece
    BY <1>1
  <2> QED BY <1>1, <2>1, SubSeqProperties DEF Drop
<1> QED BY <1>1, <1>2

LEMMA ReadsFromFront ==
  ASSUME wire \in Seq(Piece), NEW m \in Nat \ {0}, NEW n \in Read(m)
  PROVE  n \in 1..Len(wire) /\ n <= m
<1>1. Len(wire) \in Nat
  BY LenProperties
<1> QED BY <1>1 DEF Read

-----------------------------------------------------------------------------
LEMMA InitLink == LinkInit => LinkInv
<1> SUFFICES ASSUME LinkInit PROVE LinkInv
  OBVIOUS
<1> USE WebusbAssumption, LinkAssumption DEF LinkInit
<1>1. TypeOK
  BY InitSession DEF SessionInv
<1>2. wire \in Seq(Piece) /\ Len(wire) = 0
  BY EmptySeq
<1>3. page \in Resting /\ page \notin {"begin", "data", "end", "done"}
  BY DEF Resting
<1>4. /\ used \in 0..RequestSize /\ expected \in 0..MaxPayload /\ dataUsed \in 0..expected
      /\ offset \in 0..Capacity
  OBVIOUS
<1>5. LinkTypeOK
  BY <1>1, <1>2, <1>3, <1>4 DEF LinkTypeOK
<1> QED BY <1>2, <1>3, <1>5 DEF LinkInv, Browsing

\* ota_webusb_task hands on requests that OtaWebusb has, and nothing else
\* below the pages touches the session.
LEMMA Simulates == LinkInv /\ [LinkNext]_linkVars => [Next]_vars
<1> SUFFICES ASSUME LinkInv, [LinkNext]_linkVars PROVE [Next]_vars
  OBVIOUS
<1>1. CASE UNCHANGED vars
  BY <1>1
<1>2. CASE ProcessRequest
  <2>1. CASE request = None
    BY <1>2, <2>1 DEF ProcessRequest
  <2>2. ASSUME request # None, NEW good \in BOOLEAN, Handler(good) PROVE [Next]_vars
    <3>1. request \in Sent /\ request \in Frame
      BY <2>2 DEF LinkInv, Sent
    <3>2. CASE request.command = "begin"
      BY <2>2, <3>1, <3>2 DEF Handler, Sent, Next, Begin
    <3>3. CASE request.command = "data" /\ ~DataRefused
      <4>1. request.file \in Image
        BY <3>1, <3>3 DEF Sent
      <4>2. Payload \in Image \cup {Junk}
        BY <4>1 DEF Payload
      <4>3. expected \in 1..MaxPayload
        BY <3>3, WebusbAssumption DEF DataRefused, LinkInv, LinkTypeOK
      <4>4. DataFails(expected, Payload) \/ WriteData(expected, Payload)
        BY <2>2, <3>3 DEF Handler
      <4> QED BY <4>2, <4>3, <4>4 DEF Next, Data
    <3>4. CASE request.command = "end" /\ EndAccepted
      BY <2>2, <3>4 DEF Handler, Next, End
    <3>5. CASE request.command = "abort"
      BY <2>2, <3>5 DEF Handler, Next
    <3>6. CASE UNCHANGED vars
      BY <3>6
    <3> QED BY <2>2, <3>2, <3>3, <3>4, <3>5, <3>6 DEF Handler
  <2> QED BY <1>2, <2>1, <2>2 DEF ProcessRequest
<1>3. CASE DeviceReset
  BY <1>3 DEF DeviceReset, Next
<1>4. CASE Connect \/ Upgrade \/ SaveConfiguration \/ AnswerArrives \/ ClosePage
  BY <1>1, <1>4 DEF Connect, Upgrade, SaveConfiguration, AnswerArrives, ClosePage
<1>5. CASE ReadRequest \/ ReadData \/ RequestTooLarge \/ Reconnect
  BY <1>1, <1>5 DEF ReadRequest, ReadData, RequestTooLarge, Reconnect
<1> QED
  BY <1>1, <1>2, <1>3, <1>4, <1>5 DEF LinkNext, Task, linkVars

\* The parts of LinkInv, for the actions that change one of them.
WireInv ==
  /\ wire \in Seq(Piece)
  /\ \A k \in 1..Len(wire) : wire[k].frame \in Sent

ParserInv ==
  /\ used \in 0..RequestSize
  /\ expected \in 0..MaxPayload
  /\ dataUsed \in 0..expected
  /\ foreign \in BOOLEAN
  /\ request \in Sent \cup {None}
  /\ used < RequestSize => dataUsed = 0 /\ expected = 0 /\ ~foreign
  /\ used = 0 => request = None

AnswerInv == packet \in Answer \cup {None} /\ queued \in Answer \cup {None}

PageInv ==
  /\ page \in Command \cup Resting
  /\ file \in Image \cup {None}
  /\ offset \in 0..Capacity
  /\ Browsing

LEMMA Parts ==
  LinkInv <=> /\ TypeOK /\ torn \in BOOLEAN
              /\ WireInv /\ ParserInv /\ AnswerInv /\ PageInv
BY DEF LinkInv, LinkTypeOK, WireInv, ParserInv, AnswerInv, PageInv, Sent

LEMMA Shrinking ==
  ASSUME WireInv, NEW n \in 1..Len(wire), wire' = Drop(n)
  PROVE  WireInv'
<1>1. /\ wire' \in Seq(Piece)
      /\ Len(wire') = Len(wire) - n
      /\ \A k \in 1..(Len(wire) - n) : wire'[k] = wire[n + k]
  BY Dropping DEF WireInv
<1>2. Len(wire) \in Nat
  BY LenProperties DEF WireInv
<1> QED BY <1>1, <1>2 DEF WireInv

LEMMA ParserResets == ResetParser => ParserInv'
<1> SUFFICES ASSUME ResetParser PROVE ParserInv'
  OBVIOUS
<1>1. 0 \in 0..RequestSize /\ 0 \in 0..MaxPayload /\ 0 \in 0..0
  BY Sizes
<1>2. /\ request' = None /\ used' = 0
      /\ dataUsed' = 0 /\ ~foreign' /\ foreign' \in BOOLEAN /\ expected' = 0
  BY DEF ResetParser
<1> QED BY <1>1, <1>2 DEF ParserInv

LEMMA Answering ==
  ASSUME AnswerInv, NEW STATE answer, answer \in Answer, SendResponse(answer)
  PROVE  AnswerInv'
BY DEF AnswerInv, SendResponse

LEMMA PageCloses == Closed => PageInv'
BY WebusbAssumption DEF Closed, PageInv, Browsing, Resting

\* A page that sends a request.
LEMMA PageSends ==
  ASSUME WireInv, NEW c \in Command, NEW v \in Image \cup {None},
         NEW o \in 0..Capacity, c \in {"begin", "data", "end"} => v \in Image,
         c = "data" => o < Size[v],
         Exchange(c, v, o)
  PROVE  WireInv' /\ PageInv'
<1>1. /\ wire' \in Seq(Piece)
      /\ \A k \in 1..Len(wire') : wire'[k].frame \in Sent
      /\ page' = c /\ file' = v /\ offset' = o
  BY Sending DEF WireInv
<1>2. c # "done"
  BY DEF Command
<1> QED BY <1>1, <1>2 DEF WireInv, PageInv, Browsing

LEMMA ReadRequestInv == WireInv /\ ParserInv /\ ReadRequest => WireInv' /\ ParserInv'
<1> SUFFICES ASSUME WireInv, ParserInv, ReadRequest PROVE WireInv' /\ ParserInv'
  OBVIOUS
<1>1. PICK n \in Read(RequestSize - used) :
        request' = Extended(n) /\ used' = used + n /\ wire' = Drop(n)
  BY DEF ReadRequest
<1>2. RequestSize - used \in Nat \ {0}
  BY Sizes DEF ReadRequest, Whole, ParserInv
<1>3. n \in 1..Len(wire) /\ n <= RequestSize - used
  BY <1>2, ReadsFromFront DEF WireInv
<1>4. Len(wire) \in Nat
  BY LenProperties DEF WireInv
<1>5. used' \in 1..RequestSize
  BY <1>1, <1>2, <1>3, <1>4, LinkAssumption DEF ParserInv
<1>6. Extended(n) \in Sent \cup {None}
  <2>1. ASSUME NEW f, Continues(f, used, n) PROVE f \in Sent
    <3>1. wire[1].frame = f /\ 1 \in 1..Len(wire)
      BY <2>1, <1>3, <1>4 DEF Continues
    <3> QED BY <3>1 DEF WireInv
  <2> QED BY <2>1 DEF Extended
<1>7. expected' \in 0..MaxPayload /\ (used' < RequestSize => expected' = 0)
  <2>1. CASE used' = RequestSize
    <3>1. PayloadSize(request') \subseteq 0..MaxPayload
      BY <1>1, <1>6 DEF PayloadSize, Sent, Frame
    <3> QED BY <2>1, <3>1, LinkAssumption DEF ReadRequest
  <2>2. CASE used' # RequestSize
    <3>1. expected' = expected
      BY <2>2 DEF ReadRequest
    <3>2. used < RequestSize
      BY <1>2, Sizes DEF ParserInv
    <3>3. expected = 0
      BY <3>2 DEF ParserInv
    <3> QED BY <3>1, <3>3, Sizes
  <2> QED BY <2>1, <2>2
<1>8. dataUsed' = 0 /\ ~foreign' /\ foreign' \in BOOLEAN
  <2>1. dataUsed' = dataUsed /\ foreign' = foreign
    BY DEF ReadRequest
  <2>2. used < RequestSize
    BY <1>2, Sizes DEF ParserInv
  <2>3. dataUsed = 0 /\ ~foreign /\ foreign \in BOOLEAN
    BY <2>2 DEF ParserInv
  <2> QED BY <2>1, <2>3
<1>9. ParserInv'
  <2>1. request' \in Sent \cup {None}
    BY <1>1, <1>6
  <2>2. dataUsed' \in 0..expected'
    BY <1>7, <1>8, Sizes
  <2>3. used' \in 0..RequestSize /\ used' # 0
    BY <1>5, Sizes
  <2> QED BY <2>1, <2>2, <2>3, <1>7, <1>8 DEF ParserInv
<1> QED BY <1>1, <1>3, <1>9, Shrinking

LEMMA ReadDataInv == WireInv /\ ParserInv /\ ReadData => WireInv' /\ ParserInv'
<1> SUFFICES ASSUME WireInv, ParserInv, ReadData PROVE WireInv' /\ ParserInv'
  OBVIOUS
<1>1. PICK n \in Read(expected - dataUsed) :
        /\ dataUsed' = dataUsed + n
        /\ foreign' = (foreign \/ ~Continues(request, RequestSize + dataUsed, n))
        /\ wire' = Drop(n)
  BY DEF ReadData
<1>2. expected - dataUsed \in Nat \ {0} /\ expected \in Nat /\ dataUsed \in Nat
  BY WebusbAssumption DEF ReadData, ParserInv
<1>3. n \in 1..Len(wire) /\ n <= expected - dataUsed
  BY <1>2, ReadsFromFront DEF WireInv
<1>4. Len(wire) \in Nat
  BY LenProperties DEF WireInv
<1>5. dataUsed' \in 0..expected
  BY <1>1, <1>2, <1>3, <1>4
<1>6. used = RequestSize /\ UNCHANGED <<request, used, expected>>
  BY DEF ReadData, Whole
<1>7. foreign' \in BOOLEAN
  BY <1>1
<1>8. ParserInv'
  BY <1>5, <1>6, <1>7, LinkAssumption DEF ParserInv
<1> QED BY <1>1, <1>3, <1>8, Shrinking

\* The answer of an exchange is taken, and the page goes on.
LEMMA AnswerArrivesInv ==
  ASSUME WireInv, AnswerInv, PageInv, AnswerArrives
  PROVE  WireInv' /\ AnswerInv' /\ PageInv'
<1>1. AnswerInv'
  BY DEF AnswerArrives, TakePacket, AnswerInv
<1>2. CASE page \in {"begin", "data"} /\ Success
           /\ IF NextOffset < Size[file] THEN Exchange("data", file, NextOffset)
                                         ELSE Exchange("end", file, 0)
  <2>1. file \in Image /\ Size[file] \in 0..Capacity /\ offset \in Nat
    BY <1>2, WebusbAssumption DEF PageInv, Browsing
  <2>2. NextOffset \in Nat
    <3>1. CASE page = "data"
      BY <3>1, <2>1, Sizes DEF NextOffset, Chunk, PageInv, Browsing
    <3>2. CASE page # "data"
      BY <3>2 DEF NextOffset
    <3> QED BY <3>1, <3>2
  <2>3. CASE NextOffset < Size[file]
    <3>1. NextOffset \in 0..Capacity /\ "data" \in Command
      BY <2>1, <2>2, <2>3, Sizes DEF Command
    <3>2. Exchange("data", file, NextOffset)
      BY <1>2, <2>3
    <3> HIDE DEF NextOffset
    <3> QED BY <1>1, <2>1, <2>3, <3>1, <3>2, PageSends
  <2>4. CASE ~(NextOffset < Size[file])
    <3>1. Exchange("end", file, 0) /\ 0 \in 0..Capacity /\ "end" \in Command
      BY <1>2, <2>4, Sizes DEF Command
    <3> QED BY <1>1, <2>1, <3>1, PageSends
  <2> QED BY <2>3, <2>4
<1>3. CASE Exchange("abort", None, 0)
  <2>1. 0 \in 0..Capacity /\ "abort" \in Command
    BY Sizes DEF Command
  <2> QED BY <1>1, <1>3, <2>1, PageSends
<1>4. CASE page = "end" /\ page' = "done" /\ UNCHANGED <<wire, file, offset>>
  BY <1>1, <1>4 DEF WireInv, PageInv, Browsing, Resting
<1>5. CASE page' = "idle" /\ UNCHANGED <<wire, file, offset>>
  BY <1>1, <1>5 DEF WireInv, PageInv, Browsing, Resting
<1> QED BY <1>2, <1>3, <1>4, <1>5 DEF AnswerArrives

LEMMA ClosePageInv ==
  ASSUME WireInv, AnswerInv, ClosePage
  PROVE  WireInv' /\ AnswerInv' /\ PageInv'
<1>1. CASE wire' = wire
  BY <1>1, PageCloses DEF ClosePage, WireInv, AnswerInv
<1>2. ASSUME NEW n \in 0..Len(wire), wire' = SubSeq(wire, 1, n) PROVE WireInv'
  <2>1. Len(wire) \in Nat /\ \A k \in 1..Len(wire) : wire[k] \in Piece
    BY LenProperties, ElementOfSeq DEF WireInv
  <2>2. /\ wire' \in Seq(Piece)
        /\ Len(wire') = IF 1 <= n THEN n - 1 + 1 ELSE 0
        /\ \A k \in 1..(n - 1 + 1) : wire'[k] = wire[1 + k - 1]
    <3>1. n \in Int /\ 1 \in Int /\ \A k \in 1..n : wire[k] \in Piece
      BY <2>1
    <3> QED BY <1>2, <3>1, SubSeqProperties
  <2>3. Len(wire') = n /\ \A k \in 1..n : wire'[k] = wire[k]
    BY <2>1, <2>2
  <2> QED BY <2>1, <2>2, <2>3 DEF WireInv
<1>3. AnswerInv' /\ PageInv'
  BY PageCloses DEF ClosePage, AnswerInv
<1> QED BY <1>1, <1>2, <1>3 DEF ClosePage

LEMMA ProcessRequestInv ==
  ASSUME ParserInv, AnswerInv, ProcessRequest
  PROVE  ParserInv' /\ AnswerInv'
<1>1. ParserInv'
  BY ParserResets DEF ProcessRequest
<1>2. CASE SendResponse("error")
  <2>1. "error" \in Answer
    BY DEF Answer
  <2> QED BY <1>1, <1>2, <2>1, Answering
<1>3. CASE request # None /\ SendResponse(request.command)
  <2>1. request.command \in Answer
    BY <1>3 DEF ParserInv, Sent, Frame, Answer
  <2> QED BY <1>1, <1>3, <2>1, Answering
<1> QED BY <1>1, <1>2, <1>3 DEF ProcessRequest

LEMMA NextLink ==
  ASSUME LinkInv, TypeOK', [LinkNext]_linkVars
  PROVE  LinkInv'
<1>1. torn \in BOOLEAN /\ WireInv /\ ParserInv /\ AnswerInv /\ PageInv
  BY Parts
<1>2. SUFFICES torn' \in BOOLEAN /\ WireInv' /\ ParserInv' /\ AnswerInv' /\ PageInv'
  BY DEF LinkInv, LinkTypeOK, WireInv, ParserInv, AnswerInv, PageInv, Sent
<1>3. ASSUME wire' = <<>> PROVE WireInv'
  BY <1>3, EmptySeq DEF WireInv
<1>4. CASE Connect \/ Upgrade \/ SaveConfiguration
  <2>1. PICK c \in Command, v \in Image \cup {None} :
          (c = "begin" => v \in Image) /\ c \notin {"data", "end"} /\ Exchange(c, v, 0)
    <3>1. {"get", "begin", "set"} \subseteq Command
      BY DEF Command
    <3> QED BY <1>4, <3>1 DEF Connect, Upgrade, SaveConfiguration
  <2>2. WireInv' /\ PageInv'
    <3>1. 0 \in 0..Capacity
      BY Sizes
    <3> QED BY <1>1, <2>1, <3>1, PageSends
  <2>3. UNCHANGED <<parser, packet, queued>> /\ torn' \in BOOLEAN
    BY <1>1, <1>4 DEF Connect, Upgrade, SaveConfiguration, Settle
  <2> QED BY <1>1, <2>2, <2>3 DEF parser, ParserInv, AnswerInv
<1>5. CASE AnswerArrives
  <2>1. UNCHANGED <<parser, torn>>
    BY <1>5 DEF AnswerArrives
  <2> QED BY <1>1, <1>5, <2>1, AnswerArrivesInv DEF parser, ParserInv
<1>6. CASE ClosePage
  <2>1. UNCHANGED parser /\ torn' \in BOOLEAN
    BY <1>1, <1>6 DEF ClosePage
  <2> QED BY <1>1, <1>6, <2>1, ClosePageInv DEF parser, ParserInv
<1>7. CASE ReadRequest
  <2>1. UNCHANGED <<packet, queued, browser, torn>>
    BY <1>7 DEF ReadRequest
  <2> QED BY <1>1, <1>7, <2>1, ReadRequestInv DEF browser, AnswerInv, PageInv, Browsing
<1>8. CASE ReadData
  <2>1. UNCHANGED <<packet, queued, browser, torn>>
    BY <1>8 DEF ReadData
  <2> QED BY <1>1, <1>8, <2>1, ReadDataInv DEF browser, AnswerInv, PageInv, Browsing
<1>9. CASE RequestTooLarge
  <2>1. UNCHANGED <<browser, torn>> /\ SendResponse("error") /\ ResetParser
    BY <1>9 DEF RequestTooLarge
  <2>2. WireInv'
    BY <1>1, <1>9, Shrinking DEF RequestTooLarge
  <2>3. AnswerInv'
    BY <1>1, <2>1, Answering DEF Answer
  <2> QED BY <1>1, <2>1, <2>2, <2>3, ParserResets DEF browser, PageInv, Browsing
<1>10. CASE ProcessRequest
  <2>1. UNCHANGED <<wire, browser, torn>>
    BY <1>10 DEF ProcessRequest
  <2> QED BY <1>1, <1>10, <2>1, ProcessRequestInv
             DEF browser, WireInv, PageInv, Browsing
<1>11. CASE Reconnect
  <2>1. /\ wire' = <<>> /\ packet' = None /\ queued' = None /\ Closed
        /\ UNCHANGED parser /\ torn' \in BOOLEAN
    BY <1>11 DEF Reconnect
  <2> QED BY <1>1, <1>3, <2>1, PageCloses DEF parser, ParserInv, AnswerInv
<1>12. CASE DeviceReset
  BY <1>3, <1>12, ParserResets, PageCloses DEF DeviceReset, AnswerInv
<1>13. CASE UNCHANGED linkVars
  BY <1>1, <1>13 DEF linkVars, buffers, parser, browser, WireInv, ParserInv, AnswerInv,
                     PageInv, Browsing
<1> QED
  BY <1>4, <1>5, <1>6, <1>7, <1>8, <1>9, <1>10, <1>11, <1>12, <1>13 DEF LinkNext, Task

-----------------------------------------------------------------------------
LEMMA LinkInvariant == LinkSpec => Spec /\ []LinkInv
<1>1. LinkInit => Init /\ LinkInv
  BY InitLink DEF LinkInit
<1>2. LinkInv /\ SessionInv /\ [LinkNext]_linkVars => LinkInv' /\ SessionInv' /\ [Next]_vars
  <2> SUFFICES ASSUME LinkInv, SessionInv, [LinkNext]_linkVars
               PROVE  LinkInv' /\ SessionInv' /\ [Next]_vars
    OBVIOUS
  <2>1. [Next]_vars
    BY Simulates
  <2>2. SessionInv'
    BY <2>1, NextSession
  <2>3. TypeOK'
    BY <2>2 DEF SessionInv
  <2> QED BY <2>1, <2>2, <2>3, NextLink
<1> QED
  BY <1>1, <1>2, InitSession, PTL DEF LinkSpec, Spec

\* The parser, the buffers and the pages are well typed.
THEOREM LinkTypeCorrect == LinkSpec => []LinkTypeOK
<1>1. LinkInv => LinkTypeOK
  BY DEF LinkInv
<1> QED BY <1>1, LinkInvariant, PTL

\* The requests that ota_webusb_task puts together, from whole frames and from
\* parts of frames, are steps of the session: what is proved of OtaWebusb holds
\* under the byte stream.
THEOREM SessionRefinement == LinkSpec => Spec
BY LinkInvariant, PTL

-----------------------------------------------------------------------------
LEMMA PageFrame ==
  ASSUME LinkInv, page \in Command
  PROVE  /\ FrameOf(page, file, offset) \in Sent
         /\ FrameOf(page, file, offset) \in Frame
         /\ FrameOf(page, file, offset).command = page
         /\ FrameOf(page, file, offset).size \in 0..MaxPayload
<1>1. /\ file \in Image \cup {None} /\ offset \in Nat
      /\ page \in {"begin", "data", "end"} => file \in Image
      /\ page = "data" => offset < Size[file]
  BY Sizes DEF LinkInv, LinkTypeOK, Browsing
<1>2. /\ FrameOf(page, file, offset) \in Sent
      /\ FrameOf(page, file, offset) \in Frame
      /\ FrameOf(page, file, offset).command = page
  BY <1>1, FrameSent
<1> HIDE DEF FrameOf
<1> QED BY <1>2 DEF Frame

LEMMA SendsInStep ==
  ASSUME LinkInv, Quiet, NEW c \in Command, NEW v \in Image \cup {None},
         NEW o \in 0..Capacity, c \in {"begin", "data", "end"} => v \in Image,
         c = "data" => o < Size[v],
         Exchange(c, v, o), used' = used, packet' = None, queued' = None
  PROVE  InStep'
<1>1. /\ Follows(FrameOf(c, v, o), 0)'
      /\ page' = c /\ file' = v /\ offset' = o
  BY Sending DEF LinkInv, LinkTypeOK, Quiet
<1>2. c \notin Resting
  BY DEF Command, Resting
<1>3. Unread(FrameOf(page, file, offset))'
  BY <1>1 DEF Unread, Quiet
<1> QED BY <1>1, <1>2, <1>3 DEF InStep

\* The request of an exchange is read whole: a packet never ends inside it.
LEMMA ReadRequestInStep ==
  ASSUME LinkInv, InStep, ReadRequest
  PROVE  InStep'
<1> DEFINE f == FrameOf(page, file, offset)
<1>a. PICK n \in Read(RequestSize - used) :
        request' = Extended(n) /\ used' = used + n /\ wire' = Drop(n)
  BY DEF ReadRequest
<1>b. PICK m \in 1..Len(wire) :
        PacketEnd(m) /\ n = IF m < RequestSize - used THEN m ELSE RequestSize - used
  BY DEF Read
<1>1. /\ m \in 1..Len(wire) /\ PacketEnd(m)
      /\ n = IF m < RequestSize - used THEN m ELSE RequestSize - used
      /\ request' = Extended(n) /\ used' = used + n /\ wire' = Drop(n)
  BY <1>a, <1>b
<1>2. /\ wire \in Seq(Piece) /\ Len(wire) \in Nat /\ used \in 0..RequestSize
      /\ used < RequestSize
  BY Sizes, LenProperties DEF LinkInv, LinkTypeOK, ReadRequest, Whole
<1>3. wire # <<>>
  BY <1>1, <1>2, EmptySeq
<1>4. page \in Command /\ packet = None /\ Unread(f)
  BY <1>2, <1>3 DEF InStep, Quiet, HalfRead, LinkInv, LinkTypeOK
<1>5. f \in Sent /\ f \in Frame /\ f.size \in 0..MaxPayload
  BY <1>4, PageFrame
<1>6. UNCHANGED <<packet, queued, browser, dataUsed, foreign>>
  BY DEF ReadRequest
<1>7. f' = f
  BY <1>6 DEF FrameOf, Chunk, browser
<1> HIDE DEF f
<1>8. /\ used = 0 /\ Len(wire) = RequestSize + f.size
      /\ \A k \in 1..Len(wire) : wire[k] = [frame |-> f, at |-> k]
  <2>1. Len(wire) = RequestSize + f.size - 0
        /\ \A k \in 1..Len(wire) : wire[k] = [frame |-> f, at |-> 0 + k]
    BY <1>4 DEF Unread, Follows
  <2> QED BY <1>4, <2>1, <1>5, Sizes DEF Unread
<1>9. n = RequestSize
  <2>1. CASE m = Len(wire)
    BY <2>1, <1>1, <1>5, <1>8, Sizes
  <2>2. CASE m < Len(wire)
    <3>1. m + 1 \in 1..Len(wire) /\ wire[m + 1].at \notin 2..RequestSize
      BY <2>2, <1>1, <1>2 DEF PacketEnd
    <3>2. wire[m + 1] = [frame |-> f, at |-> m + 1]
      BY <3>1, <1>8
    <3>3. m + 1 \notin 2..RequestSize
      BY <3>1, <3>2
    <3> QED BY <3>3, <1>1, <1>2, <1>8, Sizes
  <2> QED BY <2>1, <2>2, <1>1, <1>2
<1>10. n \in 1..Len(wire)
  BY <1>5, <1>8, <1>9, Sizes
<1>11. request' = f
  <2>1. Head(wire) = wire[1]
    <3>1. 1 \in 1..Len(wire) /\ Len(wire) \in 1..Len(wire)
      BY <1>10, <1>2
    <3> QED BY <1>2, <3>1, HeadTailOfSubSeq, SubSeqFull
  <2>2. Head(wire).frame = f
    <3>1. 1 \in 1..Len(wire)
      BY <1>2, <1>10
    <3>2. wire[1] = [frame |-> f, at |-> 1]
      BY <3>1, <1>8
    <3> QED BY <2>1, <3>2
  <2>3. Continues(f, 0, n)
    <3>1. SUFFICES ASSUME NEW k \in 1..n
                   PROVE  wire[k].frame = f /\ wire[k].at = 0 + k
      BY DEF Continues
    <3>2. k \in 1..Len(wire)
      BY <1>2, <1>10
    <3>3. wire[k] = [frame |-> f, at |-> k]
      BY <3>2, <1>8
    <3> QED BY <3>3
  <2> QED BY <1>1, <1>8, <2>2, <2>3 DEF Extended
<1>12. expected' = f.size /\ used' = RequestSize
  <2>1. used' = RequestSize
    BY <1>1, <1>8, <1>9, Sizes
  <2>2. expected' \in PayloadSize(request')
    BY <2>1 DEF ReadRequest
  <2>3. f # None
    BY <1>5, LinkAssumption
  <2> QED BY <2>1, <2>2, <2>3, <1>11 DEF PayloadSize
<1>13. dataUsed' = 0 /\ ~foreign'
  BY <1>2, <1>6 DEF LinkInv
<1>14. Follows(f, RequestSize)'
  <2>1. /\ wire' = Drop(n)
        /\ Len(wire') = Len(wire) - n
        /\ \A k \in 1..(Len(wire) - n) : wire'[k] = wire[n + k]
    BY <1>1, <1>2, <1>10, Dropping
  <2>2. \A k \in 1..(Len(wire) - n) : n + k \in 1..Len(wire)
    BY <1>2, <1>10
  <2>3. \A k \in 1..Len(wire') : wire'[k] = [frame |-> f, at |-> RequestSize + k]
    BY <2>1, <2>2, <1>8, <1>9
  <2>4. Len(wire') = RequestSize + f.size - RequestSize
    BY <2>1, <1>5, <1>8, <1>9, Sizes
  <2>5. /\ Len(wire') = RequestSize + f'.size - RequestSize
        /\ \A k \in 1..Len(wire') : wire'[k] = [frame |-> f', at |-> RequestSize + k]
    BY <2>3, <2>4, <1>7
  <2> QED BY <2>5 DEF Follows
<1>15. HalfRead(f)'
  <2>1. RequestSize + dataUsed' = RequestSize
    BY <1>13, Sizes
  <2> QED BY <2>1, <1>7, <1>11, <1>12, <1>13, <1>14 DEF HalfRead
<1>16. page' = page /\ page \notin Resting
  BY <1>4, <1>6 DEF browser, Command, Resting
<1> QED BY <1>4, <1>6, <1>7, <1>15, <1>16 DEF InStep, f

LEMMA ReadDataInStep ==
  ASSUME LinkInv, InStep, ReadData
  PROVE  InStep'
<1> DEFINE f == FrameOf(page, file, offset)
<1>1. PICK n \in Read(expected - dataUsed) :
        /\ dataUsed' = dataUsed + n
        /\ foreign' = (foreign \/ ~Continues(request, RequestSize + dataUsed, n))
        /\ wire' = Drop(n)
  BY DEF ReadData
<1>2. /\ wire \in Seq(Piece) /\ Len(wire) \in Nat
      /\ expected - dataUsed \in Nat \ {0} /\ dataUsed \in Nat
  BY Sizes, LenProperties DEF LinkInv, LinkTypeOK, ReadData
<1>3. n \in 1..Len(wire) /\ n <= expected - dataUsed
  BY <1>2, ReadsFromFront
<1>4. page \in Command /\ packet = None /\ HalfRead(f)
  BY <1>3, Sizes DEF InStep, Quiet, Unread, ReadData, Whole, LinkInv, LinkTypeOK
<1>5. f.size \in 0..MaxPayload
  BY <1>4, PageFrame
<1>6. UNCHANGED <<packet, queued, browser, request, used, expected>>
  BY DEF ReadData
<1>7. f' = f
  BY <1>6 DEF FrameOf, Chunk, browser
<1> HIDE DEF f
<1>8. /\ used = RequestSize /\ request = f /\ expected = f.size /\ ~foreign
      /\ Len(wire) = RequestSize + f.size - (RequestSize + dataUsed)
      /\ \A k \in 1..Len(wire) : wire[k] = [frame |-> f, at |-> RequestSize + dataUsed + k]
  BY <1>4 DEF HalfRead, Follows
<1>9. ~foreign'
  <2>1. SUFFICES ASSUME NEW k \in 1..n
                 PROVE  wire[k].frame = f /\ wire[k].at = RequestSize + dataUsed + k
    BY <1>1, <1>8 DEF Continues
  <2>2. k \in 1..Len(wire)
    BY <1>2, <1>3
  <2>3. wire[k] = [frame |-> f, at |-> RequestSize + dataUsed + k]
    BY <2>2, <1>8
  <2> QED BY <2>3
<1>10. Follows(f, RequestSize + dataUsed)'
  <2>1. /\ wire' = Drop(n)
        /\ Len(wire') = Len(wire) - n
        /\ \A k \in 1..(Len(wire) - n) : wire'[k] = wire[n + k]
    BY <1>1, <1>2, <1>3, Dropping
  <2>2. ASSUME NEW k \in 1..Len(wire')
        PROVE  wire'[k] = [frame |-> f, at |-> RequestSize + dataUsed' + k]
    <3>1. n + k \in 1..Len(wire) /\ wire'[k] = wire[n + k]
      BY <2>1, <1>2, <1>3
    <3>2. wire[n + k] = [frame |-> f, at |-> RequestSize + dataUsed + (n + k)]
      BY <3>1, <1>8
    <3>3. RequestSize + dataUsed + (n + k) = RequestSize + dataUsed' + k
      BY <1>1, <1>2, <1>3, Sizes
    <3> QED BY <3>1, <3>2, <3>3
  <2>3. Len(wire') = RequestSize + f.size - (RequestSize + dataUsed')
    <3>1. /\ Len(wire) = RequestSize + f.size - (RequestSize + dataUsed)
          /\ Len(wire') = Len(wire) - n
          /\ dataUsed' = dataUsed + n
      BY <2>1, <1>1, <1>8
    <3>2. n \in Nat /\ dataUsed \in Nat /\ f.size \in Nat /\ RequestSize \in Nat
      BY <1>2, <1>3, <1>5, Sizes
    <3> QED BY <3>1, <3>2
  <2>4. /\ Len(wire') = RequestSize + f'.size - (RequestSize + dataUsed')
        /\ \A k \in 1..Len(wire') : wire'[k] = [frame |-> f', at |-> RequestSize + dataUsed' + k]
    BY <2>2, <2>3, <1>7
  <2> QED BY <2>4 DEF Follows
<1>11. HalfRead(f)'
  BY <1>6, <1>7, <1>8, <1>9, <1>10 DEF HalfRead
<1>12. page' = page /\ page \notin Resting
  BY <1>4, <1>6 DEF browser, Command, Resting
<1> QED BY <1>4, <1>6, <1>7, <1>11, <1>12 DEF InStep, f

\* A request in step is not too large, and what is processed is the page's.
LEMMA NeverTooLarge ==
  ASSUME LinkInv, InStep, RequestTooLarge
  PROVE  FALSE
<1> DEFINE f == FrameOf(page, file, offset)
           r == RequestSize - used
<1>1. PICK n \in 1..Len(wire) : used + n >= RequestSize /\ Extended(r) = None
  BY DEF RequestTooLarge
<1>2. /\ wire \in Seq(Piece) /\ Len(wire) \in Nat /\ used \in 0..RequestSize
      /\ used < RequestSize
  BY Sizes, LenProperties DEF LinkInv, LinkTypeOK, RequestTooLarge, Whole
<1>3. wire # <<>>
  BY <1>1, <1>2, EmptySeq
<1>4. page \in Command /\ Unread(f)
  BY <1>2, <1>3 DEF InStep, Quiet, HalfRead, LinkInv, LinkTypeOK
<1>5. f \in Frame /\ f.size \in 0..MaxPayload
  BY <1>4, PageFrame
<1> HIDE DEF f
<1>6. /\ used = 0 /\ r = RequestSize /\ Len(wire) = RequestSize + f.size
      /\ \A k \in 1..Len(wire) : wire[k] = [frame |-> f, at |-> k]
  <2>1. /\ used = 0 /\ Len(wire) = RequestSize + f.size - 0
        /\ \A k \in 1..Len(wire) : wire[k] = [frame |-> f, at |-> 0 + k]
    BY <1>4 DEF Unread, Follows
  <2> QED BY <2>1, <1>5, Sizes
<1>7. Head(wire).frame = f
  <2>1. 1 \in 1..Len(wire) /\ Len(wire) \in 1..Len(wire)
    BY <1>1, <1>2
  <2>2. Head(wire) = wire[1]
    BY <1>2, <2>1, HeadTailOfSubSeq, SubSeqFull
  <2>3. wire[1] = [frame |-> f, at |-> 1]
    BY <2>1, <1>6
  <2> QED BY <2>2, <2>3
<1>8. Continues(f, 0, RequestSize)
  <2>1. SUFFICES ASSUME NEW k \in 1..RequestSize
                 PROVE  wire[k].frame = f /\ wire[k].at = 0 + k
    BY DEF Continues
  <2>2. k \in 1..Len(wire)
    BY <1>5, <1>6, Sizes
  <2>3. wire[k] = [frame |-> f, at |-> k]
    BY <2>2, <1>6
  <2> QED BY <2>3
<1>9. Extended(r) = f
  BY <1>6, <1>7, <1>8 DEF Extended
<1> QED BY <1>1, <1>5, <1>9, LinkAssumption

LEMMA ProcessedIsPages ==
  ASSUME LinkInv, InStep, ProcessRequest
  PROVE  /\ page \in Command /\ packet = None /\ queued = None
         /\ request = FrameOf(page, file, offset) /\ request # None
         /\ expected = request.size /\ ~foreign /\ wire = <<>>
<1> DEFINE f == FrameOf(page, file, offset)
<1>1. used = RequestSize /\ dataUsed = expected /\ used # 0
  BY Sizes DEF ProcessRequest, Ready, Whole
<1>2. page \in Command /\ packet = None /\ queued = None /\ HalfRead(f)
  BY <1>1 DEF InStep, Quiet, Unread, LinkInv, LinkTypeOK
<1>3. f \in Frame /\ f.size \in 0..MaxPayload
  BY <1>2, PageFrame
<1> HIDE DEF f
<1>4. request = f /\ expected = f.size /\ ~foreign
      /\ Len(wire) = RequestSize + f.size - (RequestSize + dataUsed)
  BY <1>2 DEF HalfRead, Follows
<1>5. Len(wire) = 0
  BY <1>1, <1>3, <1>4, Sizes
<1>6. wire = <<>>
  BY <1>5, EmptySeq DEF LinkInv, LinkTypeOK
<1>7. f # None
  BY <1>3, LinkAssumption
<1> QED BY <1>2, <1>4, <1>6, <1>7 DEF f

\* A page begins an exchange when nothing of an earlier one is left.
LEMMA StartsClean ==
  ASSUME ~torn => InStep, Connect \/ Upgrade \/ SaveConfiguration, ~torn'
  PROVE  page \in Resting /\ Quiet /\ packet = None /\ queued = None
<1>1. page \in Resting /\ torn' = (torn /\ ~Clean)
  BY DEF Connect, Upgrade, SaveConfiguration, Resting, Settle
<1>2. CASE torn
  BY <1>1, <1>2 DEF Clean, Quiet
<1>3. CASE ~torn
  BY <1>1, <1>3 DEF InStep
<1> QED BY <1>2, <1>3

LEMMA NextInStep ==
  ASSUME LinkInv, ~torn => InStep, [LinkNext]_linkVars, ~torn'
  PROVE  InStep'
<1>1. CASE Connect \/ Upgrade \/ SaveConfiguration
  <2>1. UNCHANGED <<parser, packet, queued>>
    BY <1>1 DEF Connect, Upgrade, SaveConfiguration
  <2>2. Quiet /\ packet' = None /\ queued' = None /\ used' = used
    BY <1>1, <2>1, StartsClean DEF parser
  <2>3. PICK c \in Command, v \in Image \cup {None} :
          (c = "begin" => v \in Image) /\ c \notin {"data", "end"} /\ Exchange(c, v, 0)
    <3>1. {"get", "begin", "set"} \subseteq Command
      BY DEF Command
    <3> QED BY <1>1, <3>1 DEF Connect, Upgrade, SaveConfiguration
  <2>4. 0 \in 0..Capacity
    BY Sizes
  <2> QED BY <2>2, <2>3, <2>4, SendsInStep
<1>2. CASE AnswerArrives
  <2>1. InStep /\ page \in Command /\ packet # None /\ UNCHANGED parser
    BY <1>2 DEF AnswerArrives
  <2>2. page \notin Resting
    BY <2>1 DEF Command, Resting
  <2>3. Quiet /\ packet' = None /\ queued' = None /\ used' = used
    BY <1>2, <2>1 DEF InStep, parser, AnswerArrives, TakePacket
  <2>4. CASE page \in {"begin", "data"}
             /\ IF NextOffset < Size[file] THEN Exchange("data", file, NextOffset)
                                           ELSE Exchange("end", file, 0)
    <3>1. file \in Image /\ Size[file] \in 0..Capacity /\ offset \in Nat
      BY <2>4, WebusbAssumption DEF LinkInv, LinkTypeOK, Browsing
    <3>2. NextOffset \in Nat
      <4>1. CASE page = "data"
        BY <4>1, <3>1, Sizes DEF NextOffset, Chunk
      <4>2. CASE page # "data"
        BY <4>2 DEF NextOffset
      <4> QED BY <4>1, <4>2
    <3>3. CASE NextOffset < Size[file]
      <4>1. NextOffset \in 0..Capacity /\ "data" \in Command /\ Exchange("data", file, NextOffset)
        BY <2>4, <3>1, <3>2, <3>3, Sizes DEF Command
      <4> HIDE DEF NextOffset
      <4> QED BY <2>3, <3>1, <3>3, <4>1, SendsInStep
    <3>4. CASE ~(NextOffset < Size[file])
      <4>1. Exchange("end", file, 0) /\ 0 \in 0..Capacity /\ "end" \in Command
        BY <2>4, <3>4, Sizes DEF Command
      <4> QED BY <2>3, <3>1, <4>1, SendsInStep
    <3> QED BY <3>3, <3>4
  <2>5. CASE Exchange("abort", None, 0)
    <3>1. 0 \in 0..Capacity /\ "abort" \in Command
      BY Sizes DEF Command
    <3> QED BY <2>3, <2>5, <3>1, SendsInStep
  <2>6. CASE page' \in {"done", "idle"} /\ wire' = wire
    BY <2>3, <2>6 DEF InStep, Quiet, Resting, Command
  <2> QED BY <1>2, <2>4, <2>5, <2>6 DEF AnswerArrives
<1>3. CASE ClosePage
  <2>1. InStep /\ page \in Resting /\ wire' = wire /\ UNCHANGED <<parser, packet, queued>>
    BY <1>3 DEF ClosePage, LinkInv, LinkTypeOK
  <2>2. page' = "closed"
    BY <1>3 DEF ClosePage, Closed
  <2> QED BY <2>1, <2>2 DEF InStep, Quiet, Resting, Command, parser
<1>4. CASE ReadRequest
  BY <1>4, ReadRequestInStep DEF ReadRequest
<1>5. CASE ReadData
  BY <1>5, ReadDataInStep DEF ReadData
<1>6. CASE RequestTooLarge
  BY <1>6, NeverTooLarge DEF RequestTooLarge
<1>7. CASE ProcessRequest
  <2>1. InStep
    BY <1>7 DEF ProcessRequest
  <2>2. /\ page \in Command /\ packet = None /\ queued = None
        /\ request = FrameOf(page, file, offset) /\ request # None /\ wire = <<>>
    BY <1>7, <2>1, ProcessedIsPages
  <2>3. request.command = page
    BY <2>2, PageFrame
  <2>4. packet' \in {page, "error"} /\ queued' = None
    BY <1>7, <2>2, <2>3 DEF ProcessRequest, SendResponse
  <2>5. wire' = <<>> /\ used' = 0 /\ page' = page
    BY <1>7, <2>2 DEF ProcessRequest, ResetParser, browser
  <2>6. page \notin Resting
    BY <2>2 DEF Command, Resting
  <2> QED BY <2>2, <2>4, <2>5, <2>6 DEF InStep, Quiet
<1>8. CASE Reconnect \/ DeviceReset
  <2>1. wire' = <<>> /\ packet' = None /\ queued' = None /\ page' = "closed"
    BY <1>8 DEF Reconnect, DeviceReset, Closed
  <2>2. used' = 0
    <3>1. CASE Reconnect
      <4>1. torn' = (used > 0) /\ used' = used
        BY <3>1 DEF Reconnect, parser
      <4>2. used \in Nat
        BY Sizes DEF LinkInv, LinkTypeOK
      <4>3. ~(used > 0)
        BY <4>1
      <4> QED BY <4>1, <4>2, <4>3
    <3>2. CASE DeviceReset
      BY <3>2 DEF DeviceReset, ResetParser
    <3> QED BY <1>8, <3>1, <3>2
  <2> QED BY <2>1, <2>2 DEF InStep, Quiet, Resting, Command
<1>9. CASE UNCHANGED linkVars
  <2>1. InStep
    BY <1>9 DEF linkVars
  <2> QED BY <1>9, <2>1 DEF linkVars, buffers, parser, browser, InStep, Quiet, Unread,
                         HalfRead, Follows, FrameOf, Chunk
<1> QED
  BY <1>1, <1>2, <1>3, <1>4, <1>5, <1>6, <1>7, <1>8, <1>9 DEF LinkNext, Task

\* What a session holds stays where it is while nothing is processed.
LEMMA UploadKept ==
  ASSUME UploadInv, UNCHANGED <<vars, browser, packet, torn>>
  PROVE  UploadInv'
BY DEF UploadInv, SuccessIsCommitted, Holds, Stored, Chunk, vars, flash, session, browser

\* The requests of an upload, each processed in step.
LEMMA ProcessedUpload ==
  ASSUME LinkInv, RebootInv, InStep, UploadInv, ProcessRequest
  PROVE  UploadInv'
<1>1. /\ page \in Command /\ packet = None
      /\ request = FrameOf(page, file, offset) /\ request # None
      /\ expected = request.size /\ ~foreign
  BY ProcessedIsPages
<1>2. request.command = page /\ request \in Sent
  BY <1>1, PageFrame
<1>3. page' = page /\ file' = file /\ offset' = offset /\ page # "done"
  BY <1>1 DEF ProcessRequest, browser, Command
<1>4. None # "error" /\ None # page /\ page # "error"
  BY <1>1, LinkAssumption DEF Answer, Command
<1>5. CASE packet' = "error"
  BY <1>3, <1>4, <1>5, LinkAssumption DEF UploadInv, SuccessIsCommitted, Answer, Command
<1>6. CASE Handler(TRUE) /\ packet' = page
  <2>1. CASE page = "begin"
    <3>1. BeginUpdate(Size[file])
      BY <1>1, <1>2, <1>6, <2>1 DEF Handler, FrameOf
    <3>2. Units(0, 0) = {}
      BY Sizes DEF Units, Unit
    <3>3. /\ receiving' /\ ~clearFailed' /\ total' = Size[file] /\ received' = 0
      BY <3>1 DEF BeginUpdate
    <3>4. Holds(0)'
      BY <1>3, <3>2, <3>3 DEF Holds
    <3> QED BY <1>3, <1>4, <1>6, <2>1, <3>4 DEF UploadInv, SuccessIsCommitted
  <2>2. CASE page = "data"
    <3>1. Holds(offset) /\ file \in Image /\ offset \in Nat
      BY <1>1, <2>2, Sizes DEF UploadInv, LinkInv, LinkTypeOK, Browsing
    <3>2. PICK m \in Nat : m = Chunk(file, offset)
      <4>1. Chunk(file, offset) = expected
        BY <1>1, <2>2 DEF FrameOf
      <4>2. expected \in Nat
        BY Sizes DEF LinkInv, LinkTypeOK
      <4> QED BY <4>1, <4>2
    <3>3. WriteData(m, file)
      BY <1>1, <1>2, <1>6, <2>2, <3>2 DEF Handler, FrameOf, Payload
    <3>4. Chunk(file, offset)' = m
      BY <1>3, <3>2 DEF Chunk
    <3>5. /\ receiving' /\ ~clearFailed' /\ total' = Size[file]
          /\ received' = offset + m
          /\ sent' = [i \in Unit |-> IF i \in Units(offset, offset + m)
                                     THEN file ELSE sent[i]]
      BY <3>1, <3>3 DEF WriteData, Holds
    <3>6. ASSUME NEW i \in Units(0, offset + m) PROVE sent'[i] = file
      <4>1. i \in Unit /\ i \in Int
        BY Sizes DEF Units, Unit
      <4>2. i \in Units(0, offset) \/ i \in Units(offset, offset + m)
        BY <3>1, <4>1 DEF Units
      <4> QED BY <3>1, <3>5, <4>1, <4>2 DEF Holds
    <3>7. Holds(offset + Chunk(file, offset))'
      BY <1>3, <3>4, <3>5, <3>6 DEF Holds
    <3> HIDE DEF Holds
    <3> QED BY <1>3, <1>4, <1>6, <2>2, <3>7 DEF UploadInv, SuccessIsCommitted
  <2>3. CASE page = "end"
    <3>1. Holds(Size[file]) /\ file \in Image
      BY <1>1, <2>3 DEF UploadInv, LinkInv, Browsing
    <3>2. FinishUpdate
      BY <1>2, <1>6, <2>3 DEF Handler
    <3>3. meta' = Size[file]
      BY <3>1, <3>2 DEF FinishUpdate, Commit, Holds, RebootInv
    <3>4. \A i \in Units(0, Size[file]) : cells[i] = file
      BY <3>1 DEF Holds, RebootInv, SessionInv, SentIsStored
    <3>5. (meta = Size[file] /\ Stored(file, meta))'
      BY <1>3, <3>2, <3>3, <3>4 DEF Stored, FinishUpdate
    <3> QED BY <1>3, <1>4, <1>6, <2>3, <3>5 DEF UploadInv, SuccessIsCommitted
  <2>4. CASE page \notin {"begin", "data", "end"}
    BY <1>3, <2>4 DEF UploadInv, SuccessIsCommitted
  <2> QED BY <2>1, <2>2, <2>3, <2>4
<1> QED
  BY <1>1, <1>2, <1>5, <1>6 DEF ProcessRequest, SendResponse

LEMMA NextUpload ==
  ASSUME LinkInv, RebootInv, StepInv, [LinkNext]_linkVars, ~torn'
  PROVE  UploadInv'
<1>1. CASE page' \in {"closed", "idle", "get", "set", "abort"}
  BY <1>1 DEF UploadInv, SuccessIsCommitted
<1>2. CASE Connect \/ SaveConfiguration \/ ClosePage \/ Reconnect \/ DeviceReset
  BY <1>1, <1>2 DEF Connect, SaveConfiguration, Exchange, ClosePage, Closed, Reconnect,
                    DeviceReset
<1>3. CASE Upgrade
  <2>1. packet = None /\ packet' = packet
    BY <1>3, StartsClean DEF Upgrade, StepInv
  <2>2. packet' # "begin"
    BY <2>1, LinkAssumption DEF Answer, Command
  <2>3. page' = "begin"
    BY <1>3 DEF Upgrade, Exchange
  <2> QED BY <2>2, <2>3 DEF UploadInv, SuccessIsCommitted
<1>4. CASE AnswerArrives
  <2>1. InStep /\ UploadInv /\ UNCHANGED vars
    BY <1>4 DEF AnswerArrives, StepInv
  <2>2. page \in Command /\ packet # None /\ packet' = None
    BY <1>4, <2>1 DEF AnswerArrives, TakePacket, InStep
  <2>3. None \notin {"begin", "data", "end"}
    BY LinkAssumption DEF Answer, Command
  <2>4. CASE page \in {"begin", "data"} /\ packet = page
             /\ IF NextOffset < Size[file] THEN Exchange("data", file, NextOffset)
                                           ELSE Exchange("end", file, 0)
    <3>1. file \in Image /\ Size[file] \in Nat /\ offset \in Nat
      BY <2>4, WebusbAssumption DEF LinkInv, LinkTypeOK, Browsing
    <3>2. Holds(NextOffset)
      BY <2>1, <2>4 DEF UploadInv, NextOffset
    <3>3. NextOffset \in Nat /\ NextOffset <= Size[file]
      <4>1. CASE page = "data"
        BY <4>1, <3>1, Sizes DEF NextOffset, Chunk, LinkInv, Browsing
      <4>2. CASE page = "begin"
        BY <4>2, <3>1 DEF NextOffset
      <4> QED BY <2>4, <4>1, <4>2
    <3>4. CASE NextOffset < Size[file]
      <4>1. page' = "data" /\ file' = file /\ offset' = NextOffset
        BY <2>4, <3>4 DEF Exchange
      <4>2. Holds(offset)'
        BY <2>1, <3>2, <4>1 DEF Holds, vars, flash, session
      <4> HIDE DEF Holds
      <4> QED BY <2>2, <2>3, <4>1, <4>2 DEF UploadInv, SuccessIsCommitted
    <3>5. CASE NextOffset = Size[file]
      <4>1. page' = "end" /\ file' = file
        BY <2>4, <3>1, <3>5 DEF Exchange
      <4>2. Holds(Size[file])'
        BY <2>1, <3>2, <3>5, <4>1 DEF Holds, vars, flash, session
      <4> HIDE DEF Holds
      <4> QED BY <2>2, <2>3, <4>1, <4>2 DEF UploadInv, SuccessIsCommitted
    <3> QED BY <3>1, <3>3, <3>4, <3>5
  <2>5. CASE page = "end" /\ packet = page /\ page' = "done" /\ UNCHANGED <<wire, file, offset>>
    <3>1. meta = Size[file] /\ Stored(file, meta)
      BY <2>1, <2>5 DEF UploadInv
    <3>2. SuccessIsCommitted'
      BY <2>1, <2>5, <3>1 DEF SuccessIsCommitted, Stored, vars, flash
    <3> QED BY <2>5, <3>2 DEF UploadInv
  <2>6. CASE Exchange("abort", None, 0)
    BY <1>1, <2>6 DEF Exchange
  <2>7. CASE page' = "idle"
    BY <1>1, <2>7
  <2> QED BY <1>4, <2>4, <2>5, <2>6, <2>7 DEF AnswerArrives, Success
<1>5. CASE ReadRequest \/ ReadData
  <2>1. UploadInv /\ UNCHANGED <<vars, browser, packet, torn>>
    BY <1>5 DEF ReadRequest, ReadData, StepInv
  <2> QED BY <2>1, UploadKept
<1>6. CASE RequestTooLarge
  BY <1>6, NeverTooLarge DEF RequestTooLarge, StepInv
<1>7. CASE ProcessRequest
  BY <1>7, ProcessedUpload DEF ProcessRequest, StepInv
<1>8. CASE UNCHANGED linkVars
  <2>1. UploadInv /\ UNCHANGED <<vars, browser, packet, torn>>
    BY <1>8 DEF linkVars, buffers, StepInv
  <2> QED BY <2>1, UploadKept
<1> QED
  BY <1>2, <1>3, <1>4, <1>5, <1>6, <1>7, <1>8 DEF LinkNext, Task

LEMMA StepInvariant == LinkSpec => []StepInv
<1>1. LinkInit => StepInv
  BY DEF LinkInit, StepInv, InStep, UploadInv, SuccessIsCommitted, Quiet, Resting, Command
<1>2. LinkInv /\ RebootInv /\ StepInv /\ [LinkNext]_linkVars => StepInv'
  <2> SUFFICES ASSUME LinkInv, RebootInv, StepInv, [LinkNext]_linkVars, ~torn'
               PROVE  InStep' /\ UploadInv'
    BY DEF StepInv
  <2>1. ~torn => InStep
    BY DEF StepInv
  <2> QED BY <2>1, NextInStep, NextUpload
<1> QED
  BY <1>1, <1>2, LinkInvariant, RebootInvariant, PTL DEF LinkSpec

\* exchange, send_response: the answer that waits is the one to the page's
\* request, for all sizes of requests, payloads and buffers.
THEOREM AnswerSafety == LinkSpec => []AnswersMatch
<1>1. LinkInv /\ StepInv => AnswersMatch
  <2> SUFFICES ASSUME LinkInv, StepInv, ~torn, packet # None
               PROVE  packet \in {page, "error"}
    BY DEF AnswersMatch
  <2> QED BY DEF StepInv, InStep, LinkInv, LinkTypeOK
<1> QED BY <1>1, LinkInvariant, StepInvariant, PTL

\* upgrade, finish_update: a page that reports success has its package in the
\* staging area, whatever fails, for all sizes of packages, payloads and buffers.
THEOREM UploadSafety == LinkSpec => []SuccessIsCommitted
<1>1. StepInv => SuccessIsCommitted
  BY DEF StepInv, UploadInv, SuccessIsCommitted
<1> QED BY <1>1, StepInvariant, PTL
-----------------------------------------------------------------------------
(***************************************************************************)
(* An upload comes to an end: what UploadEnds owes to the code and not to  *)
(* fairness.                                                               *)
(***************************************************************************)

Awaiting == page \in Command /\ ~torn

\* An answer waits, or a whole request, or pieces the parser will take.
Served == packet # None \/ Ready \/ wire # <<>>

\* A bound on the exchanges that follow the page's current one.
ExchangesLeft ==
  CASE page = "begin" -> Size[file] + 2
    [] page = "data" -> Size[file] - offset + 1
    [] page = "end" -> 1
    [] OTHER -> 0

\* The turns of ota_webusb_task in an exchange, and the arrival of its answer.
ExchangeSteps == RequestSize + MaxPayload + 2

\* A bound on the steps that are left of what the page does.
UploadSteps ==
  ExchangesLeft * ExchangeSteps + (IF packet = None THEN 1 + Len(wire) ELSE 0)

LEMMA FewerExchanges ==
  ASSUME NEW m \in Nat, NEW n \in Nat, m < n, NEW p \in Nat
  PROVE  m * p \in Nat /\ n * p \in Nat /\ m * p + p <= n * p
<1>1. m * p \in Nat /\ n * p \in Nat /\ (n - m - 1) * p \in Nat
  OBVIOUS
<1>2. n * p = m * p + p + (n - m - 1) * p
  OBVIOUS
<1> QED BY <1>1, <1>2

LEMMA ExchangesBounded ==
  ASSUME LinkInv, page \in Command
  PROVE  /\ ExchangesLeft \in 0..(Capacity + 2)
         /\ page \in {"begin", "data", "end"} => ExchangesLeft >= 1
<1>1. /\ page \in {"begin", "data"} => Size[file] \in 0..Capacity
      /\ page = "data" => offset < Size[file]
      /\ offset \in 0..Capacity /\ Capacity \in Nat
  BY Sizes, WebusbAssumption DEF LinkInv, LinkTypeOK, Browsing
<1> QED BY <1>1 DEF ExchangesLeft

\* What is on the wire is at most the request of the page.
LEMMA ExchangeBounded ==
  ASSUME LinkInv, InStep, page \in Command
  PROVE  /\ Len(wire) \in 0..(RequestSize + MaxPayload)
         /\ Served
<1> DEFINE f == FrameOf(page, file, offset)
<1>1. f.size \in 0..MaxPayload
  BY PageFrame
<1>2. wire \in Seq(Piece) /\ Len(wire) \in Nat
  BY LenProperties DEF LinkInv, LinkTypeOK
<1>3. /\ dataUsed \in 0..expected /\ expected \in 0..MaxPayload
  BY DEF LinkInv, LinkTypeOK
<1>4. CASE Quiet /\ packet \in {page, "error"}
  <2>1. packet # None
    BY <1>4, LinkAssumption DEF Answer
  <2>2. Len(wire) = 0
    BY <1>4, EmptySeq DEF Quiet
  <2> QED BY <2>1, <2>2, Sizes DEF Served
<1> HIDE DEF f
<1>5. CASE Unread(f)
  <2>1. Len(wire) = RequestSize + f.size
    BY <1>1, <1>5, Sizes DEF Unread, Follows
  <2>2. wire # <<>>
    BY <2>1, <1>1, Sizes, EmptySeq
  <2> QED BY <1>1, <2>1, <2>2, Sizes DEF Served
<1>6. CASE HalfRead(f)
  <2>1. Len(wire) = f.size - dataUsed /\ expected = f.size /\ Whole
    BY <1>1, <1>3, <1>6, Sizes DEF HalfRead, Follows, Whole
  <2>2. CASE dataUsed = expected
    BY <2>1, <2>2, <1>1, <1>2, <1>3, Sizes DEF Served, Ready
  <2>3. CASE dataUsed # expected
    <3>1. wire # <<>>
      BY <2>1, <2>3, <1>1, <1>3, Sizes, EmptySeq
    <3> QED BY <2>1, <3>1, <1>1, <1>2, <1>3, Sizes DEF Served
  <2> QED BY <2>2, <2>3
<1> QED BY <1>4, <1>5, <1>6 DEF InStep, f

LEMMA UploadBounded ==
  ASSUME LinkInv, InStep, page \in Command
  PROVE  UploadSteps \in 0..((Capacity + 3) * ExchangeSteps)
<1> DEFINE p == ExchangeSteps
<1>1. p \in Nat /\ p = RequestSize + MaxPayload + 2 /\ Capacity \in Nat
  BY Sizes DEF ExchangeSteps
<1>2. PICK n \in 0..(Capacity + 2) : n = ExchangesLeft
  BY ExchangesBounded
<1>3. PICK k \in 0..p : k = IF packet = None THEN 1 + Len(wire) ELSE 0
  BY <1>1, ExchangeBounded, Sizes
<1>4. UploadSteps = n * p + k
  BY <1>2, <1>3 DEF UploadSteps
<1> HIDE DEF p
<1>5. n * p \in Nat /\ (Capacity + 3) * p \in Nat /\ n * p + p <= (Capacity + 3) * p
  <2>1. n \in Nat /\ Capacity + 3 \in Nat /\ n < Capacity + 3
    BY <1>1, <1>2
  <2> QED BY <1>1, <2>1, FewerExchanges
<1>6. UploadSteps \in 0..((Capacity + 3) * p)
  <2>1. PICK a \in Nat, b \in Nat : a = n * p /\ b = (Capacity + 3) * p
    BY <1>5
  <2>2. a + p <= b /\ k \in Nat /\ k <= p /\ p \in Nat /\ UploadSteps = a + k
    BY <1>1, <1>3, <1>4, <1>5, <2>1
  <2>3. UploadSteps \in 0..b
    BY <2>2
  <2> QED BY <2>1, <2>3
<1> QED BY <1>6 DEF p

\* The next exchange of an upload is one of fewer.
LEMMA NextExchange ==
  ASSUME LinkInv, AnswerArrives, page' \notin Resting
  PROVE  ExchangesLeft' \in Nat /\ ExchangesLeft' < ExchangesLeft
<1>1. page \in Command /\ ExchangesLeft \in Nat
  BY ExchangesBounded, Sizes DEF AnswerArrives
<1>2. page \in {"begin", "data", "end"}
  BY <1>1 DEF AnswerArrives, Command, Resting
<1>3. /\ page \in {"begin", "data"} => Size[file] \in Nat
      /\ page = "data" => offset < Size[file]
      /\ offset \in Nat
  BY Sizes, WebusbAssumption DEF LinkInv, LinkTypeOK, Browsing
<1>4. CASE Exchange("abort", None, 0)
  <2>1. ExchangesLeft' = 0 /\ ExchangesLeft >= 1
    BY <1>1, <1>2, <1>4, ExchangesBounded DEF Exchange, ExchangesLeft
  <2> QED BY <1>1, <2>1
<1>5. CASE page \in {"begin", "data"} /\ Exchange("end", file, 0)
  <2>1. ExchangesLeft' = 1 /\ ExchangesLeft >= 2
    BY <1>3, <1>5 DEF Exchange, ExchangesLeft
  <2> QED BY <1>1, <2>1
<1>6. CASE page \in {"begin", "data"} /\ NextOffset < Size[file]
           /\ Exchange("data", file, NextOffset)
  <2>1. ExchangesLeft' = Size[file] - NextOffset + 1
    BY <1>6 DEF Exchange, ExchangesLeft
  <2>2. CASE page = "begin"
    <3>1. NextOffset = 0 /\ ExchangesLeft = Size[file] + 2
      BY <2>2 DEF NextOffset, ExchangesLeft
    <3> HIDE DEF NextOffset, ExchangesLeft
    <3> QED BY <1>3, <2>1, <2>2, <3>1
  <2>3. CASE page = "data"
    <3>1. Chunk(file, offset) \in Nat /\ Chunk(file, offset) >= 1
      BY <1>3, <2>3, Sizes DEF Chunk
    <3>2. NextOffset = offset + Chunk(file, offset)
          /\ ExchangesLeft = Size[file] - offset + 1
      BY <2>3 DEF NextOffset, ExchangesLeft
    <3> HIDE DEF NextOffset, ExchangesLeft, Chunk
    <3> QED BY <1>3, <1>6, <2>1, <2>3, <3>1, <3>2
  <2> QED BY <1>6, <2>2, <2>3
<1> QED
  BY <1>2, <1>4, <1>5, <1>6 DEF AnswerArrives, Resting, Command

\* Each step of a page or of the device is a step forward.
LEMMA UploadForward ==
  ASSUME LinkInv, InStep, LinkNext, Awaiting, ~torn', page' \notin Resting,
         Len(wire)' \in 0..(RequestSize + MaxPayload)
  PROVE  UploadSteps' < UploadSteps
<1> DEFINE p == ExchangeSteps
<1>1. p \in Nat /\ p = RequestSize + MaxPayload + 2 /\ p' = p
  BY Sizes DEF ExchangeSteps
<1>2. page \in Command /\ page \notin Resting
  BY DEF Awaiting, Command, Resting
<1>3. PICK n \in Nat : n = ExchangesLeft
  BY <1>2, ExchangesBounded, Sizes
<1>4. n * p \in Nat
  BY <1>1
<1>5. Len(wire) \in Nat /\ wire \in Seq(Piece)
  BY LenProperties DEF LinkInv, LinkTypeOK
<1>6. CASE ReadRequest \/ ReadData
  <2>1. PICK k \in 1..Len(wire) : wire' = Drop(k)
    <3>1. /\ ReadRequest => RequestSize - used \in Nat \ {0}
          /\ ReadData => expected - dataUsed \in Nat \ {0}
      BY Sizes DEF LinkInv, LinkTypeOK, ReadRequest, ReadData, Whole
    <3> QED BY <1>5, <1>6, <3>1, ReadsFromFront DEF ReadRequest, ReadData
  <2>2. Len(wire') = Len(wire) - k
    BY <1>5, <2>1, Dropping
  <2>3. UNCHANGED <<browser, packet>>
    BY <1>6 DEF ReadRequest, ReadData
  <2>4. packet = None
    <3>1. Len(wire) # 0
      BY <1>5, <2>1
    <3> QED BY <1>2, <3>1, EmptySeq DEF InStep, Quiet
  <2>5. UploadSteps = n * p + (1 + Len(wire))
    BY <1>3, <2>4 DEF UploadSteps
  <2>6. UploadSteps' = n * p + (1 + Len(wire'))
    BY <1>1, <1>3, <2>3, <2>4 DEF UploadSteps, ExchangesLeft, browser
  <2> HIDE DEF p
  <2> QED BY <1>4, <1>5, <2>1, <2>2, <2>5, <2>6
<1>7. CASE ProcessRequest
  <2>1. packet = None /\ UNCHANGED browser
    BY <1>7, ProcessedIsPages DEF ProcessRequest
  <2>2. packet' # None
    <3>1. request \in Sent \cup {None}
      BY DEF LinkInv
    <3>2. request # None => request.command \in Answer
      BY <3>1 DEF Sent, Frame, Answer
    <3> QED BY <1>7, <2>1, <3>2, LinkAssumption DEF ProcessRequest, SendResponse, Answer
  <2>3. UploadSteps = n * p + (1 + Len(wire))
    BY <1>3, <2>1 DEF UploadSteps
  <2>4. UploadSteps' = n * p
    <3>1. UploadSteps' = n * p + 0
      BY <1>1, <1>3, <2>1, <2>2 DEF UploadSteps, ExchangesLeft, browser
    <3> HIDE DEF p
    <3> QED BY <1>4, <3>1
  <2> HIDE DEF p
  <2> QED BY <1>4, <1>5, <2>3, <2>4
<1>8. CASE AnswerArrives
  <2>1. packet # None /\ packet' = None
    BY <1>2, <1>8, LinkAssumption DEF AnswerArrives, TakePacket, InStep
  <2>2. PICK m \in Nat : m = ExchangesLeft' /\ m < n
    BY <1>3, <1>8, NextExchange
  <2>4. UploadSteps = n * p
    <3>1. UploadSteps = n * p + 0
      BY <1>3, <2>1 DEF UploadSteps
    <3> HIDE DEF p
    <3> QED BY <1>4, <3>1
  <2>5. UploadSteps' = m * p + (1 + Len(wire)')
    BY <1>1, <2>1, <2>2 DEF UploadSteps
  <2> HIDE DEF p
  <2>6. m * p \in Nat /\ m * p + p <= n * p
    BY <1>1, <2>2, FewerExchanges
  <2> QED BY <1>1, <1>4, <2>4, <2>5, <2>6, Sizes
<1>9. ~RequestTooLarge
  BY NeverTooLarge
<1>10. ~(Connect \/ Upgrade \/ SaveConfiguration)
  BY <1>2 DEF Connect, Upgrade, SaveConfiguration, Resting
<1>11. ~(ClosePage \/ Reconnect \/ DeviceReset)
  BY DEF ClosePage, Reconnect, DeviceReset, Closed, Resting
<1> QED BY <1>6, <1>7, <1>8, <1>9, <1>10, <1>11 DEF LinkNext, Task

\* ota_webusb_task, upgrade: while a page waits, the parser never waits for bytes
\* that the page does not send, and no more than a bounded number of steps
\* separates the page from its last answer: an error does not make it go round.
THEOREM UploadProgress ==
  LinkSpec => /\ [](Awaiting => Served /\ UploadSteps \in 0..((Capacity + 3) * ExchangeSteps))
              /\ [][Awaiting => UploadSteps' < UploadSteps \/ page' \in Resting \/ torn']_linkVars
<1> DEFINE Bounded == Awaiting => Len(wire) \in 0..(RequestSize + MaxPayload)
<1>1. LinkInv /\ StepInv =>
        /\ Bounded
        /\ Awaiting => Served /\ UploadSteps \in 0..((Capacity + 3) * ExchangeSteps)
  BY ExchangeBounded, UploadBounded DEF Awaiting, StepInv
<1>2. LinkInv /\ LinkInv' /\ StepInv /\ Bounded' /\ [LinkNext]_linkVars =>
        [Awaiting => UploadSteps' < UploadSteps \/ page' \in Resting \/ torn']_linkVars
  <2> SUFFICES ASSUME LinkInv, LinkInv', StepInv, Bounded', LinkNext, Awaiting, ~torn',
                      page' \notin Resting
               PROVE  UploadSteps' < UploadSteps
    OBVIOUS
  <2>1. Awaiting'
    BY DEF LinkInv, LinkTypeOK, Awaiting
  <2> QED BY <2>1, UploadForward DEF Awaiting, StepInv
<1> QED BY <1>1, <1>2, LinkInvariant, StepInvariant, PTL DEF LinkSpec

\* Under the byte stream, with pages closed at any moment, the session stages,
\* commits and clears packages as StagingSlot says.
THEOREM SlotUnderLink ==
  LinkSpec => ImplementsSlot /\ []CommittedIsInstallable /\ []RebootHasPackage
BY SessionRefinement, SlotRefinement, CommitSafety, RebootSafety, PTL
=============================================================================
