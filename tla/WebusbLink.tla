----------------------------- MODULE WebusbLink -----------------------------
(***************************************************************************)
(* The byte stream under the WebUSB requests: ota_webusb_task, which puts  *)
(* requests together (components/ota/src/ota_webusb.c), the endpoint's     *)
(* buffers, and the pages of the browser tool (apps/keyboard/web/app.js),  *)
(* which may be closed in the middle of an exchange.  The requests         *)
(* themselves are OtaWebusb's.                                             *)
(*                                                                         *)
(* Bytes are counted in pieces: a request has RequestSize of them, then one*)
(* for each unit of payload.  A page sends a request in one packet, so what*)
(* is put together from pieces of different frames begins in the middle of *)
(* one: it is taken to have a bad magic, any command byte and any payload  *)
(* size.  TinyUSB is external: what arrives waits in order, and the first  *)
(* 16 bytes of an IN packet are all a page looks at, so an answer behind   *)
(* another one in the same packet is lost.                                 *)
(***************************************************************************)
EXTENDS OtaWebusb, Sequences

CONSTANTS
  RequestSize,  \* OTA_WEBUSB_REQUEST_SIZE, in pieces
  ConfigSize,   \* payload of SET_CONFIG, in pieces
  FifoSize      \* CFG_TUD_VENDOR_RX_BUFSIZE, in pieces

Command == {"begin", "data", "end", "abort", "get", "set"}

Frame == [command : Command, argument : Nat, size : 0..MaxPayload,
          file : Image \cup {None}]
Answer == Command \cup {"error"}   \* the command, if the status is OK

ASSUME LinkAssumption ==
  /\ RequestSize \in Nat \ {0}
  /\ ConfigSize \in 1..MaxPayload
  /\ FifoSize \in Nat
  /\ RequestSize + MaxPayload <= FifoSize
  /\ None \notin Frame
  /\ None \notin Answer

VARIABLES
  wire,      \* pieces that a page has sent and the device has not read
  request,   \* context.request: the frame its pieces come from, or None if
             \* they are not the first ones of one frame
  used,      \* context.request_used
  dataUsed,  \* context.data_used
  foreign,   \* context.data has pieces of another frame
  expected,  \* context.data_expected
  packet,    \* answer in the IN endpoint
  queued,    \* first answer in the FIFO behind it
  page,      \* the page: "closed", "idle", "done", or the command it awaits
  file,      \* the package it uploads, or None
  offset,    \* upload: the loop's offset
  torn       \* history: an exchange was cut off, and some of it may be left

buffers == <<wire, packet, queued>>
parser == <<request, used, dataUsed, foreign, expected>>
browser == <<page, file, offset>>
linkVars == <<vars, buffers, parser, browser, torn>>

Resting == {"closed", "idle", "done"}

Piece == [frame : Frame, at : 1..(RequestSize + MaxPayload)]

LinkTypeOK ==
  /\ TypeOK
  /\ wire \in Seq(Piece)
  /\ request \in Frame \cup {None}
  /\ used \in 0..RequestSize
  /\ expected \in 0..MaxPayload
  /\ dataUsed \in 0..expected
  /\ foreign \in BOOLEAN
  /\ packet \in Answer \cup {None}
  /\ queued \in Answer \cup {None}
  /\ page \in Command \cup Resting
  /\ file \in Image \cup {None}
  /\ offset \in 0..Capacity
  /\ torn \in BOOLEAN

LinkInit ==
  /\ Init
  /\ wire = <<>> /\ packet = None /\ queued = None
  /\ request = None /\ used = 0 /\ dataUsed = 0 /\ foreign = FALSE /\ expected = 0
  /\ page = "closed" /\ file = None /\ offset = 0
  /\ torn = FALSE

-----------------------------------------------------------------------------
(***************************************************************************)
(* The page: exchange sends a frame and waits for one answer.              *)
(***************************************************************************)
\* CHUNK_SIZE, or what is left of the file.
Chunk(v, o) == IF Size[v] - o < MaxPayload THEN Size[v] - o ELSE MaxPayload

FrameOf(c, v, o) ==
  [command |-> c,
   argument |-> CASE c = "begin" -> Size[v] [] c = "data" -> o [] OTHER -> 0,
   size |-> CASE c = "data" -> Chunk(v, o) [] c = "set" -> ConfigSize [] OTHER -> 0,
   file |-> IF c = "data" THEN v ELSE None]

Pieces(f) == [k \in 1..(RequestSize + f.size) |-> [frame |-> f, at |-> k]]

\* transferOut ends when the device has taken the frame.
Exchange(c, v, o) ==
  /\ wire' = wire \o Pieces(FrameOf(c, v, o))
  /\ Len(wire') <= FifoSize
  /\ page' = c /\ file' = v /\ offset' = o

\* Nothing of an earlier exchange is left, so one that was cut off is over.
Clean == wire = <<>> /\ used = 0 /\ packet = None /\ queued = None
Settle == torn' = (torn /\ ~Clean)

\* connect and loadConfiguration.
Connect ==
  /\ page = "closed"
  /\ Exchange("get", None, 0)
  /\ Settle
  /\ UNCHANGED <<vars, parser, packet, queued>>

\* The buttons.  The configuration form is taken to be enabled at all times.
Upgrade ==
  /\ page \in {"idle", "done"}
  /\ \E v \in Image : Exchange("begin", v, 0)
  /\ Settle
  /\ UNCHANGED <<vars, parser, packet, queued>>

SaveConfiguration ==
  /\ page \in {"idle", "done"}
  /\ Exchange("set", None, 0)
  /\ Settle
  /\ UNCHANGED <<vars, parser, packet, queued>>

\* An IN transfer hands over the packet, and the FIFO's content follows.
TakePacket == packet' = queued /\ queued' = None

AnyStatus == packet \in {page, "error"}   \* mutant: the answer's status is ignored
Success == packet = page

\* Where the loop of upgrade goes on after BEGIN or DATA.
NextOffset == IF page = "data" THEN offset + Chunk(file, offset) ELSE 0

AnswerArrives ==
  /\ page \in Command /\ packet # None
  /\ TakePacket
  /\ \/ /\ page \in {"begin", "data"} /\ Success
        /\ IF NextOffset < Size[file] THEN Exchange("data", file, NextOffset)
                                      ELSE Exchange("end", file, 0)
     \/ /\ page = "end" /\ Success
        /\ page' = "done" /\ UNCHANGED <<wire, file, offset>>
     \/ /\ page \in {"begin", "data", "end"} /\ ~Success
        /\ Exchange("abort", None, 0)
     \/ /\ page \in {"get", "set", "abort"}
        /\ page' = "idle" /\ UNCHANGED <<wire, file, offset>>
  /\ UNCHANGED <<vars, parser, torn>>

Closed == page' = "closed" /\ file' = None /\ offset' = 0

\* A packet may end after n pieces: not in the middle of a request.
PacketEnd(n) == n < Len(wire) => wire[n + 1].at \notin 2..RequestSize

\* The pieces after the n-th are of the last frame.
CutsLast(n) == \A k \in (n + 2)..Len(wire) : wire[k].at # 1

\* The page is closed or loaded again, perhaps before all of its frame is sent.
ClosePage ==
  /\ page # "closed"
  /\ Closed
  /\ \/ wire' = wire
     \/ page \in Command
        /\ \E n \in 0..Len(wire) :
             PacketEnd(n) /\ CutsLast(n) /\ wire' = SubSeq(wire, 1, n)
  /\ torn' = (torn \/ page \in Command)
  /\ UNCHANGED <<vars, parser, packet, queued>>

-----------------------------------------------------------------------------
(***************************************************************************)
(* ota_webusb_task: one turn takes what has arrived of what it waits for.  *)
(***************************************************************************)
Whole == used = RequestSize
Ready == Whole /\ dataUsed = expected

\* tud_vendor_read of at most remaining pieces.
Read(remaining) ==
  {IF n < remaining THEN n ELSE remaining : n \in {k \in 1..Len(wire) : PacketEnd(k)}}

\* The next n pieces are those of frame f after its piece number at.
Continues(f, at, n) ==
  \A k \in 1..n : wire[k].frame = f /\ wire[k].at = at + k

\* What the request buffer holds with the next n pieces.
Extended(n) ==
  LET f == IF used = 0 THEN Head(wire).frame ELSE request
  IN IF Continues(f, used, n) THEN f ELSE None

Drop(n) == SubSeq(wire, n + 1, Len(wire))

PayloadSize(r) == IF r = None THEN 0..MaxPayload ELSE {r.size}

ReadRequest ==
  /\ ~Whole
  /\ \E n \in Read(RequestSize - used) :
       /\ request' = Extended(n)
       /\ used' = used + n
       /\ wire' = Drop(n)
  /\ IF used' = RequestSize THEN expected' \in PayloadSize(request')
                             ELSE UNCHANGED expected
  /\ UNCHANGED <<vars, dataUsed, foreign, packet, queued, browser, torn>>

ReadData ==
  /\ Whole /\ dataUsed < expected
  /\ \E n \in Read(expected - dataUsed) :
       /\ dataUsed' = dataUsed + n
       /\ foreign' = (foreign \/ ~Continues(request, RequestSize + dataUsed, n))
       /\ wire' = Drop(n)
  /\ UNCHANGED <<vars, request, used, expected, packet, queued, browser, torn>>

KeepData ==   \* mutant: data_used and data_expected stay
  request' = None /\ used' = 0 /\ UNCHANGED <<dataUsed, foreign, expected>>
ResetParser ==
  /\ request' = None /\ used' = 0
  /\ dataUsed' = 0 /\ foreign' = FALSE /\ expected' = 0

\* send_response: tud_vendor_write and its flush.
SendResponse(answer) ==
  IF packet = None THEN packet' = answer /\ UNCHANGED queued
  ELSE UNCHANGED packet /\ queued' = IF queued = None THEN answer ELSE queued

\* A payload size beyond the buffer: what has arrived is thrown away.
RequestTooLarge ==
  /\ ~Whole
  /\ \E n \in 1..Len(wire) :
       /\ PacketEnd(n) /\ used + n >= RequestSize
       /\ Extended(RequestSize - used) = None
       /\ wire' = Drop(n)
  /\ SendResponse("error")
  /\ ResetParser
  /\ UNCHANGED <<vars, browser, torn>>

(***************************************************************************)
(* process_request                                                         *)
(***************************************************************************)
\* What write_data programs: the units of the file, if they are all there.
Payload == IF foreign THEN Junk ELSE request.file

DataRefused ==
  \/ ~receiving \/ expected = 0 \/ request.argument # received
  \/ ~DataAccepted(expected)

\* A handler, and whether it returns OTA_WEBUSB_STATUS_OK.
Handler(good) ==
  \/ /\ request.command = "begin"
     /\ IF good THEN BeginUpdate(request.argument) ELSE BeginFails
  \/ /\ request.command = "data" /\ ~DataRefused
     /\ IF good THEN WriteData(expected, Payload) ELSE DataFails(expected, Payload)
  \/ /\ request.command = "end" /\ EndAccepted
     /\ IF good THEN FinishUpdate ELSE EndFails
  \/ /\ request.command = "abort" /\ Abort
     /\ IF good THEN ClearMeta ELSE "clear" \in Faults
  \/ /\ \/ request.command = "data" /\ DataRefused /\ ~good
        \/ request.command = "end" /\ ~EndAccepted /\ ~good
        \/ request.command = "get" /\ good
        \/ request.command = "set"   \* stage_web_config: see AppUpdate
     /\ UNCHANGED vars

ProcessRequest ==
  /\ Ready
  /\ \/ request # None /\ Handler(TRUE) /\ SendResponse(request.command)
     \/ request # None /\ Handler(FALSE) /\ SendResponse("error")
     \/ request = None /\ SendResponse("error") /\ UNCHANGED vars
  /\ ResetParser
  /\ UNCHANGED <<wire, browser, torn>>

-----------------------------------------------------------------------------
\* A bus reset: apply_pending_web_config and the check of the volume disconnect
\* and connect.  TinyUSB clears its buffers, nothing clears the parser.
Reconnect ==
  /\ ~Ready
  /\ wire' = <<>> /\ packet' = None /\ queued' = None
  /\ Closed
  /\ torn' = (used > 0)
  /\ UNCHANGED <<vars, parser>>

\* The device is reset, by the program or by a power loss.
DeviceReset ==
  /\ Reboot \/ PowerLoss
  /\ wire' = <<>> /\ packet' = None /\ queued' = None
  /\ ResetParser
  /\ Closed
  /\ torn' = FALSE

Task == ReadRequest \/ ReadData \/ RequestTooLarge \/ ProcessRequest

LinkNext ==
  \/ Connect \/ Upgrade \/ SaveConfiguration \/ AnswerArrives \/ ClosePage
  \/ Task \/ Reconnect \/ DeviceReset

\* The main loop goes on, and a page reads its answer.
LinkFairness == WF_linkVars(Task) /\ WF_linkVars(AnswerArrives)

LinkSpec == LinkInit /\ [][LinkNext]_linkVars /\ LinkFairness

-----------------------------------------------------------------------------
(***************************************************************************)
(* Properties.                                                             *)
(***************************************************************************)

\* A page that reports success has its package in the staging area, unless
\* something of an exchange that was cut off is left: then the answer to an older
\* END may pass for the one to this page's.
SuccessIsCommitted ==
  page = "done" /\ ~torn => meta = Size[file] /\ Stored(file, meta)

\* README, "WebUSB update": "Every request returns a 16-byte "ROTA" response
\* containing command, ...".  As long as nothing of an exchange that was cut off
\* is left, the answer that waits is the one to the page's request.
AnswersMatch == ~torn /\ packet # None => packet \in {page, "error"}

\* And then every upload comes to an end: the parser never waits for bytes that
\* the page does not send.
UploadEnds == page \in Command /\ ~torn ~> page \in Resting \/ torn
-----------------------------------------------------------------------------
(***************************************************************************)
(* The inductive invariants behind these (WebusbLink_proofs).              *)
(***************************************************************************)

\* What pages send, and what they work on.
Sent == {f \in Frame :
           /\ f.command = "begin" => f.argument \in HeaderSize..Capacity
           /\ f.command = "data" => f.file \in Image}

Browsing ==
  /\ page \in {"begin", "data", "end", "done"} => file \in Image
  /\ page = "data" => offset < Size[file]

LinkInv ==
  /\ LinkTypeOK
  /\ \A k \in 1..Len(wire) : wire[k].frame \in Sent
  /\ request \in Sent \cup {None}
  /\ used < RequestSize => dataUsed = 0 /\ expected = 0 /\ ~foreign
  /\ used = 0 => request = None
  /\ Browsing

\* On the wire is what follows the first n pieces of f.
Follows(f, n) ==
  /\ Len(wire) = RequestSize + f.size - n
  /\ \A k \in 1..Len(wire) : wire[k] = [frame |-> f, at |-> n + k]

\* As long as nothing of a cut-off exchange is left, the request and the answer
\* are each in one place.
Unread(f) == used = 0 /\ Follows(f, 0)
HalfRead(f) ==
  /\ used = RequestSize /\ request = f /\ expected = f.size /\ ~foreign
  /\ Follows(f, RequestSize + dataUsed)

Quiet == wire = <<>> /\ used = 0

InStep ==
  /\ queued = None
  /\ page \in Resting => Quiet /\ packet = None
  /\ page \in Command =>
       \/ Quiet /\ packet \in {page, "error"}
       \/ /\ packet = None
          /\ \/ Unread(FrameOf(page, file, offset))
             \/ HalfRead(FrameOf(page, file, offset))

\* The session holds the first n units of the page's file.
Holds(n) ==
  /\ receiving /\ ~clearFailed
  /\ total = Size[file] /\ received = n
  /\ \A i \in Units(0, n) : sent[i] = file

UploadInv ==
  /\ page = "begin" /\ packet = "begin" => Holds(0)
  /\ page = "data" /\ packet = None => Holds(offset)
  /\ page = "data" /\ packet = "data" => Holds(offset + Chunk(file, offset))
  /\ page = "end" /\ packet = None => Holds(Size[file])
  /\ page = "end" /\ packet = "end" => meta = Size[file] /\ Stored(file, meta)
  /\ SuccessIsCommitted

StepInv == ~torn => InStep /\ UploadInv
=============================================================================
