---------------------------- MODULE ModbusFraming ----------------------------
(***************************************************************************)
(* One direction of a Modbus/TCP connection, byte by byte: SendData writes *)
(* a message to the socket, TCP cuts what is waiting into segments, and    *)
(* ReceiveModbusMessage (model/industrial-device.cc) takes apart whatever  *)
(* one read returns, keeping nothing for the next read.                    *)
(*                                                                         *)
(* A byte is its offset in the stream; message i ends at offset ends[i].   *)
(***************************************************************************)
EXTENDS Integers, Sequences

CONSTANTS
  HeaderLength,  \* bytes of the Modbus header (7)
  PduLengths,    \* the lengths of the PDUs that are sent, function code included
  SegmentSize,   \* the largest TCP segment (536)
  Backlog,       \* how many bytes may wait to be cut into segments
  MaxMessages    \* bound on the number of messages

ASSUME LengthAssumption ==
  /\ HeaderLength \in Nat \ {0} /\ PduLengths \subseteq Nat \ {0}
  /\ SegmentSize \in Nat \ {0} /\ Backlog \in Nat

VARIABLES
  ends,         \* where each message written so far ends
  transmitted,  \* how much of the stream has been cut into segments
  cuts,         \* where the segments end
  read,         \* how much of the stream the receiver has read
  delivered     \* the messages handed to the receive callback, 0 for a garbled one

vars == <<ends, transmitted, cuts, read, delivered>>

OffsetsOK ==
  /\ ends \in Seq(Nat)
  /\ transmitted \in Nat /\ read \in Nat
  /\ cuts \subseteq Nat

Init ==
  /\ ends = <<>>
  /\ transmitted = 0
  /\ cuts = {}
  /\ read = 0
  /\ delivered = <<>>

\* The first byte after message i.
End(i) == IF i = 0 THEN 0 ELSE ends[i]
Written == End(Len(ends))

-----------------------------------------------------------------------------

\* SendData: the whole message is appended to the transmit buffer.
SendData(p) ==
  /\ Len(ends) < MaxMessages
  /\ Written - transmitted + HeaderLength + p <= Backlog
  /\ ends' = Append(ends, Written + HeaderLength + p)
  /\ UNCHANGED <<transmitted, cuts, read, delivered>>

\* TCP sends what is waiting, at most one segment's worth (Nagle's algorithm
\* is off).
Transmit ==
  /\ transmitted < Written
  /\ transmitted' = IF Written - transmitted < SegmentSize THEN Written
                    ELSE transmitted + SegmentSize
  /\ cuts' = cuts \cup {transmitted'}
  /\ UNCHANGED <<ends, read, delivered>>

\* The last message that ends at or before an offset of the stream.
Whole(to) ==
  CHOOSE i \in 0 .. Len(ends) :
    End(i) <= to /\ \A j \in 0 .. Len(ends) : End(j) <= to => j <= i

\* The loop over the buffer, when the buffer starts with a header: every whole
\* message is handed on in turn, and what is left of the last one is dropped.
\* (Mutant: the messages that follow the first one are dropped too.)
FirstOf(from, to) == IF Whole(from) < Whole(to) THEN <<Whole(from) + 1>> ELSE <<>>
Extract(from, to) == [k \in 1 .. Whole(to) - Whole(from) |-> Whole(from) + k]

\* ReceiveModbusMessage: everything that has arrived by the segment that ends at
\* c is read at once.  If the buffer starts inside a message, its first bytes
\* are taken for a header and anything may come of it.
ReceiveModbusMessage(c) ==
  /\ c \in cuts
  /\ read < c
  /\ read' = c
  /\ IF \E i \in 0 .. Len(ends) : read = End(i)
     THEN delivered' = delivered \o Extract(read, c)
     ELSE delivered' \in {delivered, Append(delivered, 0)}
  /\ UNCHANGED <<ends, transmitted, cuts>>

Next ==
  \/ \E p \in PduLengths : SendData(p)
  \/ Transmit
  \/ \E c \in cuts : ReceiveModbusMessage(c)

Spec == Init /\ [][Next]_vars

-----------------------------------------------------------------------------
(* Properties *)

Boundary(x) == \E i \in 0 .. Len(ends) : x = End(i)
WholeSegments == \A c \in cuts : Boundary(c)

\* The receiver's callback sees the messages that were sent, each one once and
\* in order, up to the last one that has been read completely: none is lost,
\* duplicated or garbled.
StreamIsMessages ==
  /\ \A i \in 1 .. Len(delivered) : delivered[i] = i
  /\ Len(delivered) <= Len(ends)
  /\ \A i \in 1 .. Len(ends) : End(i) <= read => i <= Len(delivered)

\* However TCP combines the messages ("Handle multiple messages combined as one"),
\* they arrive as they were sent as long as no segment ends inside a message.
CutsAreTheOnlyLoss == WholeSegments => StreamIsMessages

-----------------------------------------------------------------------------
(* Why it holds: the inductive invariant *)

FramingInv ==
  /\ OffsetsOK
  /\ \A i, j \in 0 .. Len(ends) : i < j => End(i) < End(j)
  /\ transmitted <= Written /\ \A c \in cuts : c <= transmitted
  /\ WholeSegments =>
       /\ delivered \in Seq(Nat)
       /\ read = End(Len(delivered)) /\ Len(delivered) <= Len(ends)
       /\ \A i \in 1 .. Len(delivered) : delivered[i] = i

\* While what waits to be sent fits a segment, every segment is whole.
SmallBacklogInv == WholeSegments /\ Written - transmitted <= Backlog
=============================================================================
