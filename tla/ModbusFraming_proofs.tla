------------------------ MODULE ModbusFraming_proofs -------------------------
(* Proofs about ModbusFraming, for all message and segment lengths. *)
EXTENDS ModbusFraming, TLAPS

\* The offsets between messages are natural numbers.
LEMMA EndType ==
  ASSUME OffsetsOK
  PROVE  \A i \in 0 .. Len(ends) : End(i) \in Nat
BY DEF OffsetsOK, End

\* The last message that ends by the end of message n is message n.
LEMMA WholeEnd ==
  ASSUME FramingInv, NEW n \in 0 .. Len(ends)
  PROVE  Whole(End(n)) = n
<1>1. Len(ends) \in Nat
  BY DEF FramingInv, OffsetsOK
<1>2. \A i \in 0 .. Len(ends) : End(i) \in Nat
  BY EndType DEF FramingInv
<1>3. \A i, j \in 0 .. Len(ends) : i < j => End(i) < End(j)
  BY DEF FramingInv
<1>4. \A i \in 0 .. Len(ends) : End(i) <= End(n) => i <= n
  BY <1>1, <1>2, <1>3
<1> DEFINE Last(i) == /\ End(i) <= End(n)
                      /\ \A j \in 0 .. Len(ends) : End(j) <= End(n) => j <= i
<1>5. Last(n)
  BY <1>2, <1>4
<1>6. \A i \in 0 .. Len(ends) : Last(i) => i = n
  BY <1>1, <1>2, <1>4
<1> HIDE DEF Last
<1>7. (CHOOSE i \in 0 .. Len(ends) : Last(i)) = n
  BY <1>5, <1>6
<1>. QED
  BY <1>7 DEF Whole, Last

\* While a segment never fills up, Transmit cuts where the last message ends.
LEMMA WholeSegment ==
  ASSUME Backlog <= SegmentSize, FramingInv, SmallBacklogInv, Transmit
  PROVE  transmitted' = Written
<1>1. Written \in Nat /\ transmitted \in Nat
  BY EndType DEF FramingInv, OffsetsOK, Written
<1>2. Written - transmitted <= SegmentSize
  BY <1>1, LengthAssumption DEF SmallBacklogInv
<1>. QED
  BY <1>1, <1>2, LengthAssumption DEF Transmit

-----------------------------------------------------------------------------

LEMMA FramingInitInv == Init => FramingInv /\ SmallBacklogInv
BY LengthAssumption
   DEF Init, FramingInv, SmallBacklogInv, OffsetsOK, WholeSegments, Boundary, Written, End

LEMMA SendDataInv ==
  ASSUME FramingInv, NEW p \in PduLengths, SendData(p)
  PROVE  FramingInv'
<1> DEFINE e == Written + HeaderLength + p
<1>0. PICK n \in Nat : n = Len(ends)
  BY DEF FramingInv, OffsetsOK
<1>1. /\ n \in Nat /\ \A i \in 0 .. n : End(i) \in Nat
      /\ p \in Nat \ {0} /\ HeaderLength \in Nat \ {0}
      /\ Written \in Nat /\ transmitted \in Nat
  BY <1>0, EndType, LengthAssumption DEF FramingInv, OffsetsOK, Written
<1>2. ends \in Seq(Nat) /\ e \in Nat /\ ends' = Append(ends, e)
  BY <1>0, <1>1 DEF FramingInv, OffsetsOK, SendData
<1>3. /\ ends' \in Seq(Nat) /\ Len(ends') = n + 1 /\ ends'[n + 1] = e
      /\ \A i \in 1 .. n : ends'[i] = ends[i]
  BY <1>0, <1>2
<1>4. \A i \in 0 .. n : End(i)' = End(i)
  BY <1>0, <1>1, <1>3 DEF End
<1>5. End(n + 1)' = e /\ Written' = e
  <2>1. End(n + 1)' = e
    BY <1>0, <1>1, <1>3 DEF End
  <2>2. Written' = e
    BY <1>0, <1>1, <1>3 DEF End, Written
  <2>. QED
    BY <2>1, <2>2
<1>6. UNCHANGED <<transmitted, cuts, read, delivered>> /\ e - transmitted <= Backlog
  BY <1>1 DEF SendData
<1>7. OffsetsOK'
  BY <1>3, <1>6 DEF FramingInv, OffsetsOK
<1>8. \A i, j \in 0 .. n + 1 : i < j => End(i)' < End(j)'
  <2> SUFFICES ASSUME NEW i \in 0 .. n + 1, NEW j \in 0 .. n + 1, i < j
               PROVE  End(i)' < End(j)'
    OBVIOUS
  <2>1. i \in 0 .. n
    BY <1>1
  <2>2. CASE j = n + 1
    <3>1. i < n => End(i) < End(n)
      BY <1>0, <1>1, <2>1 DEF FramingInv
    <3>2. End(i) <= Written
      BY <1>0, <1>1, <2>1, <3>1 DEF Written
    <3>. QED
      BY <1>1, <1>4, <1>5, <2>1, <2>2, <3>2
  <2>3. CASE j \in 0 .. n
    <3>1. End(i) < End(j)
      BY <1>0, <2>1, <2>3 DEF FramingInv
    <3>. QED
      BY <1>4, <2>1, <2>3, <3>1
  <2>. QED
    BY <1>1, <2>2, <2>3
<1>9. \A x \in Nat : x <= transmitted => (Boundary(x)' <=> Boundary(x))
  <2> SUFFICES ASSUME NEW x \in Nat, x <= transmitted
               PROVE  Boundary(x)' <=> Boundary(x)
    OBVIOUS
  <2>1. x # End(n + 1)'
    BY <1>1, <1>5 DEF FramingInv
  <2>. QED
    BY <1>0, <1>1, <1>3, <1>4, <2>1, SMTT(30) DEF Boundary
<1>10. WholeSegments' => WholeSegments
  BY <1>6, <1>9 DEF WholeSegments, FramingInv, OffsetsOK
<1>11. ASSUME WholeSegments
       PROVE  /\ delivered' \in Seq(Nat)
              /\ read' = End(Len(delivered))' /\ Len(delivered') <= Len(ends')
              /\ \A i \in 1 .. Len(delivered') : delivered'[i] = i
  <2>1. Len(delivered) \in 0 .. n /\ read = End(Len(delivered))
    BY <1>0, <1>1, <1>11 DEF FramingInv, OffsetsOK
  <2>. QED
    BY <1>0, <1>1, <1>3, <1>4, <1>6, <1>11, <2>1 DEF FramingInv
<1>12. transmitted' <= Written' /\ \A c \in cuts' : c <= transmitted'
  BY <1>1, <1>5, <1>6 DEF FramingInv
<1>. QED
  BY <1>3, <1>7, <1>8, <1>10, <1>11, <1>12 DEF FramingInv

LEMMA TransmitInv ==
  ASSUME FramingInv, Transmit
  PROVE  FramingInv'
<1>1. /\ Written \in Nat /\ Len(ends) \in Nat /\ SegmentSize \in Nat \ {0}
      /\ transmitted \in Nat
  BY EndType, LengthAssumption DEF FramingInv, OffsetsOK, Written
<1>2. /\ transmitted' \in Nat /\ transmitted < transmitted' /\ transmitted' <= Written
      /\ cuts' = cuts \cup {transmitted'}
  BY <1>1 DEF Transmit
<1>3. UNCHANGED <<ends, read, delivered>>
  BY DEF Transmit
<1>4. (\A i : End(i)' = End(i)) /\ Written' = Written
  BY <1>3 DEF End, Written
<1>5. WholeSegments' => WholeSegments
  BY <1>2, <1>3, <1>4 DEF WholeSegments, Boundary
<1>6. OffsetsOK'
  BY <1>2, <1>3 DEF FramingInv, OffsetsOK
<1>7. \A c \in cuts' : c <= transmitted'
  BY <1>1, <1>2 DEF FramingInv, OffsetsOK
<1>8. WholeSegments' => /\ delivered' \in Seq(Nat)
                        /\ read' = End(Len(delivered))' /\ Len(delivered') <= Len(ends')
                        /\ \A i \in 1 .. Len(delivered') : delivered'[i] = i
  BY <1>3, <1>4, <1>5 DEF FramingInv
<1>. QED
  BY <1>2, <1>3, <1>4, <1>6, <1>7, <1>8 DEF FramingInv

LEMMA ReceiveWhole ==
  ASSUME FramingInv, WholeSegments, NEW c \in cuts, ReceiveModbusMessage(c)
  PROVE  /\ delivered' \in Seq(Nat) /\ Len(delivered') <= Len(ends)
         /\ c = End(Len(delivered'))
         /\ \A i \in 1 .. Len(delivered') : delivered'[i] = i
<1>. DEFINE n == Len(delivered)
<1>1. /\ n \in Nat /\ Len(ends) \in Nat /\ n <= Len(ends)
      /\ delivered \in Seq(Nat) /\ \A i \in 0 .. Len(ends) : End(i) \in Nat
  BY EndType DEF FramingInv, OffsetsOK
<1>2. PICK m \in 0 .. Len(ends) : c = End(m)
  BY DEF WholeSegments, Boundary
<1>3. read = End(n) /\ n \in 0 .. Len(ends)
  BY <1>1 DEF FramingInv
<1>4. n < m
  <2>1. m < n => End(m) < End(n)
    BY <1>2, <1>3 DEF FramingInv
  <2>2. End(n) < End(m)
    BY <1>2, <1>3 DEF ReceiveModbusMessage
  <2>. QED
    BY <1>1, <1>2, <1>3, <2>1, <2>2
<1>5. Whole(read) = n /\ Whole(c) = m
  BY <1>2, <1>3, WholeEnd
<1>6. Extract(read, c) = [k \in 1 .. m - n |-> n + k]
  BY <1>5 DEF Extract
<1>7. delivered' = delivered \o [k \in 1 .. m - n |-> n + k]
  BY <1>3, <1>6 DEF ReceiveModbusMessage
<1> DEFINE d == [k \in 1 .. m - n |-> n + k]
<1>8. d \in Seq(Nat) /\ Len(d) = m - n /\ \A k \in 1 .. m - n : d[k] = n + k
  BY <1>1, <1>2, <1>4
<1> HIDE DEF d
<1>9. /\ delivered' \in Seq(Nat) /\ Len(delivered') = m
      /\ \A i \in 1 .. n : delivered'[i] = delivered[i]
      /\ \A i \in n + 1 .. m : delivered'[i] = d[i - n]
  BY <1>1, <1>2, <1>4, <1>7, <1>8 DEF d
<1>10. \A i \in 1 .. m : delivered'[i] = i
  <2>1. \A i \in 1 .. n : delivered'[i] = i
    BY <1>9 DEF FramingInv
  <2>2. \A i \in n + 1 .. m : i - n \in 1 .. m - n /\ d[i - n] = i
    <3> SUFFICES ASSUME NEW i \in n + 1 .. m
                 PROVE  i - n \in 1 .. m - n /\ d[i - n] = i
      OBVIOUS
    <3>1. i - n \in 1 .. m - n
      BY <1>1, <1>2
    <3>2. d[i - n] = n + (i - n)
      BY <1>8, <3>1
    <3>. QED
      BY <1>1, <1>2, <3>1, <3>2
  <2>3. \A i \in 1 .. m : i \in 1 .. n \/ i \in n + 1 .. m
    BY <1>1, <1>2, <1>4
  <2>. QED
    BY <1>9, <2>1, <2>2, <2>3
<1>. QED
  BY <1>2, <1>9, <1>10

LEMMA ReceiveInv ==
  ASSUME FramingInv, NEW c \in cuts, ReceiveModbusMessage(c)
  PROVE  FramingInv'
<1>1. UNCHANGED <<ends, transmitted, cuts>> /\ read' = c
  BY DEF ReceiveModbusMessage
<1>2. \A i : End(i)' = End(i)
  BY <1>1 DEF End
<1>3. Written' = Written /\ (WholeSegments' <=> WholeSegments)
  BY <1>1, <1>2 DEF Written, End, WholeSegments, Boundary
<1>4. OffsetsOK'
  BY <1>1 DEF FramingInv, OffsetsOK
<1>5. ASSUME WholeSegments
      PROVE  /\ delivered' \in Seq(Nat)
             /\ read' = End(Len(delivered))' /\ Len(delivered') <= Len(ends')
             /\ \A i \in 1 .. Len(delivered') : delivered'[i] = i
  <2>1. End(Len(delivered))' = End(Len(delivered'))
    BY <1>1 DEF End
  <2>. QED
    BY <1>1, <1>5, <2>1, ReceiveWhole
<1>. QED
  BY <1>1, <1>2, <1>3, <1>4, <1>5 DEF FramingInv

-----------------------------------------------------------------------------
(* The theorems *)

LEMMA FramingStep == FramingInv /\ [Next]_vars => FramingInv'
<1> SUFFICES ASSUME FramingInv, [Next]_vars PROVE FramingInv'
  OBVIOUS
<1>1. CASE \E p \in PduLengths : SendData(p)
  BY <1>1, SendDataInv
<1>2. CASE Transmit
  BY <1>2, TransmitInv
<1>3. CASE \E c \in cuts : ReceiveModbusMessage(c)
  BY <1>3, ReceiveInv
<1>4. CASE UNCHANGED vars
  BY <1>4 DEF vars, FramingInv, OffsetsOK, WholeSegments, Boundary, Written, End
<1>. QED
  BY <1>1, <1>2, <1>3, <1>4 DEF Next

LEMMA MessagesAreWhole == FramingInv => CutsAreTheOnlyLoss
<1> SUFFICES ASSUME FramingInv, WholeSegments PROVE StreamIsMessages
  BY DEF CutsAreTheOnlyLoss
<1> DEFINE n == Len(delivered)
<1>1. /\ n \in Nat /\ Len(ends) \in Nat /\ n <= Len(ends) /\ read = End(n)
      /\ \A i \in 0 .. Len(ends) : End(i) \in Nat
  BY EndType DEF FramingInv, OffsetsOK
<1>2. \A i \in 1 .. Len(ends) : End(i) <= read => i <= n
  BY <1>1 DEF FramingInv
<1>. QED
  BY <1>1, <1>2 DEF FramingInv, StreamIsMessages

LEMMA SmallBacklogStep ==
  ASSUME Backlog <= SegmentSize, FramingInv, SmallBacklogInv, [Next]_vars
  PROVE  SmallBacklogInv'
<1>1. Written \in Nat /\ transmitted \in Nat /\ Len(ends) \in Nat
  BY EndType DEF FramingInv, OffsetsOK, Written
<1>2. CASE \E p \in PduLengths : SendData(p)
  <2>1. PICK p \in PduLengths : SendData(p)
    BY <1>2
  <2> DEFINE e == Written + HeaderLength + p
  <2>2. ends' = Append(ends, e) /\ e - transmitted <= Backlog /\ e \in Nat
    BY <1>1, <2>1, LengthAssumption DEF SendData
  <2>3. /\ Len(ends') = Len(ends) + 1 /\ ends'[Len(ends) + 1] = e
        /\ \A i \in 1 .. Len(ends) : ends'[i] = ends[i]
    BY <2>2 DEF FramingInv, OffsetsOK
  <2>4. Written' = e
    BY <1>1, <2>3 DEF Written, End
  <2>5. WholeSegments'
    BY <1>1, <2>1, <2>3 DEF SmallBacklogInv, WholeSegments, Boundary, End, SendData
  <2>. QED
    BY <2>1, <2>2, <2>4, <2>5 DEF SmallBacklogInv, SendData
<1>3. CASE Transmit
  <2>1. transmitted' = Written /\ cuts' = cuts \cup {Written} /\ ends' = ends
    BY <1>3, WholeSegment DEF Transmit
  <2>2. Boundary(Written)
    BY <1>1 DEF Boundary, Written
  <2>3. WholeSegments' /\ Written' = Written
    BY <2>1, <2>2 DEF SmallBacklogInv, WholeSegments, Boundary, Written, End
  <2>. QED
    BY <1>1, <2>1, <2>3, LengthAssumption DEF SmallBacklogInv
<1>4. CASE UNCHANGED <<ends, transmitted, cuts>>
  BY <1>4 DEF SmallBacklogInv, WholeSegments, Boundary, Written, End
<1>. QED
  BY <1>2, <1>3, <1>4 DEF Next, ReceiveModbusMessage, vars

\* Whatever the lengths: the only thing that can lose, repeat or garble a message
\* is a segment that ends inside one (industrial-device.cc:256).
THEOREM OnlyCutsLose == Spec => []CutsAreTheOnlyLoss
BY FramingInitInv, FramingStep, MessagesAreWhole, PTL DEF Spec

\* While the messages that wait in the transmit buffer fit one segment, no segment
\* does, and the receiver's callback sees exactly the messages that were sent.
THEOREM NothingIsCut ==
  ASSUME Backlog <= SegmentSize
  PROVE  Spec => []StreamIsMessages
<1>1. Init => FramingInv /\ SmallBacklogInv
  BY FramingInitInv
<1>2. FramingInv /\ SmallBacklogInv /\ [Next]_vars => FramingInv' /\ SmallBacklogInv'
  BY FramingStep, SmallBacklogStep
<1>3. FramingInv /\ SmallBacklogInv => StreamIsMessages
  BY MessagesAreWhole DEF CutsAreTheOnlyLoss, SmallBacklogInv
<1>. QED
  BY <1>1, <1>2, <1>3, PTL DEF Spec
=============================================================================
