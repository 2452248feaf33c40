------------------------- MODULE ModbusServer_proofs -------------------------
(* Proofs about ModbusServer, for all names, tables and requests: the names' *)
(* addresses, and that the bytes of a request and of its answer amount to    *)
(* what the abstract memory does.                                            *)
EXTENDS ModbusServer, FiniteSetTheorems, SequenceTheorems, TLAPS

\* The devices' names are counted from one.
LEMMA DevicesFacts ==
  /\ Len(Devices) \in Nat /\ DOMAIN Devices = 1 .. Len(Devices)
  /\ \A d \in DeviceNames : \E i \in 1 .. Len(Devices) : Devices[i] = d
BY NameAssumption DEF DeviceNames

LEMMA ServerInitInv == Init => ServerInv
<1> SUFFICES ASSUME Init PROVE ServerInv
  OBVIOUS
<1>1. DOMAIN table = Kinds
  BY DEF Init, Kinds
<1>2. /\ table["discrete"] = [i \in 1 .. Len(Devices) |-> TRUE]
      /\ table["input"] = <<>>
  BY DEF Init
<1>3. /\ table["discrete"] \in Seq(BOOLEAN) /\ Len(table["discrete"]) = Len(Devices)
      /\ table["input"] \in Seq(Nat)
  BY <1>2, DevicesFacts
<1>4. /\ DOMAIN discreteAddress = DeviceNames
      /\ \A d \in DeviceNames : \E i \in 1 .. Len(Devices) :
           Devices[i] = d /\ discreteAddress[d] = i - 1
  BY DevicesFacts DEF Init
<1>5. DOMAIN inputAddress = {}
  BY DEF Init
<1>6. \A d \in DeviceNames : discreteAddress[d] \in 0 .. Len(Devices) - 1
  BY <1>4, DevicesFacts
<1>7. \A m, n \in DeviceNames : m # n => discreteAddress[m] # discreteAddress[n]
  BY <1>4, DevicesFacts
<1>8. AddressesFit
  BY <1>3, <1>4, <1>5, <1>6, <1>7, DevicesFacts DEF AddressesFit, CustomDiscreteInputStart
<1>. QED
  BY <1>1, <1>3, <1>4, <1>5, <1>6, <1>8, DevicesFacts DEF ServerInv, CustomDiscreteInputStart

LEMMA SetDiscreteInputValueInv ==
  ASSUME ServerInv, NEW name \in DeviceNames \cup DiscreteNames, NEW value \in BOOLEAN,
         SetDiscreteInputValue(name, value)
  PROVE  ServerInv'
<1> DEFINE size == Len(table["discrete"])
<1>1. /\ table["discrete"] \in Seq(BOOLEAN) /\ size \in Nat
      /\ DOMAIN table = Kinds /\ "discrete" \in Kinds /\ "input" \in Kinds
  BY DEF ServerInv, Kinds
<1>2. UNCHANGED inputAddress
  BY DEF SetDiscreteInputValue
<1>3. CASE name \in DOMAIN discreteAddress
  <2>1. discreteAddress[name] + 1 \in 1 .. size /\ UNCHANGED discreteAddress
    BY <1>1, <1>3 DEF ServerInv, AddressesFit, SetDiscreteInputValue
  <2>2. /\ DOMAIN table' = Kinds /\ table'["input"] = table["input"]
        /\ table'["discrete"] = [table["discrete"] EXCEPT ![discreteAddress[name] + 1] = value]
    BY <1>1, <1>3 DEF SetDiscreteInputValue
  <2>3. table'["discrete"] \in Seq(BOOLEAN) /\ Len(table'["discrete"]) = size
    BY <1>1, <2>1, <2>2
  <2>. QED
    BY <1>2, <2>1, <2>2, <2>3 DEF ServerInv, AddressesFit
<1>4. CASE name \notin DOMAIN discreteAddress
  <2>1. /\ DOMAIN table' = Kinds /\ table'["input"] = table["input"]
        /\ table'["discrete"] = Append(table["discrete"], value)
    BY <1>1, <1>4 DEF SetDiscreteInputValue
  <2>2. table'["discrete"] \in Seq(BOOLEAN) /\ Len(table'["discrete"]) = size + 1
    BY <1>1, <2>1
  <2>3. /\ DOMAIN discreteAddress' = DOMAIN discreteAddress \cup {name}
        /\ discreteAddress'[name] = size
        /\ \A n \in DOMAIN discreteAddress : discreteAddress'[n] = discreteAddress[n]
    BY <1>4 DEF SetDiscreteInputValue, NextFree
  <2>4. /\ \A n \in DOMAIN discreteAddress : discreteAddress[n] \in Nat /\ discreteAddress[n] < size
        /\ name \notin DeviceNames /\ CustomDiscreteInputStart <= size
        /\ CustomDiscreteInputStart \in Nat
    BY <1>4, DevicesFacts DEF ServerInv, AddressesFit, CustomDiscreteInputStart
  <2>5. AddressesFit'
    <3>1. \A m, n \in DOMAIN discreteAddress' :
            m # n => discreteAddress'[m] # discreteAddress'[n]
      BY <1>1, <2>3, <2>4 DEF ServerInv, AddressesFit
    <3>2. \A n \in DOMAIN discreteAddress' :
            /\ discreteAddress'[n] < Len(table'["discrete"])
            /\ n \in DeviceNames <=> discreteAddress'[n] < CustomDiscreteInputStart
      BY <1>1, <2>2, <2>3, <2>4 DEF ServerInv, AddressesFit
    <3>. QED
      BY <1>2, <2>1, <3>1, <3>2 DEF ServerInv, AddressesFit
  <2>. QED
    BY <1>1, <1>2, <2>1, <2>2, <2>3, <2>4, <2>5 DEF ServerInv
<1>. QED
  BY <1>3, <1>4

LEMMA SetInputRegisterValueInv ==
  ASSUME ServerInv, NEW name \in InputNames, NEW value \in Readings,
         SetInputRegisterValue(name, value)
  PROVE  ServerInv'
<1> DEFINE size == Len(table["input"])
<1>0. value \in Nat
  BY ValueAssumption
<1>1. /\ table["input"] \in Seq(Nat) /\ size \in Nat /\ value \in Nat
      /\ DOMAIN table = Kinds /\ "discrete" \in Kinds /\ "input" \in Kinds
  BY <1>0 DEF ServerInv, Kinds
<1>2. UNCHANGED discreteAddress
  BY DEF SetInputRegisterValue
<1>3. CASE name \in DOMAIN inputAddress
  <2>1. inputAddress[name] + 1 \in 1 .. size /\ UNCHANGED inputAddress
    BY <1>1, <1>3 DEF ServerInv, AddressesFit, SetInputRegisterValue
  <2>2. /\ DOMAIN table' = Kinds /\ table'["discrete"] = table["discrete"]
        /\ table'["input"] = [table["input"] EXCEPT ![inputAddress[name] + 1] = value]
    BY <1>1, <1>3 DEF SetInputRegisterValue
  <2>3. table'["input"] \in Seq(Nat) /\ Len(table'["input"]) = size
    BY <1>1, <2>1, <2>2
  <2>. QED
    BY <1>2, <2>1, <2>2, <2>3 DEF ServerInv, AddressesFit
<1>4. CASE name \notin DOMAIN inputAddress
  <2>1. /\ DOMAIN table' = Kinds /\ table'["discrete"] = table["discrete"]
        /\ table'["input"] = Append(table["input"], value)
    BY <1>1, <1>4 DEF SetInputRegisterValue
  <2>2. table'["input"] \in Seq(Nat) /\ Len(table'["input"]) = size + 1
    BY <1>1, <2>1
  <2>3. /\ DOMAIN inputAddress' = DOMAIN inputAddress \cup {name}
        /\ inputAddress'[name] = size
        /\ \A n \in DOMAIN inputAddress : inputAddress'[n] = inputAddress[n]
    BY <1>4 DEF SetInputRegisterValue, NextFree
  <2>4. \A n \in DOMAIN inputAddress : inputAddress[n] \in Nat /\ inputAddress[n] < size
    BY DEF ServerInv, AddressesFit
  <2>5. AddressesFit'
    BY <1>1, <1>2, <2>1, <2>2, <2>3, <2>4 DEF ServerInv, AddressesFit
  <2>. QED
    BY <1>1, <1>2, <2>1, <2>2, <2>3, <2>4, <2>5 DEF ServerInv
<1>. QED
  BY <1>3, <1>4

\* Handling a request replaces at most the coils or the holding registers.
LEMMA HandledKeepsInputs ==
  ASSUME ServerInv, NEW r, NEW o \in Handled(r)
  PROVE  /\ DOMAIN o.table = Kinds
         /\ o.table["discrete"] = table["discrete"] /\ o.table["input"] = table["input"]
<1> DEFINE Keeps(x) == /\ DOMAIN x.table = Kinds
                       /\ x.table["discrete"] = table["discrete"]
                       /\ x.table["input"] = table["input"]
<1>1. DOMAIN table = Kinds
  BY DEF ServerInv
<1>2. \A code, data : \A x \in Outcome(code, data, table) : Keeps(x)
  BY <1>1 DEF Outcome
<1>3. ASSUME NEW items, NEW k \in {"coil", "holding"}, NEW x \in Written(k, items)
      PROVE  Keeps(x)
  <2>1. x.table = [table EXCEPT ![k] = items]
    BY <1>3 DEF Outcome, Written
  <2>2. k # "discrete" /\ k # "input" /\ "discrete" \in Kinds /\ "input" \in Kinds
    BY <1>3 DEF Kinds
  <2>. QED
    BY <1>1, <2>1, <2>2
<1>4. /\ \A items : \A x \in Written("coil", items) : Keeps(x)
      /\ \A items : \A x \in Written("holding", items) : Keeps(x)
  BY <1>3
<1>5. \A code : \A x \in Refuse(code) : Keeps(x)
  BY <1>2 DEF Refuse
<1>6. \A data : \A x \in Answer(data) : Keeps(x)
  BY <1>2 DEF Answer
<1> HIDE DEF Keeps
<1>7. \A k : \A x \in ReadBits(r, k) : Keeps(x)
  BY <1>5, <1>6 DEF ReadBits
<1>8. \A k : \A x \in ReadWords(r, k) : Keeps(x)
  BY <1>5, <1>6 DEF ReadWords
<1>9. \A x \in WriteSingleCoil(r) : Keeps(x)
  BY <1>4, <1>5 DEF WriteSingleCoil
<1>10. \A x \in WriteSingleRegister(r) : Keeps(x)
  BY <1>4, <1>5 DEF WriteSingleRegister
<1>11. \A x \in WriteMultipleCoils(r) : Keeps(x)
  BY <1>4, <1>5 DEF WriteMultipleCoils
<1>12. \A x \in WriteMultipleRegisters(r) : Keeps(x)
  BY <1>4, <1>5, ZenonT(60) DEF WriteMultipleRegisters
<1>13. Keeps(o)
  BY <1>5, <1>7, <1>8, <1>9, <1>10, <1>11, <1>12 DEF Handled
<1>. QED
  BY <1>13 DEF Keeps

-----------------------------------------------------------------------------

\* However the tables grow and whatever clients write, two names never share an
\* address and the first discrete inputs stay the timeout flags of the devices,
\* as the HMI (hmi.cc:28) takes for granted.
THEOREM AddressesAlwaysFit == Spec => []AddressesFit
<1>1. ServerInv /\ [Next]_vars => ServerInv'
  <2> SUFFICES ASSUME ServerInv, [Next]_vars PROVE ServerInv'
    OBVIOUS
  <2>1. CASE \E n \in DeviceNames \cup DiscreteNames, b \in BOOLEAN : SetDiscreteInputValue(n, b)
    BY <2>1, SetDiscreteInputValueInv
  <2>2. CASE \E n \in InputNames, w \in Readings : SetInputRegisterValue(n, w)
    BY <2>2, SetInputRegisterValueInv
  <2>3. CASE UNCHANGED <<table, discreteAddress, inputAddress>>
    BY <2>3 DEF ServerInv, AddressesFit
  <2>4. CASE ReceiveModbusData
    <3>1. PICK o \in Handled(request) : table' = o.table
      BY <2>4 DEF ReceiveModbusData
    <3>2. UNCHANGED <<discreteAddress, inputAddress, table["discrete"], table["input"]>>
      BY <2>4, <3>1, HandledKeepsInputs DEF ReceiveModbusData
    <3>3. DOMAIN table' = Kinds
      BY <3>1, HandledKeepsInputs
    <3>. QED
      BY <3>2, <3>3 DEF ServerInv, AddressesFit
  <2>5. CASE HMIRequest \/ (\E r \in ClientRequests : Send(r)) \/ Receive
    BY <2>3, <2>5 DEF HMIRequest, Send, Receive
  <2>. QED
    BY <2>1, <2>2, <2>3, <2>4, <2>5 DEF Next, vars
<1>2. ServerInv => AddressesFit
  BY DEF ServerInv
<1>. QED
  BY <1>1, <1>2, ServerInitInv, PTL DEF Spec

-----------------------------------------------------------------------------
(* Bits and words on the wire *)

LEMMA Powers ==
  /\ 2^0 = 1 /\ 2^1 = 2 /\ 2^2 = 4 /\ 2^3 = 8
  /\ 2^4 = 16 /\ 2^5 = 32 /\ 2^6 = 64 /\ 2^7 = 128
OBVIOUS

\* A bit is found where it was packed: the byte is a sum of digits.
LEMMA BitOfPackByte ==
  ASSUME NEW bits \in Seq(BOOLEAN), NEW j \in 0 .. 7, j < Len(bits)
  PROVE  Bit(PackByte(bits), j) <=> bits[j + 1]
<1> DEFINE d(i) == IF i <= Len(bits) /\ bits[i] THEN 1 ELSE 0
           sum == d(1) + 2*d(2) + 4*d(3) + 8*d(4)+16*d(5)+32*d(6)+64*d(7)+128*d(8)
<1>1. /\ d(1) \in 0 .. 1 /\ d(2) \in 0 .. 1 /\ d(3) \in 0 .. 1 /\ d(4) \in 0 .. 1
      /\ d(5) \in 0 .. 1 /\ d(6) \in 0 .. 1 /\ d(7) \in 0 .. 1 /\ d(8) \in 0 .. 1
  OBVIOUS
<1>2. PackByte(bits) = sum
  BY Powers DEF PackByte
<1>3. d(j + 1) = 1 <=> bits[j + 1]
  OBVIOUS
<1> HIDE DEF d
<1>4. /\ (sum \div 1) % 2 = d(1)
        /\ (sum \div 2) % 2 = d(2)
        /\ (sum \div 4) % 2 = d(3)
        /\ (sum \div 8) % 2 = d(4)
        /\ (sum \div 16) % 2 = d(5)
        /\ (sum \div 32) % 2 = d(6)
        /\ (sum \div 64) % 2 = d(7)
        /\ (sum \div 128) % 2 = d(8)
  <2>1. PICK a \in 0 .. 1 : a = d(1)
    BY <1>1
  <2>2. PICK b \in 0 .. 1 : b = d(2)
    BY <1>1
  <2>3. PICK c \in 0 .. 1 : c = d(3)
    BY <1>1
  <2>4. PICK e \in 0 .. 1 : e = d(4)
    BY <1>1
  <2>5. PICK f \in 0 .. 1 : f = d(5)
    BY <1>1
  <2>6. PICK g \in 0 .. 1 : g = d(6)
    BY <1>1
  <2>7. PICK h \in 0 .. 1 : h = d(7)
    BY <1>1
  <2>8. PICK i \in 0 .. 1 : i = d(8)
    BY <1>1
  <2> DEFINE s == a + 2 * b + 4 * c + 8 * e + 16 * f + 32 * g + 64 * h + 128 * i
  <2>9. /\ (s \div 1) % 2 = a
        /\ (s \div 2) % 2 = b
        /\ (s \div 4) % 2 = c
        /\ (s \div 8) % 2 = e
        /\ (s \div 16) % 2 = f
        /\ (s \div 32) % 2 = g
        /\ (s \div 64) % 2 = h
        /\ (s \div 128) % 2 = i
    OBVIOUS
  <2>10. sum = s
    BY <2>1, <2>2, <2>3, <2>4, <2>5, <2>6, <2>7, <2>8
  <2> HIDE DEF s, sum
  <2> QED
    BY <2>1, <2>2, <2>3, <2>4, <2>5, <2>6, <2>7, <2>8, <2>9, <2>10
<1>5. (sum \div 2^j) % 2 = d(j + 1)
  <2> HIDE DEF sum
  <2>0. CASE j = 0
    BY <2>0, <1>4, Powers
  <2>1. CASE j = 1
    BY <2>1, <1>4, Powers
  <2>2. CASE j = 2
    BY <2>2, <1>4, Powers
  <2>3. CASE j = 3
    BY <2>3, <1>4, Powers
  <2>4. CASE j = 4
    BY <2>4, <1>4, Powers
  <2>5. CASE j = 5
    BY <2>5, <1>4, Powers
  <2>6. CASE j = 6
    BY <2>6, <1>4, Powers
  <2>7. CASE j = 7
    BY <2>7, <1>4, Powers
  <2> QED
    BY <2>0, <2>1, <2>2, <2>3, <2>4, <2>5, <2>6, <2>7
<1> QED
  BY <1>2, <1>3, <1>5 DEF Bit

LEMMA PackByteIsNat == ASSUME NEW bits \in Seq(BOOLEAN) PROVE PackByte(bits) \in Nat
BY Powers DEF PackByte

LEMMA ByteCounts ==
  ASSUME NEW n \in Nat \ {0}
  PROVE  /\ ByteCount(n) = BytesPushed(n) /\ ByteCount(n) \in Nat
         /\ \A i \in 1 .. n : (i + 7) \div 8 \in 1 .. ByteCount(n)
BY DEF ByteCount, BytesPushed

\* What a client takes from a reply are the bits that were packed into it.
LEMMA BitsSurvive ==
  ASSUME NEW bits \in Seq(BOOLEAN), bits # <<>>
  PROVE  /\ PackBits(bits) # <<>>
         /\ PackBits(bits)[1] = Len(PackBits(bits)) - 1
         /\ UnpackBits(PackBits(bits), Len(bits)) = bits
<1> DEFINE n == Len(bits)
           upTo(k) == IF 8 * k < n THEN 8 * k ELSE n
           byte(k) == PackByte(SubSeq(bits, 8 * k - 7, upTo(k)))
           bytes == [k \in 1 .. BytesPushed(n) |-> byte(k)]
<1>1. n \in Nat \ {0}
  OBVIOUS
<1>2. \A k \in Nat \ {0} : SubSeq(bits, 8 * k - 7, upTo(k)) \in Seq(BOOLEAN)
  BY SubSeqProperties
<1>3. \A k \in Nat \ {0} : byte(k) \in Nat
  BY <1>2, PackByteIsNat
<1>4. bytes \in Seq(Nat) /\ Len(bytes) = ByteCount(n)
  <2> HIDE DEF byte
  <2>1. BytesPushed(n) = ByteCount(n) /\ ByteCount(n) \in Nat
    BY <1>1, ByteCounts
  <2>2. bytes = [k \in 1 .. ByteCount(n) |-> byte(k)]
    BY <2>1
  <2>3. \A k \in 1 .. ByteCount(n) : byte(k) \in Nat
    BY <1>3, <2>1
  <2> HIDE DEF bytes
  <2> QED
    BY <2>1, <2>2, <2>3
<1>5. PackBits(bits) = <<ByteCount(n)>> \o bytes
  BY DEF PackBits
<1>6. PackBits(bits) \in Seq(Nat) /\ Len(PackBits(bits)) = ByteCount(n) + 1
  BY <1>1, <1>4, <1>5, ByteCounts
<1>7. PackBits(bits)[1] = ByteCount(n)
  BY <1>1, <1>4, <1>5, ByteCounts
<1>8. ASSUME NEW i \in 1 .. n
      PROVE  Bit(PackBits(bits)[(i + 7) \div 8 + 1], (i - 1) % 8) <=> bits[i]
  <2> DEFINE k == (i + 7) \div 8
             j == (i - 1) % 8
             part == SubSeq(bits, 8 * k - 7, upTo(k))
  <2>1. k \in 1 .. ByteCount(n) /\ j \in 0 .. 7 /\ 8 * k - 7 + j = i /\ i <= upTo(k)
    BY <1>1, ByteCounts
  <2>2. PackBits(bits)[k + 1] = byte(k)
    BY <1>1, <1>4, <1>5, <2>1, ByteCounts
  <2>3. part \in Seq(BOOLEAN) /\ j < Len(part) /\ part[j + 1] = bits[i]
    <3> DEFINE m == 8 * k - 7
               u == upTo(k)
    <3>1. m \in 1 .. n /\ u \in m .. n /\ j \in 0 .. 7 /\ m + j = i /\ i <= u
      BY <1>1, <2>1
    <3>2. \A h \in m .. u : bits[h] \in BOOLEAN
      BY <3>1
    <3>3. part = SubSeq(bits, m, u)
      OBVIOUS
    <3> HIDE DEF m, u, part, k
    <3>4. /\ SubSeq(bits, m, u) \in Seq(BOOLEAN)
          /\ Len(SubSeq(bits, m, u)) = u - m + 1
          /\ \A h \in 1 .. u - m + 1 : SubSeq(bits, m, u)[h] = bits[m + h - 1]
      BY <3>1, <3>2, SubSeqProperties
    <3>5. j + 1 \in 1 .. u - m + 1 /\ m + (j + 1) - 1 = i
      BY <3>1, <2>1
    <3> HIDE DEF j
    <3> QED
      BY <3>1, <3>3, <3>4, <3>5
  <2> QED
    BY <2>1, <2>2, <2>3, BitOfPackByte
<1>9. UnpackBits(PackBits(bits), n) = bits
  <2>1. \A x, y : Bit(x, y) \in BOOLEAN
    BY DEF Bit
  <2>2. UnpackBits(PackBits(bits), n) \in Seq(BOOLEAN) /\ Len(UnpackBits(PackBits(bits), n)) = n
    BY <1>1, <2>1 DEF UnpackBits
  <2>3. \A i \in 1 .. n : UnpackBits(PackBits(bits), n)[i] = bits[i]
    BY <1>8, <2>1, SMTT(30) DEF UnpackBits
  <2> QED
    BY <2>2, <2>3, SeqEqual
<1> QED
  BY <1>1, <1>6, <1>7, <1>9, ByteCounts

\* A word is its high byte and its low byte.
HighByte(w) == w \div 256
LowByte(w) == w % 256

LEMMA HighAndLow ==
  \A w \in Nat : /\ HighByte(w) \in Int /\ LowByte(w) \in Int
                 /\ w = 256 * HighByte(w) + LowByte(w)
BY DEF HighByte, LowByte

\* The same for words, as long as the byte count fits eight bits.
LEMMA WordsSurvive ==
  ASSUME NEW words \in Seq(Nat), Len(words) \in 1 .. 127
  PROVE  /\ PackWords(words) # <<>>
         /\ UnpackWords(PackWords(words)) = words
<1> DEFINE n == Len(words)
           byte(k) == IF k % 2 = 1 THEN words[(k + 1) \div 2] \div 256
                                 ELSE words[k \div 2] % 256
           bytes == [k \in 1 .. 2 * n |-> byte(k)]
<1>0. \A m \in 1 .. 127 : (2 * m) % 256 = 2 * m /\ (2 * m) \div 2 = m
  OBVIOUS
<1>1. ASSUME NEW k \in 1 .. 2 * n PROVE byte(k) \in Nat
  <2>1. ASSUME NEW w \in Nat PROVE w \div 256 \in Nat /\ w % 256 \in Nat
    OBVIOUS
  <2>2. k % 2 = 1 => (k + 1) \div 2 \in 1 .. n
    OBVIOUS
  <2>3. k % 2 # 1 => k \div 2 \in 1 .. n
    OBVIOUS
  <2>. QED
    BY <2>1, <2>2, <2>3
<1>2. bytes \in Seq(Nat) /\ Len(bytes) = 2 * n
  BY <1>1
<1>3. PackWords(words) = <<2 * n>> \o bytes
  BY <1>0 DEF PackWords
<1>4. \A k \in 1 .. 2 * n : bytes[k] = byte(k)
  OBVIOUS
<1> HIDE DEF bytes, byte
<1>5. /\ PackWords(words) \in Seq(Nat) /\ Len(PackWords(words)) = 2 * n + 1
      /\ PackWords(words)[1] = 2 * n
      /\ \A k \in 1 .. 2 * n : PackWords(words)[k + 1] = byte(k)
  BY <1>2, <1>3, <1>4
<1>6. ASSUME NEW i \in 1 .. n
      PROVE  PackWords(words)[2 * i] * 256 + PackWords(words)[2 * i + 1] = words[i]
  <2>1. byte(2 * i - 1) = HighByte(words[i]) /\ byte(2 * i) = LowByte(words[i])
    BY DEF byte, HighByte, LowByte
  <2>2. PackWords(words)[(2 * i - 1) + 1] = HighByte(words[i])
    BY <1>5, <2>1
  <2>3. PackWords(words)[2 * i + 1] = LowByte(words[i])
    <3>1. PICK k \in 1 .. 2 * n : k = 2 * i
      OBVIOUS
    <3>2. PackWords(words)[k + 1] = byte(k)
      BY <1>5
    <3>. QED
      BY <2>1, <3>1, <3>2
  <2>4. words[i] \in Nat /\ (2 * i - 1) + 1 = 2 * i
    OBVIOUS
  <2>5. PackWords(words)[2 * i] = HighByte(words[i])
    BY <2>2, <2>4
  <2>6. PICK h \in Int, l \in Int : h = HighByte(words[i]) /\ l = LowByte(words[i])
    BY <2>4, HighAndLow
  <2>7. words[i] = 256 * h + l
    BY <2>4, <2>6, HighAndLow, ZenonT(40)
  <2>8. 256 * h + l = h * 256 + l
    OBVIOUS
  <2> QED
    BY <2>3, <2>5, <2>6, <2>7, <2>8, ZenonT(40)
<1>7. UnpackWords(PackWords(words)) = [i \in 1 .. n |-> words[i]]
  BY <1>0, <1>5, <1>6, ZenonT(40) DEF UnpackWords
<1> QED
  BY <1>5, <1>7, SeqEqual
-----------------------------------------------------------------------------
(* The refinement: what a PLC does with a request is what its memory promises *)

\* Several registers are written wrongly (plc.cc:362); clients write one at a time.
RegistersOneByOne == \A r \in ClientRequests : r.fc = 16 => r.count <= 1

Serviceable(r) == r \in Requests /\ (r.fc = 16 => r.count <= 1)

\* Beside ServerInv: the tables stay small enough for eight bits, what is on its
\* way can be served, and the client knows what it asked for.
MemoryInv ==
  /\ ServerInv
  /\ table["coil"] \in Seq(BOOLEAN) /\ Len(table["coil"]) <= 255
  /\ table["holding"] \in Seq(Nat) /\ Len(table["holding"]) <= 127
  /\ DOMAIN inputAddress \subseteq InputNames
  /\ Len(table["input"]) = Cardinality(DOMAIN inputAddress)
  /\ DOMAIN discreteAddress \subseteq DeviceNames \cup DiscreteNames
  /\ Len(table["discrete"]) = Len(Devices) + Cardinality(DOMAIN discreteAddress \cap DiscreteNames)
  /\ request # Absent => Serviceable(request) /\ context = request
  /\ response # Absent => request = Absent /\ Understood # Absent

LEMMA TableFacts ==
  ASSUME MemoryInv
  PROVE  /\ DOMAIN table = Kinds
         /\ \A k \in {"coil", "discrete"} : table[k] \in Seq(BOOLEAN) /\ Len(table[k]) <= 255
         /\ \A k \in {"holding", "input"} : table[k] \in Seq(Nat) /\ Len(table[k]) <= 127
<1>1. Len(table["input"]) <= 127
  <2>1. /\ IsFiniteSet(InputNames) /\ Cardinality(InputNames) \in Nat
        /\ Cardinality(DOMAIN inputAddress) <= Cardinality(InputNames)
    BY SizeAssumption, FS_Subset, FS_CardinalityType DEF MemoryInv
  <2>2. Len(table["input"]) \in Nat /\ Cardinality(InputNames) <= 127
    BY SizeAssumption DEF MemoryInv, ServerInv
  <2>. QED
    BY <2>1, <2>2 DEF MemoryInv
<1>2. Len(table["discrete"]) <= 255
  <2> DEFINE named == DOMAIN discreteAddress \cap DiscreteNames
  <2>1. /\ IsFiniteSet(DiscreteNames) /\ Cardinality(DiscreteNames) \in Nat
        /\ Cardinality(named) \in Nat /\ Cardinality(named) <= Cardinality(DiscreteNames)
    BY SizeAssumption, FS_Subset, FS_CardinalityType
  <2>2. /\ Len(table["discrete"]) = Len(Devices) + Cardinality(named)
        /\ Len(Devices) + Cardinality(DiscreteNames) <= 255 /\ Len(Devices) \in Nat
    BY SizeAssumption, DevicesFacts DEF MemoryInv
  <2>. QED
    BY <2>1, <2>2
<1>. QED
  BY <1>1, <1>2 DEF MemoryInv, ServerInv

\* A request that is not valid is refused; any other does what its client meant.
IsRefusal(o) == \E code \in 1 .. 4 : o \in Refuse(code)
ServedAsMeant(r, o) ==
  LET m == Meant(r)
  IN IF ~Memory!Valid(m) THEN IsRefusal(o)
     ELSE IF m.write THEN o \in Written(m.kind, Memory!Replaced(m))
     ELSE o \in Answer(IF r.fc \in {1, 2} THEN PackBits(Memory!Items(m))
                       ELSE PackWords(Memory!Items(m)))

LEMMA RequestFields ==
  ASSUME NEW r \in Requests
  PROVE  /\ r.fc \in Nat /\ r.address \in Nat /\ r.count \in Nat /\ r.byteCount \in Nat
         /\ r.data \in Seq(Byte)
<1>1. /\ r.fc \in Byte /\ r.address \in Word /\ r.count \in Word
      /\ r.byteCount \in Byte /\ r.data \in Seq(Byte)
  BY DEF Requests
<1>2. \A x \in Byte \cup Word : x \in Nat
  <2>1. 2^16 \in Nat
    OBVIOUS
  <2>. QED
    BY <2>1, SMTT(30) DEF Byte, Word
<1>. QED
  BY <1>1, <1>2, SMTT(30)

LEMMA MeantFields ==
  ASSUME NEW r
  PROVE  /\ Meant(r).kind = KindOf(r) /\ Meant(r).address = r.address
         /\ Meant(r).write <=> r.fc > 4
         /\ Meant(r).values = MeantValues(r)
BY Zenon DEF Meant

LEMMA ReadsAreServed ==
  ASSUME MemoryInv, NEW r \in Requests, r.fc \in 1 .. 4, NEW o \in Handled(r)
  PROVE  ServedAsMeant(r, o)
<1> DEFINE k == KindOf(r)
           m == Meant(r)
           inside == r.data = <<>> /\ r.count >= 1 /\ r.address + r.count <= Len(table[k])
           packed == IF r.fc \in {1, 2} THEN PackBits(Asked(r, k)) ELSE PackWords(Asked(r, k))
<1>0. r.fc = 1 \/ r.fc = 2 \/ r.fc = 3 \/ r.fc = 4
  OBVIOUS
<1>1. /\ m.kind = k /\ ~m.write /\ m.address = r.address
      /\ m.count = IF r.data = <<>> THEN r.count ELSE 0
  <2>1. m.count = IF r.data = <<>> THEN r.count ELSE 0
    BY DEF Meant
  <2> QED
    BY <2>1, MeantFields
<1>2. k = IF r.fc = 1 THEN "coil" ELSE IF r.fc = 2 THEN "discrete"
          ELSE IF r.fc = 3 THEN "holding" ELSE "input"
  BY <1>0 DEF KindOf
<1>3. /\ Len(table[k]) \in Nat /\ Len(table[k]) <= 255
      /\ r.fc \in {3, 4} => Len(table[k]) <= 127
  <2>1. CASE r.fc \in {1, 2}
    <3>1. table[k] \in Seq(BOOLEAN) /\ Len(table[k]) <= 255
      BY <1>2, <2>1, TableFacts
    <3>. QED
      BY <2>1, <3>1
  <2>2. CASE r.fc \in {3, 4}
    <3>1. table[k] \in Seq(Nat) /\ Len(table[k]) <= 127
      BY <1>2, <2>2, TableFacts
    <3>2. Len(table[k]) \in Nat
      BY <3>1
    <3>. QED
      BY <3>1, <3>2
  <2>. QED
    BY <1>0, <2>1, <2>2
<1>4. r.count \in Nat /\ r.address \in Nat
  BY RequestFields
<1>10. PICK a \in Nat, c \in Nat, n \in Nat :
         a = r.address /\ c = r.count /\ n = Len(table[k])
  BY <1>3, <1>4
<1>12. PICK d : d = r.data
  OBVIOUS
<1>11. /\ inside <=> d = <<>> /\ c >= 1 /\ a + c <= n
       /\ BeyondEnd(r, k) <=> a + c > n
       /\ n <= 255 /\ (r.fc \in {3, 4} => n <= 127)
  BY <1>3, <1>10, <1>12 DEF BeyondEnd
<1>5. ASSUME r.fc \in {1, 2}
      PROVE  \/ IsRefusal(o) /\ ~inside
             \/ o \in Answer(packed) /\ inside
  <2>1. o \in ReadBits(r, k)
    BY <1>0, <1>2, <1>5 DEF Handled
  <2>2. packed = PackBits(Asked(r, k))
    BY <1>5
  <2> HIDE DEF k, packed, inside
  <2>. QED
    <3>1. CASE d # <<>> \/ c \notin 1 .. 2000
      <4>1. o \in Refuse(3)
        BY <1>10, <1>12, <2>1, <3>1 DEF ReadBits
      <4>2. ~inside
        BY <1>11, <2>2, <3>1
      <4>. QED
        BY <4>1, <4>2 DEF IsRefusal
    <3>2. CASE d = <<>> /\ c \in 1 .. 2000 /\ BeyondEnd(r, k)
      <4>1. o \in Refuse(2)
        BY <1>10, <1>12, <2>1, <3>2 DEF ReadBits
      <4>2. ~inside
        BY <1>11, <3>2
      <4>. QED
        BY <4>1, <4>2 DEF IsRefusal
    <3>3. CASE d = <<>> /\ c \in 1 .. 2000 /\ ~BeyondEnd(r, k)
      <4>1. o \in Answer(packed)
        BY <1>10, <1>12, <2>1, <2>2, <3>3 DEF ReadBits
      <4>2. inside
        BY <1>11, <3>3
      <4>. QED
        BY <4>1, <4>2
    <3>. QED
      BY <3>1, <3>2, <3>3
<1>6. ASSUME r.fc \in {3, 4}
      PROVE  \/ IsRefusal(o) /\ ~inside
             \/ o \in Answer(packed) /\ inside
  <2>1. o \in ReadWords(r, k)
    BY <1>0, <1>2, <1>6 DEF Handled
  <2>2. packed = PackWords(Asked(r, k)) /\ Len(table[k]) <= 127
    BY <1>3, <1>6
  <2> HIDE DEF k, packed, inside
  <2>. QED
    <3>1. CASE d # <<>> \/ c \notin 1 .. 293
      <4>1. o \in Refuse(3)
        BY <1>10, <1>12, <2>1, <3>1 DEF ReadWords
      <4>2. ~inside
        BY <1>11, <2>2, <3>1
      <4>. QED
        BY <4>1, <4>2 DEF IsRefusal
    <3>2. CASE d = <<>> /\ c \in 1 .. 293 /\ BeyondEnd(r, k)
      <4>1. o \in Refuse(2)
        BY <1>10, <1>12, <2>1, <3>2 DEF ReadWords
      <4>2. ~inside
        BY <1>11, <3>2
      <4>. QED
        BY <4>1, <4>2 DEF IsRefusal
    <3>3. CASE d = <<>> /\ c \in 1 .. 293 /\ ~BeyondEnd(r, k)
      <4>1. o \in Answer(packed)
        BY <1>10, <1>12, <2>1, <2>2, <3>3 DEF ReadWords
      <4>2. inside
        BY <1>11, <3>3
      <4>. QED
        BY <4>1, <4>2
    <3>. QED
      BY <3>1, <3>2, <3>3
<1>7. \/ IsRefusal(o) /\ ~inside
      \/ o \in Answer(packed) /\ inside
  BY <1>0, <1>5, <1>6
<1> HIDE DEF m, k, packed
<1>8. Memory!Valid(m) <=> inside
  BY <1>1, <1>3, <1>4 DEF Memory!Valid, Memory!Inside
<1>9. inside => Memory!Items(m) = Asked(r, k)
  BY <1>1 DEF Memory!Items, Asked
<1>. QED
  BY <1>1, <1>7, <1>8, <1>9 DEF ServedAsMeant, m, packed

\* Replacing one item.
LEMMA ReplacedOne ==
  ASSUME NEW m, NEW a \in Nat, NEW S, table[m.kind] \in Seq(S),
         m.address = a, m.count = 1
  PROVE  Memory!Replaced(m) = [table[m.kind] EXCEPT ![a + 1] = m.values[1]]
<1> DEFINE t == table[m.kind]
           v == m.values
<1>1. Memory!Replaced(m) = [i \in DOMAIN t |-> IF i \in a + 1 .. a + 1 THEN v[i - a] ELSE t[i]]
  BY DEF Memory!Replaced
<1>2. t \in Seq(S) /\ DOMAIN t = 1 .. Len(t)
  OBVIOUS
<1> HIDE DEF t, v
<1>3. [i \in DOMAIN t |-> IF i \in a + 1 .. a + 1 THEN v[i - a] ELSE t[i]]
        = [t EXCEPT ![a + 1] = v[1]]
  <2>1. \A i \in DOMAIN t : (i \in a + 1 .. a + 1 <=> i = a + 1) /\ (i = a + 1 => i - a = 1)
    BY <1>2
  <2>. QED
    BY <1>2, <2>1
<1>. QED
  BY <1>1, <1>3 DEF t, v

LEMMA SingleCoilIsServed ==
  ASSUME MemoryInv, NEW r \in Requests, r.fc = 5, NEW o \in Handled(r)
  PROVE  ServedAsMeant(r, o)
<1> DEFINE m == Meant(r)
<1>1. /\ m.kind = "coil" /\ m.write /\ m.address = r.address
  BY MeantFields DEF KindOf
<1>2. m.count = 1
  BY DEF Meant
<1>4. table["coil"] \in Seq(BOOLEAN)
  BY TableFacts
<1>5. PICK a \in Nat : a = r.address
  BY RequestFields
<1>6. PICK n \in Nat : n = Len(table["coil"])
  BY <1>4
<1>7. PICK d : d = r.data
  OBVIOUS
<1>3. /\ IsSwitch(d) => m.values = <<IsOn(d)>>
      /\ ~IsSwitch(d) => m.values = <<>>
  <2>1. ASSUME IsSwitch(d) PROVE MeantValues(r) = <<IsOn(d)>>
    BY <1>7, <2>1 DEF MeantValues
  <2>2. ASSUME ~IsSwitch(d) PROVE MeantValues(r) = <<>>
    BY <1>7, <2>2 DEF MeantValues
  <2>. QED
    BY <2>1, <2>2, MeantFields
<1>8. o \in WriteSingleCoil(r)
  BY DEF Handled
<1>9. Memory!Valid(m) <=> a + 1 <= n /\ IsSwitch(d)
  <2>1. Len(m.values) = 1 <=> IsSwitch(d)
    <3>1. Len(<<IsOn(d)>>) = 1 /\ Len(<<>>) = 0
      OBVIOUS
    <3> HIDE DEF m
    <3>2. (IsSwitch(d) => Len(m.values) = 1) /\ (~IsSwitch(d) => Len(m.values) = 0)
      BY <1>3, <3>1, Zenon
    <3>3. 0 # 1
      OBVIOUS
    <3>. QED
      BY <3>2, <3>3, Zenon
  <2> HIDE DEF m
  <2>. QED
    BY <1>1, <1>2, <1>5, <1>6, <2>1 DEF Memory!Valid, Memory!Inside
<1>10. CASE a >= n
  <2>1. o \in Refuse(2)
    BY <1>5, <1>6, <1>8, <1>10 DEF WriteSingleCoil
  <2>2. ~Memory!Valid(m)
    BY <1>9, <1>10
  <2>. QED
    BY <2>1, <2>2 DEF ServedAsMeant, IsRefusal
<1>11. CASE a < n /\ ~IsSwitch(d)
  <2>1. o \in Refuse(3)
    BY <1>5, <1>6, <1>7, <1>8, <1>11 DEF WriteSingleCoil
  <2>2. ~Memory!Valid(m)
    BY <1>9, <1>11
  <2>. QED
    BY <2>1, <2>2 DEF ServedAsMeant, IsRefusal
<1>12. CASE a < n /\ IsSwitch(d)
  <2>1. o \in Written("coil", [table["coil"] EXCEPT ![a + 1] = IsOn(d)])
    BY <1>5, <1>6, <1>7, <1>8, <1>12 DEF WriteSingleCoil
  <2>2. Memory!Valid(m)
    BY <1>9, <1>12
  <2>3. m.values[1] = IsOn(d)
    BY <1>3, <1>12
  <2> HIDE DEF m
  <2>4. Memory!Replaced(m) = [table["coil"] EXCEPT ![a + 1] = IsOn(d)]
    BY <1>1, <1>2, <1>4, <1>5, <2>3, ReplacedOne
  <2>. QED
    BY <1>1, <2>1, <2>2, <2>4 DEF ServedAsMeant, m
<1>. QED
  BY <1>10, <1>11, <1>12

\* Two bytes of a request are one word.
LEMMA OneWord ==
  ASSUME NEW d \in Seq(Byte), Len(d) >= 2
  PROVE  /\ Len(UnpackWords(<<2>> \o d)) = 1
         /\ UnpackWords(<<2>> \o d)[1] = d[1] * 256 + d[2]
<1> DEFINE s == <<2>> \o d
<1>1. s[1] = 2 /\ s[2] = d[1] /\ s[3] = d[2]
  OBVIOUS
<1>2. 2 \div 2 = 1 /\ 2 * 1 = 2 /\ 2 * 1 + 1 = 3
  OBVIOUS
<1> HIDE DEF s
<1>3. UnpackWords(s) = [i \in 1 .. 1 |-> s[2 * i] * 256 + s[2 * i + 1]]
  BY <1>1, <1>2 DEF UnpackWords
<1>4. UnpackWords(s)[1] = s[2] * 256 + s[3]
  BY <1>2, <1>3
<1>5. Len(UnpackWords(s)) = 1
  BY <1>3
<1>. QED
  BY <1>1, <1>4, <1>5 DEF s

LEMMA SingleRegisterIsServed ==
  ASSUME MemoryInv, NEW r \in Requests, r.fc = 6, NEW o \in Handled(r)
  PROVE  ServedAsMeant(r, o)
<1> DEFINE m == Meant(r)
<1>1. /\ m.kind = "holding" /\ m.write /\ m.address = r.address
  BY MeantFields DEF KindOf
<1>2. m.count = 1
  BY DEF Meant
<1>4. table["holding"] \in Seq(Nat)
  BY TableFacts
<1>5. PICK a \in Nat : a = r.address
  BY RequestFields
<1>6. PICK n \in Nat : n = Len(table["holding"])
  BY <1>4
<1>7. PICK d \in Seq(Byte) : d = r.data
  BY RequestFields
<1>3. /\ Len(d) = 2 => m.values = UnpackWords(<<2>> \o d)
      /\ Len(d) # 2 => m.values = <<>>
  <2>1. ASSUME Len(d) = 2 PROVE MeantValues(r) = UnpackWords(<<2>> \o d)
    BY <1>7, <2>1 DEF MeantValues
  <2>2. ASSUME Len(d) # 2 PROVE MeantValues(r) = <<>>
    BY <1>7, <2>2 DEF MeantValues
  <2>. QED
    BY <2>1, <2>2, MeantFields
<1>8. o \in WriteSingleRegister(r)
  BY DEF Handled
<1>9. Memory!Valid(m) <=> a + 1 <= n /\ Len(d) = 2
  <2>1. Len(m.values) = 1 <=> Len(d) = 2
    <3>1. Len(d) = 2 => Len(UnpackWords(<<2>> \o d)) = 1
      BY OneWord
    <3>2. Len(<<>>) = 0
      OBVIOUS
    <3> HIDE DEF m
    <3>3. (Len(d) = 2 => Len(m.values) = 1) /\ (Len(d) # 2 => Len(m.values) = 0)
      <4>1. 2 >= 2
        OBVIOUS
      <4>. QED
        BY <1>3, <3>1, <3>2, <4>1, Zenon
    <3>4. 0 # 1
      OBVIOUS
    <3>. QED
      BY <3>3, <3>4, Zenon
  <2> HIDE DEF m
  <2>. QED
    BY <1>1, <1>2, <1>5, <1>6, <2>1 DEF Memory!Valid, Memory!Inside
<1>10. CASE a >= n
  <2>1. o \in Refuse(2)
    BY <1>5, <1>6, <1>8, <1>10 DEF WriteSingleRegister
  <2>2. ~Memory!Valid(m)
    BY <1>9, <1>10
  <2>. QED
    BY <2>1, <2>2 DEF ServedAsMeant, IsRefusal
<1>11. CASE a < n /\ Len(d) # 2
  <2>1. o \in Refuse(3)
    BY <1>5, <1>6, <1>7, <1>8, <1>11 DEF WriteSingleRegister
  <2>2. ~Memory!Valid(m)
    BY <1>9, <1>11
  <2>. QED
    BY <2>1, <2>2 DEF ServedAsMeant, IsRefusal
<1>12. CASE a < n /\ Len(d) = 2
  <2> DEFINE word == d[1] * 256 + d[2]
  <2>1. o \in Written("holding", [table["holding"] EXCEPT ![a + 1] = word])
    BY <1>5, <1>6, <1>7, <1>8, <1>12 DEF WriteSingleRegister
  <2>2. Memory!Valid(m)
    BY <1>9, <1>12
  <2>3. m.values[1] = word
    BY <1>3, <1>12, OneWord
  <2> HIDE DEF m, word
  <2>4. Memory!Replaced(m) = [table["holding"] EXCEPT ![a + 1] = word]
    BY <1>1, <1>2, <1>4, <1>5, <2>3, ReplacedOne, SMTT(30)
  <2>. QED
    BY <1>1, <2>1, <2>2, <2>4 DEF ServedAsMeant, m
<1>. QED
  BY <1>10, <1>11, <1>12

LEMMA RegisterIsServed ==
  ASSUME MemoryInv, NEW r \in Requests, r.fc = 16, r.count <= 1, NEW o \in Handled(r)
  PROVE  ServedAsMeant(r, o)
<1> DEFINE m == Meant(r)
<1>1. /\ m.kind = "holding" /\ m.write /\ m.address = r.address
  BY MeantFields DEF KindOf
<1>2. table["holding"] \in Seq(Nat)
  BY TableFacts
<1>3. PICK a \in Nat, c \in Nat, b \in Nat, d \in Seq(Byte) :
        a = r.address /\ c = r.count /\ b = r.byteCount /\ d = r.data
  BY RequestFields
<1>4. PICK n \in Nat : n = Len(table["holding"])
  BY <1>2
<1>5. m.count = c /\ (c = 0 \/ c = 1)
  <2>1. m.count = r.count
    BY DEF Meant
  <2>. QED
    BY <1>3, <2>1
<1>6. /\ c = 1 /\ b = 2 /\ Len(d) >= 2 => m.values = UnpackWords(<<2>> \o d)
      /\ c = 1 /\ ~(b = 2 /\ Len(d) >= 2) => m.values = <<>>
  <2>1. ASSUME c = 1, b = 2, Len(d) >= 2 PROVE MeantValues(r) = UnpackWords(<<2>> \o d)
    BY <1>3, <2>1 DEF MeantValues
  <2>2. ASSUME c = 1, b # 2 \/ Len(d) < 2 PROVE MeantValues(r) = <<>>
    BY <1>3, <2>2 DEF MeantValues
  <2>. QED
    BY <1>3, <2>1, <2>2, MeantFields
<1>7. o \in WriteMultipleRegisters(r)
  BY DEF Handled
<1>8. Memory!Valid(m) <=> c = 1 /\ a + 1 <= n /\ b = 2 /\ Len(d) >= 2
  <2> HIDE DEF m
  <2>1. c = 1 => (Len(m.values) = 1 <=> b = 2 /\ Len(d) >= 2)
    <3>1. Len(d) >= 2 => Len(UnpackWords(<<2>> \o d)) = 1
      BY OneWord
    <3>2. Len(<<>>) = 0
      OBVIOUS
    <3>3. ASSUME c = 1
          PROVE  /\ b = 2 /\ Len(d) >= 2 => Len(m.values) = 1
                 /\ ~(b = 2 /\ Len(d) >= 2) => Len(m.values) = 0
      BY <1>6, <3>1, <3>2, <3>3, Zenon
    <3>4. 0 # 1
      OBVIOUS
    <3>. QED
      BY <3>3, <3>4, Zenon
  <2>2. Memory!Inside(m) <=> c = 1 /\ a + 1 <= n
    BY <1>1, <1>3, <1>4, <1>5 DEF Memory!Inside
  <2>. QED
    BY <1>1, <1>5, <2>1, <2>2 DEF Memory!Valid
<1>9. BeyondEnd(r, "holding") <=> a + c > n
  BY <1>3, <1>4 DEF BeyondEnd
<1>10. CASE c \notin 1 .. 123 \/ b # 2 * c
  <2>1. o \in Refuse(3)
    BY <1>3, <1>7, <1>10 DEF WriteMultipleRegisters
  <2>2. ~Memory!Valid(m)
    BY <1>5, <1>8, <1>10
  <2>. QED
    BY <2>1, <2>2 DEF ServedAsMeant, IsRefusal
<1>11. CASE c = 1 /\ b = 2 /\ Len(d) < 2
  <2>1. o \in Refuse(4)
    BY <1>3, <1>7, <1>11 DEF WriteMultipleRegisters
  <2>2. ~Memory!Valid(m)
    BY <1>3, <1>8, <1>11
  <2>. QED
    BY <2>1, <2>2 DEF ServedAsMeant, IsRefusal
<1>12. CASE c = 1 /\ b = 2 /\ Len(d) >= 2 /\ a + 1 > n
  <2>1. BeyondEnd(r, "holding")
    BY <1>9, <1>12
  <2>2. o \in Refuse(2)
    BY <1>3, <1>7, <1>12, <2>1 DEF WriteMultipleRegisters
  <2>3. ~Memory!Valid(m)
    BY <1>3, <1>8, <1>12
  <2>. QED
    BY <2>2, <2>3 DEF ServedAsMeant, IsRefusal
<1>13. CASE c = 1 /\ b = 2 /\ Len(d) >= 2 /\ a + 1 <= n
  <2> DEFINE word == d[1] * 256 + d[2]
  <2>1. ~BeyondEnd(r, "holding")
    BY <1>9, <1>13
  <2>2. o \in Written("holding", [table["holding"] EXCEPT ![a + 1] = word])
    <3>1. 2 * (1 - 1) + 1 = 1 /\ 5 * (1 - 1) + 2 = 2
      OBVIOUS
    <3>. QED
      <4> DEFINE low == IF 5 * (c - 1) + 2 <= Len(d) THEN {d[5 * (c - 1) + 2]} ELSE StrayBytes
      <4>1. low = {d[2]}
        BY <1>13, <3>1
      <4>2. o \in UNION {Written("holding", [table["holding"] EXCEPT
                                  ![a + 1] = d[2 * (c - 1) + 1] * 256 + x]) : x \in low}
        BY <1>3, <1>7, <1>13, <2>1 DEF WriteMultipleRegisters
      <4> HIDE DEF low
      <4>. QED
        BY <1>13, <3>1, <4>1, <4>2
  <2>3. Memory!Valid(m)
    BY <1>8, <1>13
  <2>4. m.values[1] = word
    BY <1>6, <1>13, OneWord
  <2> HIDE DEF m, word
  <2>5. Memory!Replaced(m) = [table["holding"] EXCEPT ![a + 1] = word]
    BY <1>1, <1>2, <1>3, <1>5, <1>13, <2>4, ReplacedOne
  <2>. QED
    BY <1>1, <2>2, <2>3, <2>5 DEF ServedAsMeant, m
<1>14. CASE c = 0
  BY <1>10, <1>14
<1>15. CASE c = 1
  <2>1. b # 2 => b # 2 * c
    BY <1>15
  <2>2. a + 1 > n \/ a + 1 <= n
    OBVIOUS
  <2>3. Len(d) < 2 \/ Len(d) >= 2
    OBVIOUS
  <2>. QED
    BY <1>10, <1>11, <1>12, <1>13, <1>15, <2>1, <2>2, <2>3, Zenon
<1>. QED
  BY <1>5, <1>14, <1>15

LEMMA CoilsAreServed ==
  ASSUME MemoryInv, NEW r \in Requests, r.fc = 15, NEW o \in Handled(r)
  PROVE  ServedAsMeant(r, o)
<1> DEFINE m == Meant(r)
           coils == table["coil"]
<1>1. /\ m.kind = "coil" /\ m.write /\ m.address = r.address
  BY MeantFields DEF KindOf
<1>2. coils \in Seq(BOOLEAN) /\ Len(coils) <= 255
  BY TableFacts
<1>3. PICK a \in Nat, c \in Nat, b \in Nat, d \in Seq(Byte) :
        a = r.address /\ c = r.count /\ b = r.byteCount /\ d = r.data
  BY RequestFields
<1>4. PICK n \in Nat : n = Len(coils) /\ n <= 255
  BY <1>2
<1>5. m.count = c
  <2>1. m.count = r.count
    BY DEF Meant
  <2>. QED
    BY <1>3, <2>1
<1> DEFINE fits == b = ByteCount(c) /\ Len(d) >= b
           sent == <<b>> \o d
<1>6. /\ fits => m.values = UnpackBits(sent, c)
      /\ ~fits => m.values = <<>>
  <2>1. ASSUME fits PROVE MeantValues(r) = UnpackBits(sent, c)
    BY <1>3, <2>1 DEF MeantValues
  <2>2. ASSUME b # ByteCount(c) \/ Len(d) < b PROVE MeantValues(r) = <<>>
    BY <1>3, <2>2 DEF MeantValues
  <2>. QED
    BY <1>3, <2>1, <2>2, MeantFields
<1>7. o \in WriteMultipleCoils(r)
  BY DEF Handled
<1>8. Memory!Valid(m) <=> c >= 1 /\ a + c <= n /\ fits
  <2>1. ASSUME c >= 1
        PROVE  (fits => Len(m.values) = c) /\ (~fits => Len(m.values) = 0)
    <3>1. Len(UnpackBits(sent, c)) = c /\ Len(<<>>) = 0
      BY DEF UnpackBits
    <3> HIDE DEF m, fits, sent
    <3>. QED
      BY <1>6, <3>1, Zenon
  <2> HIDE DEF m, fits
  <2>2. Memory!Inside(m) <=> c >= 1 /\ a + c <= n
    BY <1>1, <1>3, <1>4, <1>5 DEF Memory!Inside
  <2>3. c >= 1 => c # 0
    OBVIOUS
  <2>4. c >= 1 => (Len(m.values) = c <=> fits)
    BY <2>1, <2>3, Zenon
  <2>. QED
    BY <1>1, <1>5, <2>2, <2>4, Zenon DEF Memory!Valid
<1>9. BeyondEnd(r, "coil") <=> a + c > n
  BY <1>3, <1>4 DEF BeyondEnd
<1>10. CASE c \notin 1 .. 2000 \/ b # ByteCount(c)
  <2>1. o \in Refuse(3)
    BY <1>3, <1>7, <1>10 DEF WriteMultipleCoils
  <2>2. c \notin 1 .. 2000 => ~(c >= 1 /\ a + c <= n)
    BY <1>4
  <2>3. ~Memory!Valid(m)
    BY <1>8, <1>10, <2>2
  <2>. QED
    BY <2>1, <2>3, SMTT(30) DEF ServedAsMeant, IsRefusal
<1>11. CASE c \in 1 .. 2000 /\ b = ByteCount(c) /\ a + c > n
  <2>1. o \in Refuse(2)
    BY <1>3, <1>7, <1>9, <1>11 DEF WriteMultipleCoils
  <2>2. ~(a + c <= n)
    BY <1>11
  <2>3. ~Memory!Valid(m)
    BY <1>8, <2>2
  <2>. QED
    BY <2>1, <2>3, SMTT(30) DEF ServedAsMeant, IsRefusal
<1>12. CASE c \in 1 .. 2000 /\ b = ByteCount(c) /\ a + c <= n /\ Len(d) < b
  <2>0. ~BeyondEnd(r, "coil")
    BY <1>9, <1>12
  <2>1. o \in Refuse(4)
    BY <1>3, <1>7, <1>12, <2>0 DEF WriteMultipleCoils
  <2>2. ~fits
    BY <1>12
  <2>3. ~Memory!Valid(m)
    BY <1>8, <2>2
  <2>. QED
    BY <2>1, <2>3 DEF ServedAsMeant, IsRefusal
<1>13. CASE c \in 1 .. 2000 /\ b = ByteCount(c) /\ a + c <= n /\ Len(d) >= b
  <2> DEFINE stored(i) == LET offset == i - 1 - a
                          IN IF offset \in 0 .. c - 1
                             THEN Bit(d[offset \div 8 + 1], offset % 8) ELSE coils[i]
  <2>1. ~BeyondEnd(r, "coil")
    BY <1>9, <1>13
  <2>2. o \in Written("coil", [i \in DOMAIN coils |-> stored(i)])
    BY <1>3, <1>7, <1>13, <2>1 DEF WriteMultipleCoils
  <2>3. Memory!Valid(m)
    BY <1>8, <1>13
  <2>4. m.values = UnpackBits(sent, c)
    BY <1>6, <1>13
  <2>5. ASSUME NEW i \in DOMAIN coils
        PROVE  stored(i) = IF i \in a + 1 .. a + c THEN UnpackBits(sent, c)[i - a] ELSE coils[i]
    <3>0. i \in Nat
      BY <1>2
    <3>1. CASE i \in a + 1 .. a + c
      <4> DEFINE k == i - 1 - a
                 j == i - a
      <4>1. j \in 1 .. c /\ k \in 0 .. c - 1 /\ k = j - 1
        BY <3>0, <3>1
      <4>2. (j + 7) \div 8 = k \div 8 + 1 /\ k \div 8 + 1 \in Nat
        <5>1. \A x \in Nat : (x + 8) \div 8 = x \div 8 + 1 /\ x \div 8 + 1 \in Nat
          OBVIOUS
        <5>2. k \in Nat /\ j + 7 = k + 8
          BY <4>1
        <5> HIDE DEF j, k
        <5>. QED
          BY <5>1, <5>2
      <4>3. (j + 7) \div 8 \in 1 .. ByteCount(c)
        <5>1. c \in Nat \ {0}
          BY <1>13
        <5> HIDE DEF j
        <5>. QED
          BY <4>1, <5>1, ByteCounts
      <4>4. k \div 8 + 1 \in 1 .. Len(d)
        BY <1>13, <4>2, <4>3
      <4>5. sent[(k \div 8 + 1) + 1] = d[k \div 8 + 1]
        BY <4>4
      <4>6. UnpackBits(sent, c)[j] = Bit(sent[(j + 7) \div 8 + 1], (j - 1) % 8)
        BY <4>1 DEF UnpackBits
      <4>7. stored(i) = Bit(d[k \div 8 + 1], k % 8)
        BY <4>1
      <4>. QED
        BY <3>1, <4>1, <4>2, <4>5, <4>6, <4>7
    <3>2. CASE i \notin a + 1 .. a + c
      <4>1. i - 1 - a \notin 0 .. c - 1
        BY <3>0, <3>2
      <4>. QED
        BY <3>2, <4>1
    <3>. QED
      BY <3>1, <3>2
  <2>6. Memory!Replaced(m) = [i \in DOMAIN coils |->
                                IF i \in a + 1 .. a + c THEN m.values[i - a] ELSE coils[i]]
    <3> HIDE DEF m
    <3>. QED
      BY <1>1, <1>3, <1>5 DEF Memory!Replaced
  <2> HIDE DEF m, stored, sent, coils
  <2>7. Memory!Replaced(m) = [i \in DOMAIN coils |-> stored(i)]
    BY <2>4, <2>5, <2>6
  <2>. QED
    BY <1>1, <2>2, <2>3, <2>7 DEF ServedAsMeant, m
<1>16. \/ c \notin 1 .. 2000 \/ b # ByteCount(c)
       \/ c \in 1 .. 2000 /\ b = ByteCount(c) /\ a + c > n
       \/ c \in 1 .. 2000 /\ b = ByteCount(c) /\ a + c <= n /\ Len(d) < b
       \/ c \in 1 .. 2000 /\ b = ByteCount(c) /\ a + c <= n /\ Len(d) >= b
  <2>1. (a + c > n \/ a + c <= n) /\ (Len(d) < b \/ Len(d) >= b)
    OBVIOUS
  <2> HIDE DEF m, coils, fits, sent
  <2>. QED
    BY <2>1
<1> HIDE DEF m, coils, fits, sent
<1>. QED
  BY <1>10, <1>11, <1>12, <1>13, <1>16

\* No other function code is known.
LEMMA OthersAreRefused ==
  ASSUME NEW r \in Requests, r.fc \notin {1, 2, 3, 4, 5, 6, 15, 16}, NEW o \in Handled(r)
  PROVE  ServedAsMeant(r, o)
<1> DEFINE m == Meant(r)
<1>1. o \in Refuse(1)
  BY DEF Handled
<1>2. m.count = 0
  BY RequestFields DEF Meant
<1>3. ~Memory!Valid(m)
  <2> HIDE DEF m
  <2>. QED
    BY <1>2 DEF Memory!Valid, Memory!Inside
<1>. QED
  BY <1>1, <1>3 DEF ServedAsMeant, IsRefusal

\* Every request a client may send is served as it was meant.
LEMMA RequestsAreServed ==
  ASSUME MemoryInv, NEW r, Serviceable(r), NEW o \in Handled(r)
  PROVE  ServedAsMeant(r, o)
<1>1. r \in Requests /\ (r.fc = 16 => r.count <= 1)
  BY DEF Serviceable
<1>2. CASE r.fc \in 1 .. 4
  BY <1>1, <1>2, ReadsAreServed
<1>3. CASE r.fc = 5
  BY <1>1, <1>3, SingleCoilIsServed
<1>4. CASE r.fc = 6
  BY <1>1, <1>4, SingleRegisterIsServed
<1>5. CASE r.fc = 15
  BY <1>1, <1>5, CoilsAreServed
<1>6. CASE r.fc = 16
  BY <1>1, <1>6, RegisterIsServed
<1>7. CASE r.fc \notin {1, 2, 3, 4, 5, 6, 15, 16}
  BY <1>1, <1>7, OthersAreRefused
<1>. QED
  BY <1>2, <1>3, <1>4, <1>5, <1>6, <1>7

-----------------------------------------------------------------------------
(* What the client makes of the answer *)

LEMMA Records ==
  ASSUME NEW v, NEW ok \in BOOLEAN
  PROVE  /\ ok => [ok |-> ok, values |-> v] = Memory!Done(v)
         /\ ~ok => [ok |-> ok, values |-> <<>>] = Memory!Refused
BY DEF Memory!Done, Memory!Refused

LEMMA RepliesAreThere ==
  ASSUME NEW code \in Nat, NEW data \in Seq(Nat)
  PROVE  [code |-> code, data |-> data] # Absent
<1>1. [code |-> code, data |-> data] \in Replies
  BY DEF Replies
<1>. QED
  BY <1>1, AbsentAssumption

LEMMA PackedBits == ASSUME NEW bits \in Seq(BOOLEAN), bits # <<>> PROVE PackBits(bits) \in Seq(Nat)
<1> DEFINE n == Len(bits)
           upTo(k) == IF 8 * k < n THEN 8 * k ELSE n
           byte(k) == PackByte(SubSeq(bits, 8 * k - 7, upTo(k)))
<1>1. n \in Nat \ {0} /\ ByteCount(n) \in Nat /\ BytesPushed(n) = ByteCount(n)
  BY ByteCounts
<1>2. ASSUME NEW k \in 1 .. BytesPushed(n) PROVE byte(k) \in Nat
  <2>1. 8 * k - 7 \in Int /\ upTo(k) \in Int /\ 8 * k - 7 >= 1 /\ upTo(k) <= n
    BY <1>1
  <2>2. \A i \in 8 * k - 7 .. upTo(k) : bits[i] \in BOOLEAN
    BY <1>1, <2>1
  <2>3. SubSeq(bits, 8 * k - 7, upTo(k)) \in Seq(BOOLEAN)
    <3> HIDE DEF upTo
    <3>. QED
      BY <2>1, <2>2, SubSeqProperties
  <2>. QED
    BY <2>3, PackByteIsNat
<1> DEFINE bytes == [k \in 1 .. BytesPushed(n) |-> byte(k)]
<1>3. PackBits(bits) = <<ByteCount(n)>> \o bytes
  BY DEF PackBits
<1> HIDE DEF byte, n
<1>4. bytes \in Seq(Nat)
  BY <1>1, <1>2
<1> HIDE DEF bytes
<1>. QED
  BY <1>1, <1>3, <1>4

LEMMA PackedWords == ASSUME NEW words \in Seq(Nat) PROVE PackWords(words) \in Seq(Nat)
<1> DEFINE n == Len(words)
           byte(k) == IF k % 2 = 1 THEN words[(k + 1) \div 2] \div 256
                                 ELSE words[k \div 2] % 256
<1>1. n \in Nat /\ (2 * n) % 256 \in Nat
  OBVIOUS
<1>2. ASSUME NEW k \in 1 .. 2 * n PROVE byte(k) \in Nat
  <2>1. ASSUME NEW w \in Nat PROVE w \div 256 \in Nat /\ w % 256 \in Nat
    OBVIOUS
  <2>2. k % 2 = 1 => (k + 1) \div 2 \in 1 .. n
    OBVIOUS
  <2>3. k % 2 # 1 => k \div 2 \in 1 .. n
    OBVIOUS
  <2>. QED
    BY <2>1, <2>2, <2>3
<1> DEFINE bytes == [k \in 1 .. 2 * n |-> byte(k)]
<1>3. PackWords(words) = <<(2 * n) % 256>> \o bytes
  BY DEF PackWords
<1> HIDE DEF byte, n
<1>4. bytes \in Seq(Nat)
  BY <1>1, <1>2
<1> HIDE DEF bytes
<1>. QED
  BY <1>1, <1>3, <1>4

LEMMA RefusalIsUnderstood ==
  ASSUME NEW r, NEW o, IsRefusal(o)
  PROVE  /\ Understanding(r, o.response) = Memory!Refused /\ o.table = table
         /\ o.response # Absent
<1>1. PICK code \in 1 .. 4 : o = [response |-> [code |-> code, data |-> <<>>], table |-> table]
  BY DEF IsRefusal, Refuse, Outcome
<1> DEFINE reply == o.response
           ok == reply.code = 0 /\ CountFits(r, reply)
<1>2. reply.code # 0 /\ reply.data = <<>> /\ o.table = table
  BY <1>1
<1>3. Understanding(r, reply) = [ok |-> ok, values |-> <<>>]
  BY <1>2, Zenon DEF Understanding
<1>4. ~ok /\ ok \in BOOLEAN
  BY <1>2
<1> HIDE DEF ok, reply
<1>5. reply # Absent
  <2>1. <<>> \in Seq(Nat) /\ code \in Nat
    OBVIOUS
  <2>2. [code |-> code, data |-> <<>>] # Absent
    BY <2>1, RepliesAreThere, Zenon
  <2>. QED
    BY <1>1, <2>2 DEF reply
<1>. QED
  BY <1>2, <1>3, <1>4, <1>5, Records DEF reply

LEMMA WriteIsUnderstood ==
  ASSUME NEW r, NEW o, NEW k, NEW items, r.fc > 4, r.fc \in Nat, o \in Written(k, items)
  PROVE  Understanding(r, o.response) = Memory!Done(<<>>) /\ o.response # Absent
<1>1. o = [response |-> [code |-> 0, data |-> <<>>], table |-> [table EXCEPT ![k] = items]]
  BY DEF Written, Outcome
<1> DEFINE reply == o.response
           ok == reply.code = 0 /\ CountFits(r, reply)
<1>2. reply.code = 0 /\ reply.data = <<>>
  BY <1>1
<1>3. Understanding(r, reply) = [ok |-> ok, values |-> <<>>]
  BY <1>2, Zenon DEF Understanding
<1>4. r.fc \notin {1, 2}
  OBVIOUS
<1>5. ok /\ ok \in BOOLEAN
  BY <1>2, <1>4 DEF CountFits
<1> HIDE DEF ok, reply
<1>6. reply # Absent
  <2>1. <<>> \in Seq(Nat) /\ 0 \in Nat
    OBVIOUS
  <2>2. [code |-> 0, data |-> <<>>] # Absent
    BY <2>1, RepliesAreThere, Zenon
  <2>. QED
    BY <1>1, <2>2 DEF reply
<1>. QED
  BY <1>2, <1>3, <1>5, <1>6, Records DEF reply

LEMMA BitsAreUnderstood ==
  ASSUME NEW r, NEW o, NEW bits \in Seq(BOOLEAN), bits # <<>>,
         r.fc \in {1, 2}, r.count = Len(bits), o \in Answer(PackBits(bits))
  PROVE  /\ Understanding(r, o.response) = Memory!Done(bits) /\ o.table = table
         /\ o.response # Absent
<1>1. o = [response |-> [code |-> 0, data |-> PackBits(bits)], table |-> table]
  BY DEF Answer, Outcome
<1> DEFINE reply == o.response
           ok == reply.code = 0 /\ CountFits(r, reply)
<1>2. reply.code = 0 /\ reply.data = PackBits(bits) /\ o.table = table
  BY <1>1
<1>3. ok /\ ok \in BOOLEAN
  BY <1>2, BitsSurvive DEF CountFits
<1>4. Understanding(r, reply) = [ok |-> ok, values |-> UnpackBits(PackBits(bits), Len(bits))]
  BY <1>2, BitsSurvive, Zenon DEF Understanding
<1> HIDE DEF ok, reply
<1>5. Understanding(r, reply) = [ok |-> ok, values |-> bits]
  BY <1>4, BitsSurvive
<1>6. reply # Absent
  <2>1. PackBits(bits) \in Seq(Nat)
    BY PackedBits
  <2>2. reply = [code |-> 0, data |-> PackBits(bits)]
    BY <1>1 DEF reply
  <2>3. [code |-> 0, data |-> PackBits(bits)] # Absent
    BY <2>1, RepliesAreThere
  <2>. QED
    BY <2>2, <2>3
<1>. QED
  BY <1>2, <1>3, <1>5, <1>6, Records DEF reply

LEMMA WordsAreUnderstood ==
  ASSUME NEW r, NEW o, NEW words \in Seq(Nat), Len(words) \in 1 .. 127,
         r.fc \notin {1, 2}, o \in Answer(PackWords(words))
  PROVE  /\ Understanding(r, o.response) = Memory!Done(words) /\ o.table = table
         /\ o.response # Absent
<1>1. o = [response |-> [code |-> 0, data |-> PackWords(words)], table |-> table]
  BY DEF Answer, Outcome
<1> DEFINE reply == o.response
           ok == reply.code = 0 /\ CountFits(r, reply)
<1>2. reply.code = 0 /\ reply.data = PackWords(words) /\ o.table = table
  BY <1>1
<1>3. ok /\ ok \in BOOLEAN
  BY <1>2 DEF CountFits
<1>4. Understanding(r, reply) = [ok |-> ok, values |-> UnpackWords(PackWords(words))]
  BY <1>2, WordsSurvive, Zenon DEF Understanding
<1> HIDE DEF ok, reply
<1>5. Understanding(r, reply) = [ok |-> ok, values |-> words]
  BY <1>4, WordsSurvive
<1>6. reply # Absent
  <2>1. PackWords(words) \in Seq(Nat)
    BY PackedWords
  <2>2. reply = [code |-> 0, data |-> PackWords(words)]
    BY <1>1 DEF reply
  <2>3. [code |-> 0, data |-> PackWords(words)] # Absent
    BY <2>1, RepliesAreThere
  <2>. QED
    BY <2>2, <2>3
<1>. QED
  BY <1>2, <1>3, <1>5, <1>6, Records DEF reply

\* The items that a valid request names.
LEMMA ItemsFacts ==
  ASSUME NEW m, NEW S, table[m.kind] \in Seq(S), m.address \in Nat, m.count \in Nat,
         Memory!Inside(m)
  PROVE  Memory!Items(m) \in Seq(S) /\ Len(Memory!Items(m)) = m.count /\ m.count >= 1
<1>0. PICK t : t = table[m.kind]
  OBVIOUS
<1>1. PICK a \in Nat, c \in Nat : a = m.address /\ c = m.count
  OBVIOUS
<1>2. t \in Seq(S) /\ c >= 1 /\ a + c <= Len(t)
  BY <1>0, <1>1 DEF Memory!Inside
<1>3. \A i \in a + 1 .. a + c : t[i] \in S
  BY <1>2
<1>4. /\ SubSeq(t, a + 1, a + c) \in Seq(S)
      /\ Len(SubSeq(t, a + 1, a + c)) = IF a + 1 <= a + c THEN (a + c) - (a + 1) + 1 ELSE 0
  BY <1>3, SubSeqProperties
<1>5. Len(SubSeq(t, a + 1, a + c)) = c
  BY <1>2, <1>4
<1>6. Memory!Items(m) = SubSeq(t, a + 1, a + c)
  BY <1>0, <1>1 DEF Memory!Items
<1>. QED
  BY <1>1, <1>2, <1>4, <1>5, <1>6

\* What the memory makes of a request.
AnswerTo(m) ==
  IF ~Memory!Valid(m) THEN Memory!Refused
  ELSE IF m.write THEN Memory!Done(<<>>) ELSE Memory!Done(Memory!Items(m))
TableAfter(m) ==
  IF Memory!Valid(m) /\ m.write THEN [table EXCEPT ![m.kind] = Memory!Replaced(m)] ELSE table

LEMMA AnswersAreUnderstood ==
  ASSUME MemoryInv, NEW r, Serviceable(r), NEW o \in Handled(r)
  PROVE  /\ Understanding(r, o.response) = AnswerTo(Meant(r))
         /\ AnswerTo(Meant(r)) \in Understandings
         /\ o.response # Absent
         /\ o.table = TableAfter(Meant(r))
<1> DEFINE m == Meant(r)
<1>1. ServedAsMeant(r, o)
  BY RequestsAreServed
<1>2. r \in Requests /\ m.address = r.address /\ m.kind = KindOf(r) /\ (m.write <=> r.fc > 4)
  BY MeantFields DEF Serviceable
<1>3. r.fc \in Nat /\ r.address \in Nat /\ r.count \in Nat
  BY <1>2, RequestFields
<1>4. <<>> \in Seq(BOOLEAN)
  OBVIOUS
<1>5. \A v \in Seq(BOOLEAN) \cup Seq(Nat) : Memory!Done(v) \in Understandings
  BY DEF Memory!Done, Understandings
<1>6. Memory!Refused \in Understandings
  BY DEF Memory!Refused, Understandings
<1>7. CASE ~Memory!Valid(m)
  <2>1. IsRefusal(o)
    BY <1>1, <1>7 DEF ServedAsMeant
  <2> HIDE DEF m
  <2>. QED
    BY <1>6, <1>7, <2>1, RefusalIsUnderstood DEF m, AnswerTo, TableAfter
<1>8. CASE Memory!Valid(m) /\ m.write
  <2>1. o \in Written(m.kind, Memory!Replaced(m))
    BY <1>1, <1>8 DEF ServedAsMeant
  <2> HIDE DEF m
  <2>2. r.fc > 4
    BY <1>2, <1>8
  <2>3. Understanding(r, o.response) = Memory!Done(<<>>) /\ o.response # Absent
    BY <1>3, <2>1, <2>2, WriteIsUnderstood
  <2>4. o.table = [table EXCEPT ![m.kind] = Memory!Replaced(m)]
    BY <2>1 DEF Written, Outcome
  <2>5. AnswerTo(m) = Memory!Done(<<>>) /\ TableAfter(m) = o.table
    BY <1>8, <2>4 DEF AnswerTo, TableAfter
  <2>. QED
    BY <1>4, <1>5, <2>3, <2>5 DEF m
<1>9. CASE Memory!Valid(m) /\ ~m.write
  <2> DEFINE items == Memory!Items(m)
  <2>1. o \in Answer(IF r.fc \in {1, 2} THEN PackBits(items) ELSE PackWords(items))
    BY <1>1, <1>9 DEF ServedAsMeant
  <2>2. r.fc <= 4
    BY <1>2, <1>3, <1>9
  <2>3. m.count = IF r.fc \in 1 .. 4 /\ r.data = <<>> THEN r.count ELSE 0
    BY <1>3, <2>2 DEF Meant
  <2>4. Memory!Inside(m)
    BY <1>9 DEF Memory!Valid
  <2>5. m.count \in Nat /\ m.count >= 1
    <3>1. m.count \in Nat
      BY <1>3, <2>3
    <3> HIDE DEF m
    <3>. QED
      BY <2>4, <3>1 DEF Memory!Inside
  <2>6. m.count = r.count /\ (r.fc = 1 \/ r.fc = 2 \/ r.fc = 3 \/ r.fc = 4)
    <3> HIDE DEF m
    <3>. QED
      BY <2>3, <2>5
  <2>7. CASE r.fc \in {1, 2}
    <3>1. m.kind \in {"coil", "discrete"}
      BY <1>2, <2>7 DEF KindOf
    <3> HIDE DEF m, items
    <3>2. table[m.kind] \in Seq(BOOLEAN) /\ m.address \in Nat
      BY <1>2, <1>3, <3>1, TableFacts
    <3>3. items \in Seq(BOOLEAN) /\ Len(items) = r.count /\ items # <<>>
      BY <2>4, <2>5, <2>6, <3>2, ItemsFacts DEF items
    <3>4. o \in Answer(PackBits(items))
      BY <2>1, <2>7
    <3>5. /\ Understanding(r, o.response) = Memory!Done(items) /\ o.table = table
          /\ o.response # Absent
      BY <2>7, <3>3, <3>4, BitsAreUnderstood
    <3>. QED
      BY <1>5, <1>9, <3>3, <3>5 DEF m, items, AnswerTo, TableAfter
  <2>8. CASE r.fc \in {3, 4}
    <3>1. m.kind \in {"holding", "input"}
      BY <1>2, <2>8 DEF KindOf
    <3> HIDE DEF m, items
    <3>2. table[m.kind] \in Seq(Nat) /\ m.address \in Nat /\ Len(table[m.kind]) <= 127
      BY <1>2, <1>3, <3>1, TableFacts
    <3>3. items \in Seq(Nat) /\ Len(items) = m.count
      BY <2>4, <2>5, <3>2, ItemsFacts DEF items
    <3>4. Len(items) \in 1 .. 127
      <4>1. PICK a \in Nat, c \in Nat, n \in Nat :
              a = m.address /\ c = m.count /\ n = Len(table[m.kind])
        BY <2>5, <3>2
      <4>2. a + c <= n /\ c >= 1 /\ n <= 127
        BY <2>4, <3>2, <4>1 DEF Memory!Inside
      <4>3. c \in 1 .. 127
        BY <4>2
      <4>. QED
        BY <3>3, <4>1, <4>3
    <3>5. o \in Answer(PackWords(items)) /\ r.fc \notin {1, 2}
      BY <2>1, <2>8
    <3>6. /\ Understanding(r, o.response) = Memory!Done(items) /\ o.table = table
          /\ o.response # Absent
      BY <3>3, <3>4, <3>5, WordsAreUnderstood
    <3>. QED
      BY <1>5, <1>9, <3>3, <3>6 DEF m, items, AnswerTo, TableAfter
  <2>9. r.fc \in {1, 2} \/ r.fc \in {3, 4}
    BY <2>6
  <2>. QED
    BY <2>7, <2>8, <2>9, Zenon
<1>. QED
  BY <1>7, <1>8, <1>9

-----------------------------------------------------------------------------
(* The invariant, and the steps of the memory *)

LEMMA AnswersAreThere == ASSUME NEW x \in Understandings PROVE x # Absent
BY AbsentAssumption

\* The values of a write have the type of the table they go to.
LEMMA ValuesFacts ==
  ASSUME NEW r \in Requests
  PROVE  /\ r.fc \in {5, 15} => MeantValues(r) \in Seq(BOOLEAN)
         /\ r.fc \notin {5, 15} => MeantValues(r) \in Seq(Nat)
<1>1. PICK n \in Nat, b \in Nat, d \in Seq(Byte) : n = r.count /\ b = r.byteCount /\ d = r.data
  BY RequestFields
<1>2. /\ <<>> \in Seq(BOOLEAN) /\ <<>> \in Seq(Nat)
      /\ <<IsOn(d)>> \in Seq(BOOLEAN)
  BY DEF IsOn
<1>3. ASSUME NEW s, NEW k \in Nat PROVE UnpackBits(s, k) \in Seq(BOOLEAN)
  BY DEF UnpackBits, Bit
<1>4. ASSUME NEW c \in Nat, NEW e \in Nat, e = 2 * c, e <= Len(d)
      PROVE  UnpackWords(<<e>> \o d) \in Seq(Nat)
  <2> DEFINE s == <<e>> \o d
  <2>1. s[1] = e /\ \A i \in 1 .. Len(d) : s[i + 1] = d[i]
    OBVIOUS
  <2>2. \A i \in 1 .. Len(d) : d[i] \in Nat
    <3>1. \A x \in Byte : x \in Nat
      BY DEF Byte
    <3>. QED
      BY <3>1
  <2>3. e \div 2 = c
    BY <1>4
  <2>4. \A i \in 1 .. c : s[2 * i] \in Nat /\ s[2 * i + 1] \in Nat
    <3> TAKE i \in 1 .. c
    <3>1. 2 * i - 1 \in 1 .. Len(d) /\ 2 * i \in 1 .. Len(d) /\ (2 * i - 1) + 1 = 2 * i
      BY <1>4
    <3> HIDE DEF s
    <3>2. s[(2 * i - 1) + 1] = d[2 * i - 1] /\ s[2 * i + 1] = d[2 * i]
      BY <2>1, <3>1
    <3>. QED
      BY <2>2, <3>1, <3>2
  <2>5. UnpackWords(s) = [i \in 1 .. c |-> s[2 * i] * 256 + s[2 * i + 1]]
    BY <2>1, <2>3 DEF UnpackWords
  <2> HIDE DEF s
  <2>6. UnpackWords(s) \in Seq(Nat)
    BY <2>4, <2>5, SMTT(30)
  <2>. QED
    BY <2>6 DEF s
<1> DEFINE seen == MeantValues(r)
           fitting == Len(d) >= b
<1>5. r.fc = 5 => seen = <<>> \/ seen = <<IsOn(d)>>
  BY <1>1 DEF MeantValues
<1>6. ASSUME r.fc = 6, seen # <<>> PROVE Len(d) = 2 /\ seen = UnpackWords(<<2>> \o d)
  BY <1>1, <1>6 DEF MeantValues
<1>7. r.fc = 15 => seen = <<>> \/ seen = UnpackBits(<<b>> \o d, n)
  BY <1>1 DEF MeantValues
<1>8. ASSUME r.fc = 16, seen # <<>>
      PROVE  b = 2 * n /\ fitting /\ seen = UnpackWords(<<b>> \o d)
  BY <1>1, <1>8 DEF MeantValues
<1>9. r.fc \notin {5, 6, 15, 16} => seen = <<>>
  BY DEF MeantValues
<1>10. Len(d) = 2 => UnpackWords(<<2>> \o d) \in Seq(Nat)
  BY <1>4
<1>11. b = 2 * n /\ fitting => UnpackWords(<<b>> \o d) \in Seq(Nat)
  BY <1>4
<1>12. UnpackBits(<<b>> \o d, n) \in Seq(BOOLEAN)
  BY <1>3
<1> HIDE DEF seen, fitting
<1>13. /\ r.fc \in {5, 15} => seen \in Seq(BOOLEAN)
       /\ r.fc \notin {5, 15} => seen \in Seq(Nat)
  <2>1. r.fc \in {5, 15} => seen \in Seq(BOOLEAN)
    BY <1>2, <1>5, <1>7, <1>12
  <2>2. r.fc = 6 => seen \in Seq(Nat)
    BY <1>2, <1>6, <1>10, Zenon
  <2>3. r.fc = 16 => seen \in Seq(Nat)
    BY <1>2, <1>8, <1>11, Zenon
  <2>. QED
    BY <1>2, <1>9, <2>1, <2>2, <2>3
<1>. QED
  BY <1>13 DEF seen

LEMMA MeaningsAreThere == ASSUME NEW r \in Requests PROVE Meant(r) # Absent
<1> DEFINE count == CASE r.fc \in 1 .. 4 -> (IF r.data = <<>> THEN r.count ELSE 0)
               [] r.fc \in {5, 6} -> 1
               [] r.fc \in {15, 16} -> r.count
               [] OTHER -> 0
           write == r.fc > 4
<1>1. KindOf(r) \in Kinds
  BY DEF KindOf, Kinds
<1>2. count \in Nat
  <2>1. PICK n \in Nat : n = r.count
    BY RequestFields
  <2>2. PICK f \in Nat : f = r.fc
    BY RequestFields
  <2>. QED
    BY <2>1, <2>2
<1>3. write \in BOOLEAN
  OBVIOUS
<1>4. r.address \in Nat /\ MeantValues(r) \in Seq(BOOLEAN) \cup Seq(Nat)
  BY RequestFields, ValuesFacts
<1>5. Meant(r) = [kind |-> KindOf(r), write |-> write, address |-> r.address,
                  count |-> count, values |-> MeantValues(r)]
  BY Zenon DEF Meant
<1> HIDE DEF count, write
<1>6. Meant(r) \in Meanings
  <2>1. ASSUME NEW k \in Kinds, NEW w \in BOOLEAN, NEW a \in Nat, NEW c \in Nat,
               NEW v \in Seq(BOOLEAN) \cup Seq(Nat)
        PROVE  [kind |-> k, write |-> w, address |-> a, count |-> c, values |-> v] \in Meanings
    BY Zenon DEF Meanings
  <2>. QED
    BY <1>1, <1>2, <1>3, <1>4, <1>5, <2>1
<1>. QED
  BY <1>6, AbsentAssumption

\* A write that is carried out keeps the length and the type of its table.
LEMMA ReplacedFacts ==
  ASSUME NEW m, NEW S, table[m.kind] \in Seq(S), m.address \in Nat, m.count \in Nat,
         m.values \in Seq(S), Len(m.values) = m.count
  PROVE  /\ Memory!Replaced(m) \in Seq(S)
         /\ Len(Memory!Replaced(m)) = Len(table[m.kind])
<1>1. PICK t : t = table[m.kind]
  OBVIOUS
<1>2. PICK a \in Nat, c \in Nat : a = m.address /\ c = m.count
  OBVIOUS
<1>3. PICK v : v = m.values
  OBVIOUS
<1>4. Memory!Replaced(m) =
        [i \in 1 .. Len(t) |-> IF i \in a + 1 .. a + c THEN v[i - a] ELSE t[i]]
  <2>1. DOMAIN table[m.kind] = 1 .. Len(t)
    BY <1>1
  <2>. QED
    BY <1>1, <1>2, <1>3, <2>1, Zenon DEF Memory!Replaced
<1>5. t \in Seq(S) /\ v \in Seq(S) /\ Len(v) = c
  BY <1>1, <1>2, <1>3
<1>6. \A i \in 1 .. Len(t) : (IF i \in a + 1 .. a + c THEN v[i - a] ELSE t[i]) \in S
  BY <1>5
<1>. QED
  BY <1>1, <1>4, <1>5, <1>6

\* What a request leaves in the tables that clients may write.
LEMMA ServingKeepsTypes ==
  ASSUME MemoryInv, NEW r \in Requests, NEW t, t = TableAfter(Meant(r))
  PROVE  /\ t["coil"] \in Seq(BOOLEAN) /\ Len(t["coil"]) = Len(table["coil"])
         /\ t["holding"] \in Seq(Nat) /\ Len(t["holding"]) = Len(table["holding"])
<1> DEFINE m == Meant(r)
<1>1. /\ m.kind = KindOf(r) /\ m.address = r.address /\ (m.write <=> r.fc > 4)
      /\ m.values = MeantValues(r)
  BY MeantFields
<1>2. r.address \in Nat /\ r.count \in Nat /\ r.fc \in Nat
  BY RequestFields
<1>3. m.count = CASE r.fc \in 1 .. 4 -> (IF r.data = <<>> THEN r.count ELSE 0)
               [] r.fc \in {5, 6} -> 1
               [] r.fc \in {15, 16} -> r.count
               [] OTHER -> 0
  BY DEF Meant
<1>4. DOMAIN table = Kinds /\ "coil" \in Kinds /\ "holding" \in Kinds
  BY DEF MemoryInv, ServerInv, Kinds
<1> HIDE DEF m
<1>5. CASE ~(Memory!Valid(m) /\ m.write)
  <2>1. t = table
    BY <1>5 DEF m, TableAfter
  <2>. QED
    BY <2>1, TableFacts
<1>6. CASE Memory!Valid(m) /\ m.write
  <2>1. t = [table EXCEPT ![m.kind] = Memory!Replaced(m)]
    BY <1>6 DEF m, TableAfter
  <2>2. m.count >= 1 /\ Len(m.values) = m.count
    BY <1>6 DEF Memory!Valid, Memory!Inside
  <2>3. r.fc = 5 \/ r.fc = 6 \/ r.fc = 15 \/ r.fc = 16
    <3>1. r.fc > 4
      BY <1>1, <1>6
    <3>2. r.fc \notin {5, 6, 15, 16} => m.count = 0
      BY <1>2, <1>3, <3>1
    <3>. QED
      BY <2>2, <3>2
  <2>4. m.count \in Nat
    <3>1. m.count = 1 \/ m.count = r.count
      BY <1>3, <2>3
    <3>. QED
      BY <1>2, <3>1
  <2>5. CASE r.fc \in {5, 15}
    <3>1. m.kind = "coil" /\ m.values \in Seq(BOOLEAN)
      BY <1>1, <2>5, ValuesFacts DEF KindOf
    <3>2. table["coil"] \in Seq(BOOLEAN) /\ table["holding"] \in Seq(Nat)
      BY TableFacts
    <3>3. /\ Memory!Replaced(m) \in Seq(BOOLEAN)
          /\ Len(Memory!Replaced(m)) = Len(table["coil"])
      BY <1>1, <1>2, <2>2, <2>4, <3>1, <3>2, ReplacedFacts
    <3>4. t["coil"] = Memory!Replaced(m) /\ t["holding"] = table["holding"]
      BY <1>4, <2>1, <3>1
    <3>. QED
      BY <3>2, <3>3, <3>4
  <2>6. CASE r.fc \in {6, 16}
    <3>1. m.kind = "holding" /\ m.values \in Seq(Nat)
      BY <1>1, <2>6, ValuesFacts DEF KindOf
    <3>2. table["coil"] \in Seq(BOOLEAN) /\ table["holding"] \in Seq(Nat)
      BY TableFacts
    <3>3. /\ Memory!Replaced(m) \in Seq(Nat)
          /\ Len(Memory!Replaced(m)) = Len(table["holding"])
      BY <1>1, <1>2, <2>2, <2>4, <3>1, <3>2, ReplacedFacts
    <3>4. t["holding"] = Memory!Replaced(m) /\ t["coil"] = table["coil"]
      BY <1>4, <2>1, <3>1
    <3>. QED
      BY <3>2, <3>3, <3>4
  <2>. QED
    BY <2>3, <2>5, <2>6
<1>. QED
  BY <1>5, <1>6

LEMMA MemoryInitInv == Init => MemoryInv
<1> SUFFICES ASSUME Init PROVE MemoryInv
  OBVIOUS
<1>1. ServerInv
  BY ServerInitInv
<1>2. /\ table["coil"] = [i \in 1 .. CoilCount |-> FALSE]
      /\ table["discrete"] = [i \in 1 .. Len(Devices) |-> TRUE]
      /\ table["holding"] = [i \in 1 .. RegisterCount |-> 0]
      /\ table["input"] = <<>>
  BY DEF Init
<1>3. CoilCount \in Nat /\ CoilCount <= 255 /\ RegisterCount \in Nat /\ RegisterCount <= 127
  BY SizeAssumption
<1>4. /\ table["coil"] \in Seq(BOOLEAN) /\ Len(table["coil"]) <= 255
      /\ table["holding"] \in Seq(Nat) /\ Len(table["holding"]) <= 127
  BY <1>2, <1>3
<1>5. DOMAIN discreteAddress = DeviceNames /\ DOMAIN inputAddress = {}
  BY DEF Init
<1>6. DeviceNames \cap DiscreteNames = {}
  BY NameAssumption, DevicesFacts DEF DeviceNames
<1>7. /\ Len(table["input"]) = Cardinality(DOMAIN inputAddress)
      /\ Len(table["discrete"]) =
           Len(Devices) + Cardinality(DOMAIN discreteAddress \cap DiscreteNames)
  <2>1. Cardinality({}) = 0 /\ Len(<<>>) = 0
    BY FS_EmptySet
  <2>2. Len(table["discrete"]) = Len(Devices) /\ Len(Devices) \in Nat
    BY <1>2, DevicesFacts
  <2>3. DOMAIN discreteAddress \cap DiscreteNames = {}
    BY <1>5, <1>6
  <2>4. Len(table["input"]) = Cardinality(DOMAIN inputAddress)
    BY <1>2, <1>5, <2>1
  <2>5. Cardinality(DOMAIN discreteAddress \cap DiscreteNames) = 0
    BY <2>1, <2>3
  <2>. QED
    BY <2>2, <2>4, <2>5
<1>8. request = Absent /\ response = Absent
  BY DEF Init
<1>. QED
  BY <1>1, <1>4, <1>5, <1>7, <1>8 DEF MemoryInv

LEMMA SetDiscreteInputValueStep ==
  ASSUME MemoryInv, NEW name \in DeviceNames \cup DiscreteNames, NEW value \in BOOLEAN,
         SetDiscreteInputValue(name, value)
  PROVE  /\ MemoryInv'
         /\ \A k \in {"coil", "holding", "input"} : table'[k] = table[k]
         /\ Len(table'["discrete"]) >= Len(table["discrete"])
<1>1. ServerInv /\ ServerInv'
  BY SetDiscreteInputValueInv DEF MemoryInv
<1>2. /\ DOMAIN table = Kinds /\ Kinds = {"coil", "discrete", "holding", "input"}
      /\ table["discrete"] \in Seq(BOOLEAN)
  BY <1>1 DEF ServerInv, Kinds
<1>3. UNCHANGED <<inputAddress, request, context, response>>
  BY DEF SetDiscreteInputValue
<1>4. \A k \in {"coil", "holding", "input"} : table'[k] = table[k]
  BY <1>2 DEF SetDiscreteInputValue
<1> DEFINE named == DOMAIN discreteAddress \cap DiscreteNames
<1>5. CASE name \in DOMAIN discreteAddress
  <2>1. discreteAddress[name] + 1 \in 1 .. Len(table["discrete"]) /\ UNCHANGED discreteAddress
    BY <1>1, <1>2, <1>5 DEF ServerInv, AddressesFit, SetDiscreteInputValue
  <2>2. table'["discrete"] = [table["discrete"] EXCEPT ![discreteAddress[name] + 1] = value]
    BY <1>2, <1>5 DEF SetDiscreteInputValue
  <2>3. Len(table'["discrete"]) = Len(table["discrete"]) /\ Len(table["discrete"]) \in Nat
    BY <1>2, <2>1, <2>2
  <2>. QED
    BY <1>1, <1>3, <1>4, <2>1, <2>3 DEF MemoryInv, Understood
<1>6. CASE name \notin DOMAIN discreteAddress
  <2>1. table'["discrete"] = Append(table["discrete"], value)
    BY <1>2, <1>6 DEF SetDiscreteInputValue
  <2>2. Len(table'["discrete"]) = Len(table["discrete"]) + 1 /\ Len(table["discrete"]) \in Nat
    BY <1>2, <2>1
  <2>3. DOMAIN discreteAddress' = DOMAIN discreteAddress \cup {name}
    BY <1>6 DEF SetDiscreteInputValue
  <2>4. name \in DiscreteNames /\ name \notin named
    BY <1>1, <1>6 DEF ServerInv
  <2>5. IsFiniteSet(named) /\ Cardinality(named) \in Nat
    BY SizeAssumption, FS_Subset, FS_CardinalityType
  <2>6. Cardinality(named \cup {name}) = Cardinality(named) + 1
    BY <2>4, <2>5, FS_AddElement
  <2>7. DOMAIN discreteAddress' \cap DiscreteNames = named \cup {name}
    BY <2>3, <2>4
  <2>8. /\ DOMAIN discreteAddress' \subseteq DeviceNames \cup DiscreteNames
        /\ Len(table["discrete"]) = Len(Devices) + Cardinality(named)
    BY <2>3 DEF MemoryInv
  <2>9. Len(table'["discrete"]) =
          Len(Devices) + Cardinality(DOMAIN discreteAddress' \cap DiscreteNames)
    <3> HIDE DEF named
    <3>1. PICK c \in Nat, n \in Nat : c = Cardinality(named) /\ n = Len(Devices)
      BY <2>5, DevicesFacts
    <3>2. Len(table'["discrete"]) = n + (c + 1)
      BY <2>2, <2>8, <3>1
    <3>. QED
      BY <2>6, <2>7, <3>1, <3>2
  <2>10. Len(table'["discrete"]) >= Len(table["discrete"])
    BY <2>2
  <2>. QED
    BY <1>1, <1>3, <1>4, <2>8, <2>9, <2>10 DEF MemoryInv, Understood
<1>. QED
  BY <1>5, <1>6

LEMMA SetInputRegisterValueStep ==
  ASSUME MemoryInv, NEW name \in InputNames, NEW value \in Readings,
         SetInputRegisterValue(name, value)
  PROVE  /\ MemoryInv'
         /\ \A k \in {"coil", "holding", "discrete"} : table'[k] = table[k]
         /\ Len(table'["input"]) >= Len(table["input"])
<1>1. ServerInv /\ ServerInv'
  BY SetInputRegisterValueInv DEF MemoryInv
<1>2. /\ DOMAIN table = Kinds /\ Kinds = {"coil", "discrete", "holding", "input"}
      /\ table["input"] \in Seq(Nat) /\ value \in Nat
  BY <1>1, ValueAssumption DEF ServerInv, Kinds
<1>3. UNCHANGED <<discreteAddress, request, context, response>>
  BY DEF SetInputRegisterValue
<1>4. \A k \in {"coil", "holding", "discrete"} : table'[k] = table[k]
  BY <1>2 DEF SetInputRegisterValue
<1> DEFINE named == DOMAIN inputAddress
<1>5. CASE name \in named
  <2>1. inputAddress[name] + 1 \in 1 .. Len(table["input"]) /\ UNCHANGED inputAddress
    BY <1>1, <1>2, <1>5 DEF ServerInv, AddressesFit, SetInputRegisterValue
  <2>2. table'["input"] = [table["input"] EXCEPT ![inputAddress[name] + 1] = value]
    BY <1>2, <1>5 DEF SetInputRegisterValue
  <2>3. Len(table'["input"]) = Len(table["input"]) /\ Len(table["input"]) \in Nat
    BY <1>2, <2>1, <2>2
  <2>. QED
    BY <1>1, <1>3, <1>4, <2>1, <2>3 DEF MemoryInv, Understood
<1>6. CASE name \notin named
  <2>1. table'["input"] = Append(table["input"], value)
    BY <1>2, <1>6 DEF SetInputRegisterValue
  <2>2. Len(table'["input"]) = Len(table["input"]) + 1 /\ Len(table["input"]) \in Nat
    BY <1>2, <2>1
  <2>3. DOMAIN inputAddress' = named \cup {name}
    BY <1>6 DEF SetInputRegisterValue
  <2>4. named \subseteq InputNames /\ Len(table["input"]) = Cardinality(named)
    BY DEF MemoryInv
  <2>5. IsFiniteSet(named) /\ Cardinality(named) \in Nat
    BY <2>4, SizeAssumption, FS_Subset, FS_CardinalityType
  <2>6. Cardinality(named \cup {name}) = Cardinality(named) + 1
    BY <1>6, <2>5, FS_AddElement
  <2>7. /\ DOMAIN inputAddress' \subseteq InputNames
        /\ Len(table'["input"]) = Cardinality(DOMAIN inputAddress')
        /\ Len(table'["input"]) >= Len(table["input"])
    <3> HIDE DEF named
    <3>. QED
      BY <2>2, <2>3, <2>4, <2>5, <2>6
  <2>. QED
    BY <1>1, <1>3, <1>4, <2>7 DEF MemoryInv, Understood
<1>. QED
  BY <1>5, <1>6

LEMMA SmallWords == \A n \in Nat : n <= 255 => n \in Word
<1>1. 2^16 \in Nat /\ 2^16 > 255
  OBVIOUS
<1>. QED
  BY <1>1 DEF Word

\* Whatever the HMI asks for can be served: a whole table fits in a request.
LEMMA HMIReadsAreServiceable ==
  ASSUME MemoryInv, NEW k \in Kinds
  PROVE  Serviceable(HMIRead(k))
<1>1. Len(table[k]) \in Word
  <2>1. PICK t : t = table[k]
    OBVIOUS
  <2>2. \/ t \in Seq(BOOLEAN) /\ Len(t) <= 255
        \/ t \in Seq(Nat) /\ Len(t) <= 127
    BY <2>1, TableFacts DEF Kinds
  <2>3. Len(t) \in Nat /\ Len(t) <= 255
    BY <2>2
  <2>. QED
    BY <2>1, <2>3, SmallWords, Zenon
<1>2. ReadCode[k] \in Byte /\ ReadCode[k] # 16
  BY DEF ReadCode, Kinds, Byte
<1>3. 0 \in Word /\ 0 \in Byte /\ <<>> \in Seq(Byte)
  BY DEF Word, Byte
<1>4. ASSUME NEW f \in Byte, NEW n \in Word
      PROVE  [fc |-> f, address |-> 0, count |-> n, byteCount |-> 0, data |-> <<>>] \in Requests
  BY <1>3, Zenon DEF Requests
<1>5. HMIRead(k) \in Requests
  BY <1>1, <1>2, <1>4 DEF HMIRead
<1>6. HMIRead(k).fc = ReadCode[k]
  BY DEF HMIRead
<1>. QED
  BY <1>2, <1>5, <1>6 DEF Serviceable

LEMMA SendInv ==
  ASSUME MemoryInv, NEW r, Serviceable(r), Send(r)
  PROVE  MemoryInv'
<1>1. /\ UNCHANGED <<table, discreteAddress, inputAddress, response>>
      /\ request' = r /\ context' = r /\ response = Absent
  BY DEF Send
<1>2. ServerInv'
  BY <1>1 DEF MemoryInv, ServerInv, AddressesFit
<1>. QED
  BY <1>1, <1>2 DEF MemoryInv

LEMMA StutterInv == MemoryInv /\ UNCHANGED vars => MemoryInv'
<1> SUFFICES ASSUME MemoryInv, UNCHANGED vars PROVE MemoryInv'
  OBVIOUS
<1>1. UNCHANGED <<table, discreteAddress, inputAddress, request, context, response>>
  BY DEF vars
<1>2. ServerInv'
  BY <1>1 DEF MemoryInv, ServerInv, AddressesFit
<1>3. Understood' = Understood
  BY <1>1 DEF Understood
<1>. QED
  BY <1>1, <1>2, <1>3 DEF MemoryInv

LEMMA ReceiveInv == MemoryInv /\ Receive => MemoryInv'
<1> SUFFICES ASSUME MemoryInv, Receive PROVE MemoryInv'
  OBVIOUS
<1>1. /\ UNCHANGED <<table, discreteAddress, inputAddress, request>>
      /\ response # Absent /\ response' = Absent
  BY DEF Receive
<1>2. ServerInv'
  BY <1>1 DEF MemoryInv, ServerInv, AddressesFit
<1>. QED
  BY <1>1, <1>2 DEF MemoryInv

\* Handling a request: what the client will make of the answer, and the tables.
LEMMA HandlingStep ==
  ASSUME MemoryInv, ReceiveModbusData
  PROVE  /\ MemoryInv'
         /\ request # Absent /\ Meant(request) # Absent /\ request' = Absent
         /\ response' # Absent /\ Understood' = AnswerTo(Meant(request))
         /\ table' = TableAfter(Meant(request))
<1> DEFINE r == request
<1>1. PICK o \in Handled(r) : response' = o.response /\ table' = o.table
  BY DEF ReceiveModbusData
<1>2. /\ r # Absent /\ request' = Absent
      /\ UNCHANGED <<discreteAddress, inputAddress, context>>
  BY DEF ReceiveModbusData
<1>3. Serviceable(r) /\ context = r /\ r \in Requests
  BY <1>2 DEF MemoryInv, Serviceable
<1>4. /\ Understanding(r, o.response) = AnswerTo(Meant(r))
      /\ AnswerTo(Meant(r)) \in Understandings
      /\ o.response # Absent
      /\ table' = TableAfter(Meant(r))
  BY <1>1, <1>3, AnswersAreUnderstood
<1>5. Understood' = AnswerTo(Meant(r)) /\ Understood' # Absent
  <2>1. Understood' = Understanding(r, o.response)
    BY <1>1, <1>2, <1>3 DEF Understood, Understanding, CountFits
  <2>. QED
    BY <1>4, <2>1, AnswersAreThere
<1>6. response' # Absent
  BY <1>1, <1>4
<1>7. ServerInv'
  <2>1. /\ UNCHANGED <<table["discrete"], table["input"]>> /\ DOMAIN table' = Kinds
    BY <1>1, HandledKeepsInputs DEF MemoryInv
  <2>. QED
    BY <1>2, <2>1 DEF MemoryInv, ServerInv, AddressesFit
<1>8. /\ table'["coil"] \in Seq(BOOLEAN) /\ Len(table'["coil"]) = Len(table["coil"])
      /\ table'["holding"] \in Seq(Nat) /\ Len(table'["holding"]) = Len(table["holding"])
  BY <1>3, <1>4, ServingKeepsTypes
<1>9. UNCHANGED <<table["discrete"], table["input"]>>
  BY <1>1, HandledKeepsInputs DEF MemoryInv
<1>10. MemoryInv'
  BY <1>2, <1>5, <1>7, <1>8, <1>9 DEF MemoryInv
<1>. QED
  BY <1>2, <1>3, <1>4, <1>5, <1>6, <1>10, MeaningsAreThere

-----------------------------------------------------------------------------

\* What the memory sees of the PLC.
AskedNow == IF request = Absent THEN Absent ELSE Meant(request)
AnsweredNow == IF response = Absent THEN Absent ELSE Understood

\* A client puts a request on its way: the memory is asked.
LEMMA SendImplementsAsk ==
  ASSUME NEW r \in Requests, Send(r)
  PROVE  Memory!Ask
<1>1. /\ request = Absent /\ response = Absent /\ request' = r
      /\ UNCHANGED <<table, response>>
  BY DEF Send
<1>2. AskedNow = Absent /\ AnsweredNow = Absent /\ AnsweredNow' = Absent
  BY <1>1 DEF AskedNow, AnsweredNow
<1>3. r # Absent /\ AskedNow' = Meant(r) /\ AskedNow' # Absent
  BY <1>1, AbsentAssumption, MeaningsAreThere DEF AskedNow
<1>. QED
  BY <1>1, <1>2, <1>3 DEF Memory!Ask, AskedNow, AnsweredNow

\* The PLC handles a request: the memory serves it.
LEMMA HandlingImplementsServe ==
  ASSUME MemoryInv, ReceiveModbusData
  PROVE  Memory!Serve
<1> DEFINE m == Meant(request)
<1>1. /\ request # Absent /\ m # Absent /\ request' = Absent /\ response' # Absent
      /\ Understood' = AnswerTo(m) /\ table' = TableAfter(m)
  BY HandlingStep
<1>2. AskedNow = m /\ AskedNow # Absent /\ AskedNow' = Absent /\ AnsweredNow' = Understood'
  BY <1>1 DEF AskedNow, AnsweredNow
<1> HIDE DEF m
<1>3. IF ~Memory!Valid(AskedNow) THEN AnsweredNow' = Memory!Refused /\ UNCHANGED table
      ELSE IF AskedNow.write
           THEN /\ AnsweredNow' = Memory!Done(<<>>)
                /\ table' = [table EXCEPT ![AskedNow.kind] = Memory!Replaced(AskedNow)]
           ELSE AnsweredNow' = Memory!Done(Memory!Items(AskedNow)) /\ UNCHANGED table
  BY <1>1, <1>2 DEF AnswerTo, TableAfter
<1>. QED
  BY <1>2, <1>3 DEF Memory!Serve, AskedNow, AnsweredNow

\* The client takes the answer.
LEMMA ReceivingImplementsReceive ==
  ASSUME MemoryInv, Receive
  PROVE  Memory!Receive
<1>1. /\ response # Absent /\ response' = Absent /\ request = Absent
      /\ UNCHANGED <<table, request>> /\ Understood # Absent
  BY DEF Receive, MemoryInv
<1>2. /\ AnsweredNow # Absent /\ AnsweredNow' = Absent
      /\ AskedNow = Absent /\ AskedNow' = Absent
  BY <1>1 DEF AskedNow, AnsweredNow
<1>. QED
  BY <1>1, <1>2 DEF Memory!Receive, AskedNow, AnsweredNow

\* The request on its way and the answer to it are left alone.
LEMMA NothingAskedOrAnswered ==
  UNCHANGED <<request, context, response>> => UNCHANGED <<AskedNow, AnsweredNow>>
BY DEF AskedNow, AnsweredNow, Understood

\* A sensor's value or a timeout flag is stored: the memory is updated.
LEMMA StoringImplementsUpdate ==
  ASSUME MemoryInv, UNCHANGED <<request, context, response>>,
         \A k \in {"coil", "holding"} : table'[k] = table[k],
         \A k \in {"discrete", "input"} : Len(table'[k]) >= Len(table[k])
  PROVE  Memory!Update
BY NothingAskedOrAnswered DEF Memory!Update, AskedNow, AnsweredNow

\* Over the wire and back, a PLC whose clients write registers one by one keeps the
\* promise of ModbusMemory: an answer holds exactly the items asked for as they were
\* when the request was handled, a write changes exactly the items it names, and a
\* refused request changes nothing (the request branch of plc.cc:34).
THEOREM PLCServesMemory ==
  ASSUME RegistersOneByOne
  PROVE  Spec => ServesMemory
<1>1. Init => Memory!Init
  BY DEF Init, Memory!Init
<1>2. MemoryInv /\ [Next]_vars => MemoryInv' /\ [Memory!Next]_<<table, AskedNow, AnsweredNow>>
  <2> SUFFICES ASSUME MemoryInv, [Next]_vars
               PROVE  MemoryInv' /\ [Memory!Next]_<<table, AskedNow, AnsweredNow>>
    OBVIOUS
  <2>1. ASSUME NEW n \in DeviceNames \cup DiscreteNames, NEW b \in BOOLEAN,
               SetDiscreteInputValue(n, b)
        PROVE  MemoryInv' /\ Memory!Update
    <3>1. /\ MemoryInv' /\ \A k \in {"coil", "holding", "input"} : table'[k] = table[k]
          /\ Len(table'["discrete"]) >= Len(table["discrete"])
      BY <2>1, SetDiscreteInputValueStep
    <3>2. UNCHANGED <<request, context, response>> /\ table["input"] \in Seq(Nat)
      BY <2>1, TableFacts DEF SetDiscreteInputValue
    <3>3. \A k \in {"discrete", "input"} : Len(table'[k]) >= Len(table[k])
      BY <3>1, <3>2
    <3>. QED
      BY <3>1, <3>2, <3>3, StoringImplementsUpdate
  <2>2. ASSUME NEW n \in InputNames, NEW w \in Readings, SetInputRegisterValue(n, w)
        PROVE  MemoryInv' /\ Memory!Update
    <3>1. /\ MemoryInv' /\ \A k \in {"coil", "holding", "discrete"} : table'[k] = table[k]
          /\ Len(table'["input"]) >= Len(table["input"])
      BY <2>2, SetInputRegisterValueStep
    <3>2. UNCHANGED <<request, context, response>> /\ table["discrete"] \in Seq(BOOLEAN)
      BY <2>2, TableFacts DEF SetInputRegisterValue
    <3>3. \A k \in {"discrete", "input"} : Len(table'[k]) >= Len(table[k])
      BY <3>1, <3>2
    <3>. QED
      BY <3>1, <3>2, <3>3, StoringImplementsUpdate
  <2>3. ASSUME NEW r, Serviceable(r), Send(r) PROVE MemoryInv' /\ Memory!Ask
    BY <2>3, SendInv, SendImplementsAsk DEF Serviceable
  <2>4. HMIRequest => MemoryInv' /\ Memory!Ask
    BY <2>3, HMIReadsAreServiceable DEF HMIRequest
  <2>5. (\E r \in ClientRequests : Send(r)) => MemoryInv' /\ Memory!Ask
    BY <2>3, RequestAssumption, RegistersOneByOne DEF RegistersOneByOne, Serviceable
  <2>6. ReceiveModbusData => MemoryInv' /\ Memory!Serve
    BY HandlingStep, HandlingImplementsServe
  <2>7. Receive => MemoryInv' /\ Memory!Receive
    BY ReceiveInv, ReceivingImplementsReceive
  <2>8. UNCHANGED vars => MemoryInv' /\ UNCHANGED <<table, AskedNow, AnsweredNow>>
    BY StutterInv, NothingAskedOrAnswered DEF vars
  <2>. QED
    BY <2>1, <2>2, <2>4, <2>5, <2>6, <2>7, <2>8 DEF Next, Memory!Next
<1>. QED
  BY <1>1, <1>2, MemoryInitInv, PTL DEF Spec, ServesMemory, Memory!Spec, AskedNow, AnsweredNow
=============================================================================
