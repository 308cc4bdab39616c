--------------------------- MODULE ModbusExchange ---------------------------
(***************************************************************************)
(* A request and its reply, byte for byte: LightModbus builds the request, *)
(* the RTU link layer (mbrtu.c) frames it, or the library itself does in   *)
(* RTU mode; a slave answers; the line may change the answer; the frame is *)
(* checked and the reply parsed.                                           *)
(*                                                                         *)
(* The slave is external: it does what the protocol says, or refuses with  *)
(* an exception, or answers something of its own.  Who waits for whom, and *)
(* what becomes of a frame the link layer refuses, is ModbusMaster's       *)
(* subject.                                                                *)
(***************************************************************************)
EXTENDS LightModbus

CONSTANTS
    Requests,       \* what the builders are asked
    Address,        \* the slave's
    Seeds,          \* contents of the slave
    Deltas          \* what the line may add to a byte

\* The arguments of the builders.  `values' holds the words to write, the bytes of
\* the coils to write, or the two masks of function 22.
ASSUME RequestsAssumption ==
    \A r \in Requests :
      /\ r \in [function : Byte, index : Word, count : Word, values : Seq(Word)]
      /\ r.function \in {5, 6} => Len(r.values) = 1
      /\ r.function = 22 => Len(r.values) = 2
      /\ r.function = 16 => Len(r.values) >= r.count
      /\ r.function = 15 => /\ Len(r.values) >= (r.count + 7) \div 8
                            /\ \A k \in DOMAIN r.values : r.values[k] \in Byte
ASSUME SlaveAssumption ==
    Address \in 1 .. 254 /\ Seeds \subseteq Nat /\ Deltas \subseteq 1 .. 255

VARIABLES
    phase,          \* idle, built, sent, answered or done
    request,        \* the request buffer, <<>>: NULL
    padding,        \* of the buffer: 0, or 3 in RTU mode
    err,            \* the latest result
    frame,          \* on the line
    data,           \* handed to the data callback
    asked,          \* history: the arguments of the request,
    reply,          \* ... what kind of reply the slave gave, and the values it sent,
    damaged         \* ... and that the line changed it

vars == <<phase, request, padding, err, frame, data, asked, reply, damaged>>

NoRequest == [function |-> 0, index |-> 0, count |-> 0, values |-> <<>>]
NoReply == [kind |-> "none", values |-> <<>>]

\* What the link layer says of a frame it refuses.
MB_EIO == Error("link", "crc")

Init ==
    /\ phase = "idle"
    /\ request = <<>> /\ padding = 0
    /\ err = OK
    /\ frame = <<>> /\ data = <<>>
    /\ asked = NoRequest /\ reply = NoReply /\ damaged = FALSE

-----------------------------------------------------------------------------
(* The master's side *)

\* The buffer is allocated for the PDU and the padding.  A request that is refused
\* leaves it as it was, and no memory leaves it empty.
Build(r) ==
    /\ phase = "idle"
    /\ padding' \in {0, MODBUS_RTU_ADU_PADDING}
    /\ \/ /\ BuildError(r) # OK
          /\ err' = BuildError(r) /\ UNCHANGED phase
          /\ UNCHANGED <<request, asked>>
       \/ /\ BuildError(r) = OK
          /\ err' = Error("general", "alloc") /\ UNCHANGED phase
          /\ request' = <<>> /\ asked' = NoRequest
       \/ /\ BuildError(r) = OK
          /\ err' = OK /\ phase' = "built"
          /\ request' = IF padding' = 0 THEN Built(r) ELSE modbusPackRTU(Address, Built(r))
          /\ asked' = r
    /\ UNCHANGED <<frame, data, reply, damaged>>

Destroy ==
    /\ phase = "idle" /\ request # <<>>
    /\ request' = <<>> /\ asked' = NoRequest
    /\ UNCHANGED <<phase, padding, err, frame, data, reply, damaged>>

eMBRTUSend(address, pdu) ==
    LET framed == <<address>> \o pdu IN framed \o modbusWLE(usMBCRC16(framed))

\* In PDU mode the link layer frames the request.
Send ==
    /\ phase = "built"
    /\ phase' = "sent"
    /\ frame' = IF padding = 0 THEN eMBRTUSend(Address, request) ELSE request
    /\ UNCHANGED <<request, padding, err, data, asked, reply, damaged>>

\* Mutant of eMBRTUReceive: the frame is not checked.
eMBRTUReceiveAll(received) ==
    IF Len(received) >= MODBUS_RTU_ADU_MIN
    THEN modbusParseResponsePDU(request, SubSeq(received, 2, Len(received) - 2))
    ELSE Parsed(MB_EIO, <<>>)

\* The PDU of a frame that is long enough and whose checksum is right, its checksum
\* included, is parsed.
eMBRTUReceive(received) ==
    IF Len(received) >= MODBUS_RTU_ADU_MIN /\ usMBCRC16(received) = 0
    THEN modbusParseResponsePDU(request, SubSeq(received, 2, Len(received) - 2))
    ELSE Parsed(MB_EIO, <<>>)

Receive ==
    /\ phase = "answered"
    /\ phase' = "done"
    /\ LET result == IF padding = 0 THEN eMBRTUReceive(frame)
                     ELSE modbusParseResponseRTU(request, frame)
       IN  err' = result.err /\ data' = result.data
    /\ UNCHANGED <<request, padding, frame, asked, reply, damaged>>

\* The caller has the result; the request stays in its buffer.
Return ==
    /\ phase = "done"
    /\ phase' = "idle"
    /\ frame' = <<>> /\ data' = <<>> /\ reply' = NoReply /\ damaged' = FALSE
    /\ UNCHANGED <<request, padding, err, asked>>

-----------------------------------------------------------------------------
(* The slave and the line *)

\* What the slave takes a request for, by the protocol.
Understood(pdu) ==
    LET count == modbusRBE(pdu, 3)
    IN  [function |-> pdu[1], index |-> modbusRBE(pdu, 1),
         values |->
           CASE pdu[1] \in 1 .. 4 -> <<count>>
             [] pdu[1] = 5 -> <<IF count = 65280 THEN 1 ELSE count>>
             [] pdu[1] = 6 -> <<count>>
             [] pdu[1] = 15 -> [k \in 1 .. count |-> modbusMaskRead(pdu, 6, k - 1)]
             [] pdu[1] = 16 -> [k \in 1 .. count |-> modbusRBE(pdu, 4 + 2 * k)]
             [] pdu[1] = 22 -> <<count, modbusRBE(pdu, 5)>>]

\* What a request means.
Meant(r) ==
    [function |-> r.function, index |-> r.index,
     values |->
       CASE r.function \in 1 .. 4 -> <<r.count>>
         [] r.function = 5 -> <<IF r.values[1] = 0 THEN 0 ELSE 1>>
         [] r.function \in {6, 22} -> r.values
         [] r.function = 15 -> [k \in 1 .. r.count |-> modbusMaskRead(r.values, 0, k - 1)]
         [] r.function = 16 -> SubSeq(r.values, 1, r.count)]

\* The slave's contents: the value number k of those it is asked for.
Content(f, seed, k) ==
    LET word == (seed * k) % (U16_MAX + 1)
    IN  IF f \in {1, 2} THEN (word \div 16) % 2 ELSE word

SlaveValues(pdu, seed) ==
    IF pdu[1] \in 1 .. 4
    THEN [k \in 1 .. modbusRBE(pdu, 3) |-> Content(pdu[1], seed, k)] ELSE <<>>

\* Bits as bytes, the first in the lowest place.
Packed(bits) ==
    LET Bit(n) == IF n \in DOMAIN bits THEN bits[n] ELSE 0
    IN  [b \in 1 .. (Len(bits) + 7) \div 8 |->
           LET At(n) == Bit(8 * (b - 1) + n)
           IN  At(1) + 2 * At(2) + 4 * At(3) + 8 * At(4)
               + 16 * At(5) + 32 * At(6) + 64 * At(7) + 128 * At(8)]

Bytes(words) ==
    [b \in 1 .. 2 * Len(words) |-> modbusWBE(words[(b + 1) \div 2])[2 - (b % 2)]]

\* The reply the protocol asks for.
ProperReply(pdu, values) ==
    LET body == IF pdu[1] \in {1, 2} THEN Packed(values) ELSE Bytes(values)
    IN  CASE pdu[1] \in 1 .. 4 -> <<pdu[1], Len(body)>> \o body
          [] pdu[1] \in {15, 16} -> SubSeq(pdu, 1, 5)
          [] OTHER -> pdu

\* Replies that are not: cut short, too long, of another function, of another size or
\* for another index.
OddReplies(pdu) ==
    {SubSeq(pdu, 1, Len(pdu) - 1), Append(pdu, 0), [pdu EXCEPT ![1] = (@ % 6) + 1],
     [pdu EXCEPT ![2] = (@ + 1) % 256], [pdu EXCEPT ![3] = (@ + 1) % 256]}

Answers(from, pdu, kind, values) ==
    /\ phase' = "answered"
    /\ frame' = modbusPackRTU(from, pdu)
    /\ reply' = [kind |-> kind, values |-> values]
    /\ UNCHANGED <<request, padding, err, data, asked, damaged>>

\* The line carries the whole frame of the request to the slave.
Received == SubSeq(frame, 2, Len(frame) - 2)

SlaveAnswers ==
    /\ phase = "sent"
    /\ \E seed \in Seeds :
         LET values == SlaveValues(Received, seed)
             proper == ProperReply(Received, values)
         IN  \/ Answers(Address, proper, "proper", values)
             \/ \E pdu \in OddReplies(proper) : Answers(Address, pdu, "odd", <<>>)
             \/ Answers(Address, <<Received[1] + 128, 2>>, "exception", <<>>)

\* Another slave answers in its place; ModbusMaster has what the link layer does then.
StrangerAnswers ==
    /\ phase = "sent"
    /\ padding = MODBUS_RTU_ADU_PADDING
    /\ Answers(Address + 1, <<Received[1] + 128, 2>>, "stranger", <<>>)

\* A byte of the reply is changed, or two that follow each other.
Damage ==
    /\ phase = "answered" /\ ~damaged
    /\ \E n \in {1, 2, Len(frame) \div 2, Len(frame) - 1}, d \in Deltas, e \in Deltas \cup {0} :
         LET once == [frame EXCEPT ![n] = (@ + d) % 256]
         IN  frame' = [once EXCEPT ![n + 1] = (@ + e) % 256]
    /\ damaged' = TRUE
    /\ UNCHANGED <<phase, request, padding, err, data, asked, reply>>

Next ==
    \/ \E r \in Requests : Build(r)
    \/ Destroy \/ Send \/ Receive \/ Return
    \/ SlaveAnswers \/ StrangerAnswers \/ Damage

Spec == Init /\ [][Next]_vars

-----------------------------------------------------------------------------
(* Properties *)

TypeOK ==
    /\ phase \in {"idle", "built", "sent", "answered", "done"}
    /\ padding \in {0, MODBUS_RTU_ADU_PADDING}
    /\ request \in Seq(Byte) /\ frame \in Seq(Byte)
    /\ phase # "idle" => Len(request) - padding \in 1 .. MODBUS_PDU_MAX
    /\ err = MB_EIO \/ err \in [source : ErrorSource, error : ModbusError]
    /\ asked \in Requests \cup {NoRequest}

\* The slave finds the frame of every request intact, and takes it for the request
\* the builder was asked, at each limit of the functions: the link layer's table and
\* the library's shifts give the same checksum (master_func.impl.h:261-453,
\* mbrtu.c:168-207, base.h:494-510).
RequestIsUnderstood ==
    phase = "sent" =>
      LET unpacked == modbusUnpackRTU(frame)
      IN  /\ unpacked.error = "ok" /\ unpacked.address = Address
          /\ Understood(unpacked.pdu) = Meant(asked)

\* A reply as the protocol asks for it that arrives intact is accepted, and its values
\* reach the data callback, each under its index (master_func.impl.h:28-247).
ReplyIsUnderstood ==
    phase = "done" /\ reply.kind = "proper" /\ ~damaged =>
      /\ err = OK
      /\ Len(data) = Len(reply.values)
      /\ \A k \in DOMAIN data :
           data[k].index = asked.index + k - 1 /\ data[k].value = reply.values[k]

\* Whatever arrives: what reaches the data callback are the values asked for, no more
\* and no fewer, with indices that do not wrap, and no byte is read past the end of
\* the reply; a reply that is refused hands over nothing (master_func.impl.h:70-113).
DataIsTheReplys ==
    data # <<>> =>
      /\ err = OK
      /\ asked.function \in 1 .. 4
      /\ Len(data) = asked.count
      /\ \A k \in DOMAIN data :
           /\ data[k].index = asked.index + k - 1
           /\ data[k].at < Len(frame) - MODBUS_RTU_ADU_PADDING

\* A reply with one changed byte, or two that follow each other, is refused for its
\* checksum, by the link layer and by the library, and no other is (mbrtu.c:145,
\* base.h:477).
DamageIsNoticed ==
    phase = "done" => (damaged <=> err \in {MB_EIO, Error("response", "crc")})

=============================================================================
