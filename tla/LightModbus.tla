---------------------------- MODULE LightModbus -----------------------------
(***************************************************************************)
(* LightModbus, the library that builds the master's requests and parses   *)
(* the replies (17_modbus_rtu, lightmodbus): a request and a reply are     *)
(* PDUs, sequences of bytes, in the library's own mode for RTU with an     *)
(* address and a checksum around them.                                     *)
(***************************************************************************)
EXTENDS Crc16

MODBUS_PDU_MAX == 253
MODBUS_RTU_ADU_MIN == 4
MODBUS_RTU_ADU_MAX == 256
MODBUS_RTU_ADU_PADDING == 3

-----------------------------------------------------------------------------
(* Errors, words and bits *)

\* ModbusErrorInfo
ErrorSource == {"general", "request", "response"}
ModbusError == {"ok", "length", "alloc", "function", "count", "index", "value", "range",
                "crc", "address", "other"}
Error(source, error) == [source |-> source, error |-> error]
OK == Error("general", "ok")

\* The byte n places after the beginning of p.  Past the end of p is whatever its
\* buffer holds, for which 0 stands: DataIsTheReplys says that none is read there.
ByteAt(p, n) == IF n < Len(p) THEN p[n + 1] ELSE 0

modbusRBE(p, n) == 256 * ByteAt(p, n) + ByteAt(p, n + 1)
modbusWBE(w) == <<w \div 256, w % 256>>
modbusRLE(p, n) == 256 * ByteAt(p, n + 1) + ByteAt(p, n)
modbusWLE(w) == <<w % 256, w \div 256>>
modbusMaskRead(p, start, n) == (ByteAt(p, start + n \div 8) \div 2^(n % 8)) % 2
modbusBitsToBytes(n) == (n + 7) \div 8
modbusCheckRangeU16(index, count) == index > U16_MAX - count + 1

U8(n) == n % 256

-----------------------------------------------------------------------------
(* Builders: an error, or the PDU *)

MaxCount(f) ==
    CASE f \in {1, 2} -> 2000 [] f \in {3, 4} -> 125 [] f = 15 -> 1968
      [] f = 16 -> 123

\* Mutant of CountError: the count is not bounded.
CountErrorUnbounded(r) ==
    IF r.count = 0 THEN Error("general", "count")
    ELSE IF modbusCheckRangeU16(r.index, r.count) THEN Error("general", "range")
    ELSE OK

CountError(r) ==
    IF r.count = 0 \/ r.count > MaxCount(r.function) THEN Error("general", "count")
    ELSE IF modbusCheckRangeU16(r.index, r.count) THEN Error("general", "range")
    ELSE OK

BuildError(r) ==
    CASE r.function \in {1, 2, 3, 4, 15, 16} -> CountError(r)
      [] r.function \in {5, 6, 22} -> OK
      [] OTHER -> Error("general", "function")

\* Functions 1 to 6, 15, 16 and 22.
BuildRead(r) == <<r.function>> \o modbusWBE(r.index) \o modbusWBE(r.count)

\* The value that switches a coil on.
COIL_ON == 65280

BuildWrite(r) ==
    LET value == IF r.function = 6 THEN r.values[1]
                 ELSE IF r.values[1] # 0 THEN COIL_ON ELSE 0
    IN  <<r.function>> \o modbusWBE(r.index) \o modbusWBE(value)

BuildWriteHead(r, dataLength) ==
    <<r.function>> \o modbusWBE(r.index) \o modbusWBE(r.count) \o <<dataLength>>

\* Full bytes are copied; of the last one the remaining bits are.
BuildWriteCoils(r) ==
    LET dataLength == U8(modbusBitsToBytes(r.count))
        n == r.count \div 8
    IN  BuildWriteHead(r, dataLength)
          \o [k \in 1 .. dataLength |->
                IF k <= n THEN r.values[k] ELSE r.values[k] % (2^(r.count % 8))]

BuildWriteRegisters(r) ==
    LET dataLength == U8(2 * r.count)
    IN  BuildWriteHead(r, dataLength)
          \o [k \in 1 .. dataLength |-> modbusWBE(r.values[(k + 1) \div 2])[2 - (k % 2)]]

BuildMask(r) ==
    <<22>> \o modbusWBE(r.index) \o modbusWBE(r.values[1]) \o modbusWBE(r.values[2])

Built(r) ==
    CASE r.function \in 1 .. 4 -> BuildRead(r)
      [] r.function \in {5, 6} -> BuildWrite(r)
      [] r.function = 15 -> BuildWriteCoils(r)
      [] r.function = 16 -> BuildWriteRegisters(r)
      [] r.function = 22 -> BuildMask(r)

-----------------------------------------------------------------------------
(* Parsers: an error, and what is handed to the data callback; `at' is the *)
(* last byte of the reply that was read for it                             *)

Parsed(err, data) == [err |-> err, data |-> data]
Reject(source, code) == Parsed(Error(source, code), <<>>)
Accept(data) == Parsed(OK, data)

DataType(f) ==
    CASE f = 1 -> "coil" [] f = 2 -> "discrete input"
      [] f = 3 -> "holding register" [] f = 4 -> "input register"

\* Mutant of Reported: words have their low byte first.
ReportedSwapped(f, index, count, response) ==
    [k \in 1 .. count |->
       [type |-> DataType(f), index |-> (index + k - 1) % (U16_MAX + 1),
        value |-> IF f \in {1, 2} THEN modbusMaskRead(response, 2, k - 1)
                  ELSE modbusRLE(response, 2 * k),
        at |-> IF f \in {1, 2} THEN 2 + (k - 1) \div 8 ELSE 2 * k + 1]]

\* What function f reports of the reply: a bit or a word for each of count.
Reported(f, index, count, response) ==
    [k \in 1 .. count |->
       [type |-> DataType(f), index |-> (index + k - 1) % (U16_MAX + 1),
        value |-> IF f \in {1, 2} THEN modbusMaskRead(response, 2, k - 1)
                  ELSE modbusRBE(response, 2 * k),
        at |-> IF f \in {1, 2} THEN 2 + (k - 1) \div 8 ELSE 2 * k + 1]]

\* Mutant of LengthFits: what the reply says of itself is enough.
LengthDeclared(response, expected) == response[2] = expected

LengthFits(response, expected) == response[2] = expected /\ Len(response) = expected + 2

ParseRead(f, request, response) ==
    LET index == modbusRBE(request, 1)
        count == modbusRBE(request, 3)
        expected == U8(IF f \in {1, 2} THEN modbusBitsToBytes(count) ELSE 2 * count)
    IN  IF Len(request) # 5 THEN Reject("request", "length")
        ELSE IF Len(response) < 3 THEN Reject("response", "length")
        ELSE IF count = 0 \/ count > MaxCount(f) THEN Reject("request", "count")
        ELSE IF modbusCheckRangeU16(index, count) THEN Reject("request", "range")
        ELSE IF ~LengthFits(response, expected) THEN Reject("response", "length")
        ELSE Accept(Reported(f, index, count, response))

\* The reply to a single write repeats it.
ParseWrite(request, response) ==
    IF Len(request) # 5 THEN Reject("request", "length")
    ELSE IF Len(response) # 5 THEN Reject("response", "length")
    ELSE IF modbusRBE(request, 1) # modbusRBE(response, 1) THEN Reject("response", "index")
    ELSE IF modbusRBE(request, 3) # modbusRBE(response, 3) THEN Reject("response", "value")
    ELSE Accept(<<>>)

\* The reply to a multiple write repeats its head.
ParseWriteMany(f, request, response) ==
    LET index == modbusRBE(request, 1)
        count == modbusRBE(request, 3)
        expected == IF f = 15 THEN modbusBitsToBytes(count) ELSE 2 * count
    IN  IF Len(request) < 7 THEN Reject("request", "length")
        ELSE IF Len(response) # 5 THEN Reject("response", "length")
        ELSE IF index # modbusRBE(response, 1) THEN Reject("response", "index")
        ELSE IF count # modbusRBE(response, 3) THEN Reject("response", "count")
        ELSE IF count = 0 \/ count > MaxCount(f) THEN Reject("request", "count")
        ELSE IF Len(request) # expected + 6 THEN Reject("request", "length")
        ELSE IF modbusCheckRangeU16(index, count) THEN Reject("request", "range")
        ELSE Accept(<<>>)

ParseMask(request, response) ==
    IF Len(request) # 7 THEN Reject("request", "length")
    ELSE IF Len(response) # 7 THEN Reject("response", "length")
    ELSE IF request # response THEN Reject("response", "other")
    ELSE Accept(<<>>)

\* modbusMasterDefaultFunctions
ParseFunction(f, request, response) ==
    CASE f \in 1 .. 4 -> ParseRead(f, request, response)
      [] f \in {5, 6} -> ParseWrite(request, response)
      [] f \in {15, 16} -> ParseWriteMany(f, request, response)
      [] f = 22 -> ParseMask(request, response)
      [] OTHER -> Reject("general", "function")

\* An exception is no error, whatever function it names.
IsException(response) == response[1] >= 128 /\ Len(response) = 2

modbusParseResponsePDU(request, response) ==
    IF U8(Len(request)) \notin 1 .. MODBUS_PDU_MAX THEN Reject("request", "length")
    ELSE IF U8(Len(response)) \notin 1 .. MODBUS_PDU_MAX THEN Reject("response", "length")
    ELSE IF IsException(response) THEN Accept(<<>>)
    ELSE IF response[1] # request[1] THEN Reject("response", "function")
    ELSE ParseFunction(response[1], request, response)

-----------------------------------------------------------------------------
(* Frames of the library's RTU mode *)

FrameLengthOk(length) == length \in MODBUS_RTU_ADU_MIN .. MODBUS_RTU_ADU_MAX

\* The PDU with the slave's address before it and the checksum after it.
modbusPackRTU(address, pdu) ==
    LET frame == <<address>> \o pdu IN frame \o modbusWLE(modbusCRC(frame))

\* An error, or the address and the PDU.
modbusUnpackRTU(frame) ==
    LET length == Len(frame)
    IN  IF ~FrameLengthOk(length)
        THEN [error |-> "length", address |-> 0, pdu |-> <<>>]
        ELSE IF modbusCRC(SubSeq(frame, 1, length - 2)) # modbusRLE(frame, length - 2)
        THEN [error |-> "crc", address |-> frame[1], pdu |-> <<>>]
        ELSE [error |-> "ok", address |-> frame[1], pdu |-> SubSeq(frame, 2, length - 2)]

modbusParseResponseRTU(request, response) ==
    LET asked == modbusUnpackRTU(request)
        answer == modbusUnpackRTU(response)
    IN  IF asked.error # "ok" THEN Reject("request", asked.error)
        ELSE IF answer.error # "ok" THEN Reject("response", answer.error)
        ELSE IF asked.address = 0 \/ asked.address # answer.address
             THEN Reject("response", "address")
        ELSE modbusParseResponsePDU(asked.pdu, answer.pdu)

=============================================================================
