------------------------------- MODULE Codec -------------------------------
(***************************************************************************)
(* QMI.c, byte by byte: the QMUX header, TLVs, the requests the driver     *)
(* fills and the answers it parses.  QMIExchange puts them to use.         *)
(*                                                                         *)
(* A message is a sequence of bytes, an offset the C code's, from 0. What  *)
(* GetTLV reads beyond the end of a message, when a TLV claims more bytes  *)
(* than the message has, is not modelled.                                  *)
(***************************************************************************)
EXTENDS Integers, Sequences, SequencesExt

ENOMEM == -12
EFAULT == -14
EINVAL == -22
ENOMSG == -42
ENODATA == -61

QMICTL == 0
QMIWDS == 1
QMIDMS == 2
QMIWDA == 26

(* Bytes and little-endian words. *)
Byte(b, i) == b[i + 1]
Word(b, i) == Byte(b, i) + 256 * Byte(b, i + 1)
U16(n) == <<n % 256, n \div 256>>
U16Max == 65535
From(b, i) == SubSeq(b, i + 1, Len(b))
Slice(b, i, n) == SubSeq(b, i + 1, i + n)

-----------------------------------------------------------------------------
(* The QMUX header. *)

QMUXHeaderSize == 6

\* Positive: the size of the header. *clientID is in the second field.
ParseQMUX(b) ==
    CASE Len(b) < 12 -> [result |-> ENOMEM, clientID |-> 0]
      [] Len(b) >= 12 /\ ~(/\ Byte(b, 0) = 1
                           /\ Word(b, 1) = Len(b) - 1
                           /\ Byte(b, 3) = 128) ->
            [result |-> EINVAL, clientID |-> 0]
      [] OTHER -> [result |-> QMUXHeaderSize,
                   clientID |-> 256 * Byte(b, 5) + Byte(b, 4)]

\* The header of a buffer of size bytes.
FillQMUX(clientID, size) ==
    <<1>> \o U16(size - 1) \o <<0, clientID % 256, clientID \div 256>>

(* The head of a message, without the header: QMICTL has one byte for the  *)
(* transaction number, the services have two.                              *)
CtlHead(transactionID, id, length) ==
    <<0, transactionID % 256>> \o U16(id) \o U16(length)
ServiceHead(transactionID, id, length) ==
    <<0>> \o U16(transactionID) \o U16(id) \o U16(length)

-----------------------------------------------------------------------------
(* The TLVs of a message. *)

\* Variant: on to the next TLV without its length field.
GetTLVStep2(msg, type, room) ==
    LET at[pos \in 0..U16Max] ==
            IF pos + 3 >= Len(msg) THEN [result |-> ENOMSG, data |-> <<>>]
            ELSE LET tlvSize == Word(msg, pos + 1) IN
                 IF Byte(msg, pos) = type
                 THEN IF room < tlvSize
                      THEN [result |-> ENOMEM, data |-> <<>>]
                      ELSE [result |-> tlvSize,
                            data |-> Slice(msg, pos + 3, tlvSize)]
                 ELSE at[(pos + tlvSize + 2) % 65536]
    IN  at[4]

\* The first TLV of a type, into room bytes. pos has 16 bits.
GetTLV(msg, type, room) ==
    LET at[pos \in 0..U16Max] ==
            IF pos + 3 >= Len(msg) THEN [result |-> ENOMSG, data |-> <<>>]
            ELSE LET tlvSize == Word(msg, pos + 1) IN
                 IF Byte(msg, pos) = type
                 THEN IF room < tlvSize
                      THEN [result |-> ENOMEM, data |-> <<>>]
                      ELSE [result |-> tlvSize,
                            data |-> Slice(msg, pos + 3, tlvSize)]
                 ELSE at[(pos + tlvSize + 3) % 65536]
    IN  at[4]

\* 0, a QMI error code (positive), or a negative errno.  Of the code's two
\* bytes get_unaligned of a char * takes the first one.
ValidQMIMessage(msg) ==
    LET mandTLV == GetTLV(msg, 2, 4) IN
    IF mandTLV.result # 4 THEN ENOMSG
    ELSE IF Word(mandTLV.data, 0) # 0 THEN Byte(mandTLV.data, 2) ELSE 0

GetQMIMessageID(msg) == IF Len(msg) < 2 THEN ENODATA ELSE Word(msg, 0)

-----------------------------------------------------------------------------
(* The requests. *)

QMICTLGetClientIDReqSize == QMUXHeaderSize + 10
QMICTLReleaseClientIDReqSize == QMUXHeaderSize + 11
QMICTLReadyReqSize == QMUXHeaderSize + 6
QMIWDSSetEventReportReqSize == QMUXHeaderSize + 15
QMIWDSGetPKGSRVCStatusReqSize == QMUXHeaderSize + 7
QMIDMSGetMEIDReqSize == QMUXHeaderSize + 7
QMIWDASetDataFormatReqSize == QMUXHeaderSize + 25
QMICTLSyncReqSize == QMUXHeaderSize + 6

QMICTLGetClientIDReq(transactionID, serviceType) ==
    CtlHead(transactionID, 34, 4) \o <<1>> \o U16(1) \o <<serviceType>>

QMICTLReleaseClientIDReq(transactionID, clientID) ==
    CtlHead(transactionID, 35, 5) \o <<1>> \o U16(2) \o U16(clientID)

QMICTLReadyReq(transactionID) == CtlHead(transactionID, 33, 0)

\* Variant: the length counts the TLV's value, not its type and length.
QMIWDSSetEventReportReqShort(transactionID) ==
    ServiceHead(transactionID, 1, 5) \o <<17>> \o U16(5)
        \o <<1, 255, 0, 0, 0>>

QMIWDSSetEventReportReq(transactionID) ==
    ServiceHead(transactionID, 1, 8) \o <<17>> \o U16(5)
        \o <<1, 255, 0, 0, 0>>

QMIWDSGetPKGSRVCStatusReq(transactionID) == ServiceHead(transactionID, 34, 0)

QMIDMSGetMEIDReq(transactionID) == ServiceHead(transactionID, 37, 0)

\* No QoS header, raw IP, no aggregation.
QMIWDASetDataFormatReq(transactionID) ==
    ServiceHead(transactionID, 32, 18) \o <<16>> \o U16(1) \o <<0>>
        \o <<17>> \o U16(4) \o <<2, 0, 0, 0>>
        \o <<19>> \o U16(4) \o <<0, 0, 0, 0>>

QMICTLSyncReq(transactionID) == CtlHead(transactionID, 39, 0)

\* The driver never sends it; what it fills in is checked with the others.
QMICTLSetDataFormatReqSize == QMUXHeaderSize + 15
QMICTLSetDataFormatReq(transactionID) ==
    CtlHead(transactionID, 38, 9) \o <<1>> \o U16(1) \o <<0>>
        \o <<16>> \o U16(2) \o U16(2)

-----------------------------------------------------------------------------
(* The answers. Each parser gets a whole message, header included.         *)

\* What the parsers share: the right ID and a result of 0.
Accepted(msg, id) == GetQMIMessageID(msg) = id /\ ValidQMIMessage(msg) = 0

CtlBody(b) == From(b, QMUXHeaderSize + 2)
ServiceBody(b) == From(b, QMUXHeaderSize + 3)

QMICTLGetClientIDResp(b) ==
    LET tlv == GetTLV(CtlBody(b), 1, 2) IN
    IF Len(b) < QMUXHeaderSize + 2 THEN [result |-> ENOMEM, clientID |-> 0]
    ELSE IF Accepted(CtlBody(b), 34) /\ tlv.result = 2
    THEN [result |-> 0, clientID |-> Word(tlv.data, 0)]
    ELSE [result |-> EFAULT, clientID |-> 0]

QMICTLReleaseClientIDResp(b) ==
    IF Len(b) < QMUXHeaderSize + 2 THEN ENOMEM
    ELSE IF Accepted(CtlBody(b), 35) THEN 0 ELSE EFAULT

\* A QMI error of the device comes back as it is: a positive number.
QMICTLSyncResp(b) ==
    IF Len(b) < QMUXHeaderSize + 2 THEN ENOMEM
    ELSE IF GetQMIMessageID(CtlBody(b)) # 39 THEN EFAULT
    ELSE ValidQMIMessage(CtlBody(b))

QMIDMSGetMEIDResp(b) ==
    LET tlv == GetTLV(ServiceBody(b), 18, 14) IN
    IF Len(b) < QMUXHeaderSize + 3 THEN [result |-> ENOMEM, meid |-> <<>>]
    ELSE IF Accepted(ServiceBody(b), 37) /\ tlv.result = 14
    THEN [result |-> 0, meid |-> tlv.data]
    ELSE [result |-> EFAULT, meid |-> <<>>]

\* Variant: a refusal still counts as the protocol that was asked for.
QMIWDASetDataFormatRespTrusting(b) ==
    LET tlv == GetTLV(ServiceBody(b), 17, 4) IN
    IF Len(b) < QMUXHeaderSize + 3 THEN ENOMEM
    ELSE IF GetQMIMessageID(ServiceBody(b)) # 32 THEN EFAULT
    ELSE IF tlv.result # 4 THEN 0
    ELSE Byte(tlv.data, 0)

\* The first byte of the link protocol, or 0 when there is none.
QMIWDASetDataFormatResp(b) ==
    LET tlv == GetTLV(ServiceBody(b), 17, 4) IN
    IF Len(b) < QMUXHeaderSize + 3 THEN ENOMEM
    ELSE IF GetQMIMessageID(ServiceBody(b)) # 32 THEN EFAULT
    ELSE IF ValidQMIMessage(ServiceBody(b)) # 0 \/ tlv.result # 4 THEN 0
    ELSE Byte(tlv.data, 0)

(* Counters of an event report: TLV type, and room for its value.          *)
Counters == [t \in (16..21) \cup {25, 26} |-> IF t \in 16..21 THEN 4 ELSE 8]

\* Without a value a counter is all ones, which QMIWDSCallback ignores.
Unknown(t) == [i \in 1..Counters[t] |-> 255]

\* bLink and bReconfigure are the values before the call.
QMIWDSEventResp(b, bLink, bReconfigure) ==
    LET msg == ServiceBody(b)
        status == GetTLV(msg, 1, 2)
        value(t) == GetTLV(msg, t, Counters[t])
        none == [t \in DOMAIN Counters |-> Unknown(t)]
        as(result, link, reconfigure, counters) ==
            [result |-> result, link |-> link,
             reconfigure |-> reconfigure, counters |-> counters]
    IN  CASE Len(b) < QMUXHeaderSize + 3 ->
                as(ENOMEM, bLink, bReconfigure, none)
          [] GetQMIMessageID(msg) = 1 ->
                as(0, bLink, bReconfigure,
                   [t \in DOMAIN Counters |->
                       value(t).data \o From(Unknown(t), Len(value(t).data))])
          [] GetQMIMessageID(msg) = 34 ->
                as(IF status.result < 0 THEN status.result ELSE 0,
                   IF status.result >= 1 THEN Byte(status.data, 0) = 2
                                         ELSE bLink,
                   IF status.result = 2 THEN Byte(status.data, 1) = 1
                                        ELSE bReconfigure, none)
          [] OTHER -> as(EFAULT, bLink, bReconfigure, none)
=============================================================================
