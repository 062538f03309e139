---------------------------- MODULE QMIExchange ----------------------------
(***************************************************************************)
(* One request of the driver and the device's answer to it, as bytes: what *)
(* WriteSync puts on the wire, what ReadCallback reads of the answer to    *)
(* find its waiter, what the caller gets out of it; and the frames of the  *)
(* network interface, whose form one of the answers decides.               *)
(***************************************************************************)
EXTENDS Codec

CONSTANTS
    Clients,        \* client IDs the driver holds besides QMICTL's
    Transactions,   \* numbers QMIGetTransactionID draws
    TLVs,           \* TLVs a device may put in an answer: [type, value]
    MaxTLVs         \* bound: TLVs in one answer

\* The services' clients have 16-bit IDs; 0 is QMICTL's.
ASSUME ClientsAreIDs ==
    /\ Clients \subseteq 1..U16Max
    /\ Transactions \subseteq 1..255

\* An answer's TLVs as bytes.
TLVBytes(tlv) == <<tlv.type>> \o U16(Len(tlv.value)) \o tlv.value
Body(a) == FlattenSeq([i \in DOMAIN a.tlvs |-> TLVBytes(a.tlvs[i])])

(* What a device may say is made of bytes and fits, behind a head of at    *)
(* most 13 bytes, into the read URB (0x1000 bytes).                        *)
ASSUME AnswersFit ==
    /\ MaxTLVs \in Nat
    /\ TLVs \subseteq [type : 0..255, value : Seq(0..255)]
    /\ \A tlvs \in BoundedSeq(TLVs, MaxTLVs) :
           Len(Body([tlvs |-> tlvs])) <= 4096 - 13

VARIABLES
    asked,          \* the request under way, or Nothing
    wire,           \* its bytes
    answer,         \* the device's answer, id and TLVs, or Nothing
    reply,          \* its bytes
    heard,          \* what ReadCallback read of them: client, transaction
    got,            \* what the caller got, or Nothing
    mbRawIPMode,
    bLinkState,     \* ~NO_NDIS_CONNECTION
    deviceRawIP,    \* the device's own format of frames
    misread         \* history: its refusal of raw IP looks like a success

vars == <<asked, wire, answer, reply, heard, got, mbRawIPMode, bLinkState,
          deviceRawIP, misread>>

Nothing == [kind |-> "nothing"]
ServiceOf(clientID) == clientID % 256

\* Service requests carry a constant number, QMICTL's a drawn one.
Requests ==
    LET service(kind, type, number) ==
            {[kind |-> kind, client |-> c, number |-> number, of |-> 0] :
                c \in {k \in Clients : ServiceOf(k) = type}}
        control(kind, args) ==
            [kind : {kind}, client : {QMICTL}, number : Transactions, of : args]
    IN  UNION {control("getClient", {QMIWDS, QMIDMS, QMIWDA}),
               control("release", Clients),
               control("ready", {0}),
               control("sync", {0}),
               control("ctlFormat", {0}),
               service("setEvents", QMIWDS, 1),
               service("getStatus", QMIWDS, 2),
               service("getMEID", QMIDMS, 1),
               service("setFormat", QMIWDA, 1)}

\* The buffer a caller allocates, without the header.
Size(r) ==
    CASE r.kind = "getClient" -> QMICTLGetClientIDReqSize
      [] r.kind = "release" -> QMICTLReleaseClientIDReqSize
      [] r.kind = "ready" -> QMICTLReadyReqSize
      [] r.kind = "sync" -> QMICTLSyncReqSize
      [] r.kind = "ctlFormat" -> QMICTLSetDataFormatReqSize
      [] r.kind = "setEvents" -> QMIWDSSetEventReportReqSize
      [] r.kind = "getStatus" -> QMIWDSGetPKGSRVCStatusReqSize
      [] r.kind = "getMEID" -> QMIDMSGetMEIDReqSize
      [] r.kind = "setFormat" -> QMIWDASetDataFormatReqSize

Filled(r) ==
    CASE r.kind = "getClient" -> QMICTLGetClientIDReq(r.number, r.of)
      [] r.kind = "release" -> QMICTLReleaseClientIDReq(r.number, r.of)
      [] r.kind = "ready" -> QMICTLReadyReq(r.number)
      [] r.kind = "sync" -> QMICTLSyncReq(r.number)
      [] r.kind = "ctlFormat" -> QMICTLSetDataFormatReq(r.number)
      [] r.kind = "setEvents" -> QMIWDSSetEventReportReq(r.number)
      [] r.kind = "getStatus" -> QMIWDSGetPKGSRVCStatusReq(r.number)
      [] r.kind = "getMEID" -> QMIDMSGetMEIDReq(r.number)
      [] r.kind = "setFormat" -> QMIWDASetDataFormatReq(r.number)

Init ==
    /\ asked = Nothing /\ answer = Nothing /\ got = Nothing /\ heard = Nothing
    /\ wire = <<>> /\ reply = <<>>
    /\ mbRawIPMode = FALSE /\ bLinkState = FALSE /\ deviceRawIP = FALSE
    /\ misread = FALSE

WriteSync(r) ==
    /\ asked = Nothing
    /\ asked' = r
    /\ wire' = FillQMUX(r.client, Size(r)) \o Filled(r)
    /\ answer' = Nothing /\ reply' = <<>> /\ heard' = Nothing /\ got' = Nothing
    /\ UNCHANGED <<mbRawIPMode, bLinkState, deviceRawIP, misread>>

-----------------------------------------------------------------------------
(* The device. It copies client and number of the request; an indication   *)
(* of a WDS client has the number 0.                                       *)

Message(client, number, a) ==
    LET sdu == IF client = QMICTL THEN <<1, number>> ELSE <<2>> \o U16(number)
        rest == sdu \o U16(a.id) \o U16(Len(Body(a))) \o Body(a)
    IN  <<1>> \o U16(Len(rest) + 5) \o <<128, ServiceOf(client)>>
             \o <<client \div 256>> \o rest

IDOf(r) == Word(wire, IF r.client = QMICTL THEN 8 ELSE 9)

\* The answers it gives: with the request's ID or another one.
Answers(id) == [kind : {"answer"}, id : id, tlvs : BoundedSeq(TLVs, MaxTLVs)]

\* The value of the first TLV of a type, which has the length.
FirstOf(tlvs, type, length) ==
    {tlvs[i].value : i \in {k \in DOMAIN tlvs :
                              /\ tlvs[k].type = type
                              /\ \A j \in 1..(k - 1) : tlvs[j].type # type
                              /\ Len(tlvs[k].value) = length}}
Succeeds(tlvs) == \E v \in FirstOf(tlvs, 2, 4) : v[1] = 0 /\ v[2] = 0
(* A refusal of whose error code ValidQMIMessage returns 0: get_unaligned,  *)
(* given a char pointer, reads the first of the code's two bytes.          *)
Misread(tlvs) ==
    \E v \in FirstOf(tlvs, 2, 4) : ~(v[1] = 0 /\ v[2] = 0) /\ v[3] = 0
SaysRawIP(tlvs) == \E v \in FirstOf(tlvs, 17, 4) : v[1] = 2

DeviceAnswers ==
    /\ asked # Nothing /\ answer = Nothing
    /\ \E a \in Answers({IDOf(asked), 34}) :
          /\ answer' = a
          /\ reply' = Message(asked.client, asked.number, a)
          /\ deviceRawIP' =
                IF asked.kind = "setFormat" /\ a.id = IDOf(asked)
                THEN Succeeds(a.tlvs) /\ SaysRawIP(a.tlvs)
                ELSE IF asked.kind = "setFormat" THEN FALSE
                ELSE deviceRawIP
          /\ misread' = IF asked.kind = "setFormat"
                        THEN /\ a.id = IDOf(asked)
                             /\ Misread(a.tlvs) /\ SaysRawIP(a.tlvs)
                        ELSE misread
    /\ UNCHANGED <<asked, wire, heard, got, mbRawIPMode, bLinkState>>

DeviceIndicates ==
    /\ asked = Nothing /\ answer = Nothing
    /\ \E a \in Answers({1, 34}), c \in Clients :
          /\ ServiceOf(c) = QMIWDS
          /\ asked' = [kind |-> "wait", client |-> c, number |-> 0, of |-> 0]
          /\ answer' = a
          /\ reply' = Message(c, 0, a)
    /\ UNCHANGED <<wire, heard, got, mbRawIPMode, bLinkState, deviceRawIP,
                   misread>>

-----------------------------------------------------------------------------
(* The driver takes the answer. *)

TransactionID(b) ==
    LET mux == ParseQMUX(b) IN
    IF mux.clientID = QMICTL THEN Byte(b, mux.result + 1)
                             ELSE Word(b, mux.result + 1)

\* Only a message with a whole header and three bytes more is passed on.
ReadCallback ==
    /\ answer # Nothing /\ heard = Nothing
    /\ ParseQMUX(reply).result >= 0
    /\ Len(reply) >= ParseQMUX(reply).result + 3
    /\ heard' = [client |-> ParseQMUX(reply).clientID,
                 number |-> TransactionID(reply)]
    /\ UNCHANGED <<asked, wire, answer, reply, got, mbRawIPMode, bLinkState,
                   deviceRawIP, misread>>

Done(result) ==
    /\ heard # Nothing
    /\ got' = result
    /\ asked' = Nothing /\ answer' = Nothing /\ heard' = Nothing
    /\ wire' = <<>> /\ reply' = <<>>

GetClientID ==
    /\ asked.kind = "getClient"
    /\ Done(QMICTLGetClientIDResp(reply))
    /\ UNCHANGED <<mbRawIPMode, bLinkState, deviceRawIP, misread>>

ReleaseClientID ==
    /\ asked.kind = "release"
    /\ Done([result |-> QMICTLReleaseClientIDResp(reply)])
    /\ UNCHANGED <<mbRawIPMode, bLinkState, deviceRawIP, misread>>

QMICTLSyncProc ==
    /\ asked.kind = "sync"
    /\ Done([result |-> QMICTLSyncResp(reply)])
    /\ UNCHANGED <<mbRawIPMode, bLinkState, deviceRawIP, misread>>

\* QMIReady pops the answer and frees it unread.
QMIReady ==
    /\ asked.kind \in {"ready", "ctlFormat"}
    /\ Done([result |-> 0])
    /\ UNCHANGED <<mbRawIPMode, bLinkState, deviceRawIP, misread>>

\* No MEID is no error: QMIDMSGetMEID fills in fourteen '0'.
QMIDMSGetMEID ==
    /\ asked.kind = "getMEID"
    /\ LET resp == QMIDMSGetMEIDResp(reply) IN
       Done(IF resp.result < 0
            THEN [resp EXCEPT !.meid = [i \in 1..14 |-> 48]] ELSE resp)
    /\ UNCHANGED <<mbRawIPMode, bLinkState, deviceRawIP, misread>>

QMIWDASetDataFormat ==
    /\ asked.kind = "setFormat"
    /\ Done([result |-> QMIWDASetDataFormatResp(reply)])
    /\ mbRawIPMode' = (QMIWDASetDataFormatResp(reply) = 2)
    /\ UNCHANGED <<bLinkState, deviceRawIP, misread>>

\* Answers to setEvents and getStatus reach the callback as indications do.
\* A reset of the link (bReconfigure) ends with the link up.
QMIWDSCallback ==
    /\ asked.kind \in {"setEvents", "getStatus", "wait"}
    /\ LET event == QMIWDSEventResp(reply, bLinkState, FALSE) IN
       /\ Done(event)
       /\ bLinkState' = IF event.result < 0 THEN bLinkState
                        ELSE event.reconfigure \/ event.link
    /\ UNCHANGED <<mbRawIPMode, deviceRawIP, misread>>

Next ==
    \/ \E r \in Requests : WriteSync(r)
    \/ DeviceAnswers
    \/ DeviceIndicates
    \/ ReadCallback
    \/ GetClientID
    \/ ReleaseClientID
    \/ QMICTLSyncProc
    \/ QMIReady
    \/ QMIDMSGetMEID
    \/ QMIWDASetDataFormat
    \/ QMIWDSCallback

Spec == Init /\ [][Next]_vars

-----------------------------------------------------------------------------
(* Frames of the network interface: [header, payload, length], where       *)
(* header is NoHeader or [dest, source, proto], payload starts with the    *)
(* byte the IP version is in, and length is that of the whole payload.  A  *)
(* MAC address is stood for by its first byte.                             *)

NoHeader == [proto |-> "none"]
Dropped == [header |-> NoHeader, payload |-> <<>>, length |-> 0]
DevAddr == 2
ETH_HLEN == 14
ETH_P_IP == "ip"
ETH_P_IPV6 == "ipv6"
FirstByte(f) == IF f.header = NoHeader THEN f.payload[1] ELSE f.header.dest
FrameLength(f) == f.length + IF f.header = NoHeader THEN 0 ELSE ETH_HLEN

\* A frame too short for a header is dropped.
GobiNetDriverTxFixup(rawIP, f) ==
    IF ~rawIP THEN f
    ELSE IF f.header = NoHeader THEN Dropped
    ELSE [f EXCEPT !.header = NoHeader]

\* In raw IP a first nibble of 4 or 6 is an IP packet, 0 an Ethernet frame
\* whose destination is rewritten unless it is multicast.  What is shorter than
\* a header is dropped.
GobiNetDriverRxFixup(rawIP, f) ==
    LET nibble == FirstByte(f) \div 16
        under(proto) == [f EXCEPT !.header =
                            [dest |-> DevAddr, source |-> 0, proto |-> proto]]
    IN  IF ~rawIP THEN f
        ELSE IF FrameLength(f) < ETH_HLEN THEN Dropped
        ELSE CASE nibble = 4 -> under(ETH_P_IP)
               [] nibble = 6 -> under(ETH_P_IPV6)
               [] nibble = 0 /\ FirstByte(f) % 2 = 0 ->
                      [f EXCEPT !.header.dest = DevAddr]
               [] OTHER -> f

-----------------------------------------------------------------------------
(* Properties. *)

TLVsTile(b) ==
    LET ok[pos \in 0..Len(b)] ==
            \/ pos = Len(b)
            \/ /\ pos + 3 <= Len(b)
               /\ pos + 3 + Word(b, pos + 1) <= Len(b)
               /\ ok[pos + 3 + Word(b, pos + 1)]
    IN  ok[0]

(* What every filler and its size function have to agree on (QMI.c 77-909, *)
(* WriteSync): the buffer is exactly as long as its size function said, the*)
(* QMUX length, the message length and the lengths of the TLVs fit into one*)
(* another without a gap, client and transaction number stand where the    *)
(* service looks for them, and no two requests of a service share an ID.   *)
RequestsWellFormed ==
    wire # <<>> =>
        LET idAt == IF asked.client = QMICTL THEN 8 ELSE 9 IN
        /\ Len(wire) = Size(asked)
        /\ Byte(wire, 0) = 1 /\ Byte(wire, 3) = 0
        /\ Word(wire, 1) = Len(wire) - 1
        /\ Word(wire, 4) = asked.client
        /\ (IF asked.client = QMICTL THEN Byte(wire, 7) ELSE Word(wire, 7))
                = asked.number
        /\ Word(wire, idAt + 2) = Len(From(wire, idAt + 4))
        /\ TLVsTile(From(wire, idAt + 4))
        /\ \A r \in Requests :
              /\ ServiceOf(r.client) = ServiceOf(asked.client)
              /\ r.kind # asked.kind
              => Word(Filled(r), idAt - 6) # Word(wire, idAt)

(* The reference: an answer as its list of TLVs. An empty TLV at the very  *)
(* end is not seen, since GetTLV wants more than three bytes.              *)
Seen(tlvs) ==
    IF tlvs # <<>> /\ Last(tlvs).value = <<>> THEN Front(tlvs) ELSE tlvs

\* The value of the first TLV of the type, unless it is longer than room.
Says(a, type, room, v) ==
    \E i \in DOMAIN Seen(a.tlvs) :
        /\ a.tlvs[i] = [type |-> type, value |-> v]
        /\ \A j \in 1..(i - 1) : a.tlvs[j].type # type
        /\ Len(v) <= room
Values == {t.value : t \in TLVs}
\* The QMI error code, which has two bytes, or the lack of one.
Code(a) ==
    LET said == {v \in Values : Len(v) = 4 /\ Says(a, 2, 4, v)} IN
    IF said = {} THEN ENOMSG
    ELSE LET v == CHOOSE v \in said : TRUE IN
         IF v[1] = 0 /\ v[2] = 0 THEN 0 ELSE v[3] + 256 * v[4]
Good(a, id) == a.id = id /\ Code(a) = 0

MeansGetClient(a, g) ==
    \/ /\ g.result = 0 /\ Good(a, 34)
       /\ Says(a, 1, 2, U16(g.clientID))
    \/ /\ g.result = EFAULT
       /\ ~(Good(a, 34) /\ \E v \in Values : Len(v) = 2 /\ Says(a, 1, 2, v))
\* Of a code that needs both bytes the caller learns that it is an error.
MeansSync(a, g) ==
    IF a.id # 39 THEN g.result = EFAULT
    ELSE /\ g.result = 0 <=> Code(a) = 0
         /\ Code(a) < 256 => g.result = Code(a)
MeansMEID(a, g) ==
    IF Good(a, 37) /\ \E v \in Values : Len(v) = 14 /\ Says(a, 18, 14, v)
    THEN g.result = 0 /\ Says(a, 18, 14, g.meid)
    ELSE g.result = EFAULT /\ g.meid = [i \in 1..14 |-> 48]
MeansFormat(a, g) ==
    LET said == {v \in Values : Len(v) = 4 /\ Says(a, 17, 4, v)} IN
    g.result = IF a.id # 32 THEN EFAULT
               ELSE IF Code(a) # 0 \/ said = {} THEN 0
               ELSE (CHOOSE v \in said : TRUE)[1]
MeansStatus(a, g, link) ==
    LET said == {v \in Values : Says(a, 1, 2, v)} IN
    CASE a.id = 1 ->
            /\ g.result = 0 /\ g.link = link /\ ~g.reconfigure
            /\ \A t \in DOMAIN Counters :
                  LET v == {w \in Values : Says(a, t, Counters[t], w)} IN
                  IF v = {} THEN g.counters[t] = Unknown(t)
                  ELSE IsPrefix(CHOOSE w \in v : TRUE, g.counters[t])
      [] a.id = 34 /\ said = {} -> g.result < 0 /\ g.link = link
      [] a.id = 34 /\ said # {} ->
            LET v == CHOOSE w \in said : TRUE IN
            /\ g.result = 0
            /\ g.link = IF v = <<>> THEN link ELSE v[1] = 2
            /\ g.reconfigure = (Len(v) = 2 /\ v[2] = 1)
      [] OTHER -> g.result = EFAULT /\ g.link = link

(* An answer is heard under the client and the number of its request, so   *)
(* that ReadSync, which waits for exactly these, gets it; and what the     *)
(* caller gets out of it is what it says, whatever TLVs stand before,      *)
(* between and after the ones it looks for, while a value that an answer   *)
(* does not give stays as it was (ReadCallback, QMI.c 916-1329).  The code *)
(* it is told is the QMI error code that ValidQMIMessage promises (393 to  *)
(* 396), but for its second byte: line 409 reads only the first.  A refusal*)
(* whose code has a first byte of 0 it takes for a success (misread), and  *)
(* nothing is said of the callers that ask for the code of such an answer. *)
AnswersUnderstood ==
    [][heard # Nothing /\ heard' = Nothing =>
         /\ heard = [client |-> asked.client, number |-> asked.number]
         /\ asked.kind \in {"setEvents", "getStatus", "wait"} =>
                MeansStatus(answer, got', bLinkState)
         /\ ~Misread(answer.tlvs) =>
                CASE asked.kind = "getClient" -> MeansGetClient(answer, got')
                  [] asked.kind = "release" ->
                       got'.result = IF Good(answer, 35) THEN 0 ELSE EFAULT
                  [] asked.kind = "sync" -> MeansSync(answer, got')
                  [] asked.kind = "getMEID" -> MeansMEID(answer, got')
                  [] asked.kind = "setFormat" -> MeansFormat(answer, got')
                  [] OTHER -> TRUE]_vars

\* What the device makes of a frame it got, when it sends the packet back.
Echo(f, proto) ==
    IF deviceRawIP THEN f
    ELSE [header |-> [dest |-> DevAddr, source |-> 32, proto |-> proto],
          payload |-> f.payload, length |-> f.length]

(* An IP packet has 20 bytes at least.                                     *)
ShortestPacket == 20

(* Once the answer to WDA Set Data Format has been taken, the frames have  *)
(* the form the device uses: bare IP packets go to a device in raw IP mode *)
(* and frames with their header to another one, and a packet that comes    *)
(* back, even the shortest, reaches the stack with its payload, its        *)
(* protocol and the interface's address (QMIWDASetDataFormat, TxFixup,     *)
(* RxFixup); unless the device refused raw IP with a code that the driver  *)
(* takes for a success.                                                    *)
FramesFollowFormat ==
    asked = Nothing /\ ~misread =>
        \A version \in {4, 6} :
            LET proto == IF version = 4 THEN ETH_P_IP ELSE ETH_P_IPV6
                sent == [header |-> [dest |-> 32, source |-> DevAddr,
                                     proto |-> proto],
                         payload |-> <<16 * version + 5, 1>>,
                         length |-> ShortestPacket]
                out == GobiNetDriverTxFixup(mbRawIPMode, sent)
                in == GobiNetDriverRxFixup(mbRawIPMode, Echo(out, proto))
            IN  /\ (out.header = NoHeader) = deviceRawIP
                /\ in.payload = sent.payload /\ in.length = sent.length
                /\ in.header # NoHeader
                /\ in.header.dest = DevAddr
                /\ in.header.proto = proto
=============================================================================
