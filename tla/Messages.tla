------------------------------ MODULE Messages ------------------------------
(***************************************************************************)
(* What each message is on the wire: the makers of message.cpp and the     *)
(* packet's header on one side, the parsers of the other side, which find  *)
(* the fields by offset, and the answer of the device to the requests it   *)
(* checks again.  A peer of another version may send a longer or a shorter *)
(* payload.  The Wi-Fi scan is followed from the driver's records over     *)
(* WIFI_SCAN_RESULT to the list the host is given.                         *)
(*                                                                         *)
(* A text is a sequence of bytes, a number one of the width of its type.   *)
(* The divisions are by 256 and 65536 alone: TLC counts to 2^31 - 1.       *)
(***************************************************************************)
EXTENDS Integers, SequencesExt

CONSTANTS
    ScanRecords,      \* kMaxScanRecords, kWifiScanResultMaxRecords (64)
    DefaultRecords,   \* kDefaultMaxEntries (32)
    PictureBytes,     \* kPhysicalPreviewPixelBytes (1024)
    Width, Height,    \* of the display; the host knows them from HELLO
    Inputs,           \* what callers ask to be sent: records [type, of]
    Surveys           \* what the driver may have found, and the entries asked for

VARIABLES
    asked,     \* the message asked for
    survey,    \* the scan it reports, if it reports one
    stage,     \* "idle", then "refused" or "wire", then "heard"
    octets,    \* its payload
    altered,   \* how a peer of another version differs: "no", "longer", "shorter"
    heard      \* what the parser gave its caller

messageVars == <<asked, survey, stage, octets, altered, heard>>

-----------------------------------------------------------------------------
(* What the makers may be given: fields of the widths of their C++ types,  *)
(* and texts without a terminator in them.  Their callers pass the version *)
(* of this protocol, a mode and a message type it has, and rectangles of   *)
(* the display.                                                            *)

UpTo(max) == {v \in Nat : v <= max}
Byte == UpTo(255)
Word == UpTo(65535)
Upper(v) == v \div 65536
Long == {v \in Nat : Upper(v) \in Word}
Quad == {v \in Nat : Upper(Upper(v)) \in Long}
Int8 == {v \in Int : -128 <= v /\ v <= 127}
Text8 == Seq(Byte \ {0})

Records ==
    [ssid : Text8, bssid : [1..6 -> Byte], rssi : Int8, channel : Byte, auth : Byte]
ClearConfig == [clear |-> TRUE, ssid |-> <<>>, password |-> <<>>, ip |-> 0, port |-> 0]

Askable(type) ==
    CASE type = "HELLO" ->
            [version : {1}, class : Byte, width : Word, height : Word, format : Byte,
             modes : Byte, name : Text8]
      [] type = "SET_MODE" -> [mode : 0..3]
      [] type = "CAPABILITIES" ->
            [virtual : BOOLEAN, physical : BOOLEAN, width : Word, height : Word, format : Byte,
             depth : Byte, mono : BOOLEAN, readback : BOOLEAN, modes : Byte, physWidth : Word,
             physHeight : Word, physFormat : Byte, physDepth : Byte, physMono : BOOLEAN,
             physReadback : BOOLEAN, controller : Byte, address : Byte, scenes : Byte]
      [] type = "PHYSICAL_PREVIEW" ->
            [id : Word, width : Word, height : Word, format : Byte, flags : Byte,
             pixels : [1..PictureBytes -> Byte]]
      [] type = "WIFI_SCAN_REQ" -> [flags : Byte, maxEntries : Byte]
      [] type = "WIFI_SCAN_RESULT" ->
            [scanSeq : Byte, truncated : BOOLEAN, total : Word, records : Seq(Records)]
      [] type = "WIFI_CONFIG" ->
            {ClearConfig} \union
            [clear : {FALSE}, ssid : Text8, password : Text8, ip : Long, port : Word]
      [] type = "WIFI_STATUS" ->
            [phase : Byte, error : Word, flags : Byte, rssi : Int8, channel : Byte, ip : Long,
             server : Long, port : Word, ssid : Text8]
      [] type = "ACK" -> [seq : Word, status : Byte, error : Word]
      [] type = "ERROR" -> [code : Word, text : Text8]
      [] type = "PING" -> [stamp : Quad]
      [] type = "INPUT_KEY" -> [keycode : Long, modifiers : Word, down : BOOLEAN]
      [] type = "INPUT_MOUSE" -> [buttons : Byte, x : Word, y : Word, wheel : Int8]
      [] type = "FRAME_BEGIN" ->
            [id : Word, frame : 0..1, format : {0}, width : Word, height : Word, hint : Long]
      [] type = "FRAME_RECT" ->
            {m \in [x : Word, y : Word, w : Word, h : Word, pixels : Seq(Byte)] :
                m.x + m.w <= Width /\ m.y + m.h <= Height}
      [] type = "FRAME_END" -> [id : Word, rects : Word, bytes : Long, aborted : BOOLEAN]
      [] type = "header" ->
            [type : 1..81, flags : Byte, seq : Word, length : Long, crc : Long]

MessageTypes ==
    {"HELLO", "SET_MODE", "CAPABILITIES", "PHYSICAL_PREVIEW", "WIFI_SCAN_REQ",
     "WIFI_SCAN_RESULT", "WIFI_CONFIG", "WIFI_STATUS", "ACK", "ERROR", "PING", "INPUT_KEY",
     "INPUT_MOUSE", "FRAME_BEGIN", "FRAME_RECT", "FRAME_END", "header"}

ASSUME MessagesAssumption ==
    /\ ScanRecords \in 1..255 /\ DefaultRecords \in 1..ScanRecords
    /\ PictureBytes \in Nat /\ Width \in Nat /\ Height \in Nat
    /\ \A a \in Inputs : a.type \in MessageTypes /\ a.of \in Askable(a.type)
    /\ \A s \in Surveys : s.aps \in Seq(Records) /\ Len(s.aps) \in Word /\ s.maxEntries \in Byte

-----------------------------------------------------------------------------
(* Fields.                                                                 *)

Octet(v, i) ==
    CASE i = 1 -> v % 256
      [] i = 2 -> (v \div 256) % 256
      [] i = 3 -> Upper(v) % 256
      [] i = 4 -> (Upper(v) \div 256) % 256
LE(v, n) == [i \in 1..n |-> Octet(v, i)]
LE64(v) == LE(v, 4) \o LE(Upper(Upper(v)), 4)
Net(v) == Reverse(LE(v, 4))
Signed(v) == <<v % 256>>
Zeros(n) == [i \in 1..n |-> 0]
Flag(set) == <<IF set THEN 1 ELSE 0>>
Padded(text, n) == [i \in 1..n |-> IF i <= Len(text) THEN text[i] ELSE 0]

U8(p, at) == p[at + 1]
U16(p, at) == U8(p, at) + 256 * U8(p, at + 1)
U32(p, at) == U16(p, at) + 65536 * U16(p, at + 2)
U64(p, at) == U32(p, at) + 65536 * (65536 * U32(p, at + 4))
NetU32(p, at) == U32(Reverse(SubSeq(p, at + 1, at + 4)), 0)
S8(p, at) == IF U8(p, at) > 127 THEN U8(p, at) - 256 ELSE U8(p, at)
Chars(p, at, n) == SubSeq(p, at + 1, at + n)

\* Mutant of FixedText: the last byte of a field is always taken for padding.
TerminatedText(p, at, n) ==
    Chars(p, at, Min({k \in 0..(n - 1) : k = n - 1 \/ U8(p, at + k) = 0}))

\* readFixedString: up to the padding, which a text that fills its field has not.
FixedText(p, at, n) ==
    Chars(p, at, Min({k \in 0..n : k = n \/ U8(p, at + k) = 0}))

\* No payload and no message: what a maker and a parser return when they refuse.
Refused == <<-1>>
Dropped == [dropped |-> TRUE]

-----------------------------------------------------------------------------
(* The makers: the payload, or Refused.                                   *)

IsSize(v) == v \in 1..4096

HelloBytes(m) ==
    IF Len(m.name) > 32 \/ ~IsSize(m.width) \/ ~IsSize(m.height) THEN Refused
    ELSE LE(m.version, 1) \o LE(m.class, 1) \o LE(m.width, 2) \o LE(m.height, 2)
         \o LE(m.format, 1) \o LE(m.modes, 1) \o LE(Len(m.name), 1) \o m.name

SetModeBytes(m) == LE(m.mode, 1)

CapabilitiesBytes(m) ==
    IF \/ ~IsSize(m.width) \/ ~IsSize(m.height)
       \/ m.physWidth # 0 /\ ~IsSize(m.physWidth)
       \/ m.physHeight # 0 /\ ~IsSize(m.physHeight)
       \/ m.format # 0 \/ m.physFormat \notin {0, 1} \/ m.controller \notin {0, 1, 2, 255}
       \/ m.modes > 15 \/ m.scenes > 3
    THEN Refused
    ELSE LE(1, 1) \o LE((IF m.virtual THEN 1 ELSE 0) + (IF m.physical THEN 2 ELSE 0), 1)
         \o LE(m.width, 2) \o LE(m.height, 2) \o LE(m.format, 1) \o LE(m.depth, 1)
         \o Flag(m.mono) \o Flag(m.readback) \o LE(m.modes, 1) \o Zeros(5)
         \o LE(m.physWidth, 2) \o LE(m.physHeight, 2) \o LE(m.physFormat, 1)
         \o LE(m.physDepth, 1) \o Flag(m.physMono) \o Flag(m.physReadback)
         \o LE(m.controller, 1) \o LE(m.address, 1) \o LE(m.scenes, 1) \o Zeros(5)

PreviewBytes(m) ==
    IF ~IsSize(m.width) \/ ~IsSize(m.height) \/ m.format # 1 \/ m.flags > 1 THEN Refused
    ELSE LE(m.id, 2) \o LE(m.width, 2) \o LE(m.height, 2) \o LE(m.format, 1)
         \o LE(m.flags, 1) \o m.pixels

ScanReqBytes(m) ==
    IF m.flags # 0 \/ m.maxEntries > ScanRecords THEN Refused
    ELSE LE(m.flags, 1) \o LE(m.maxEntries, 1)

RecordBytes(r) ==
    Padded(r.ssid, 32) \o r.bssid \o Signed(r.rssi) \o LE(r.channel, 1) \o LE(r.auth, 1) \o Zeros(1)

\* The records of a report, one behind the other.
Packed(records) ==
    [k \in 1..(42 * Len(records)) |->
        RecordBytes(records[((k - 1) \div 42) + 1])[((k - 1) % 42) + 1]]

TooMany(records) == Len(records) > ScanRecords
IsListable(r) == Len(r.ssid) \in 1..32 /\ r.auth <= 8

ScanResultBytes(m) ==
    IF TooMany(m.records) \/ \E i \in DOMAIN m.records : ~IsListable(m.records[i]) THEN Refused
    ELSE LE(m.scanSeq, 1) \o LE(Len(m.records), 1) \o Flag(m.truncated) \o LE(m.total, 2)
         \o Packed(m.records)

\* The rule for a WIFI_CONFIG of makeWifiConfig, onWifiConfigRequest and requestConfig.
IsConfig(m) ==
    /\ Len(m.ssid) \in 1..32
    /\ Len(m.password) = 0 \/ Len(m.password) \in 8..63
    /\ m.ip # 0 /\ m.port # 0

ConfigBytes(m) ==
    IF m.clear THEN LE(1, 1) \o Zeros(102)
    ELSE IF ~IsConfig(m) THEN Refused
    ELSE LE(0, 1) \o Padded(m.ssid, 32) \o Padded(m.password, 64) \o Net(m.ip) \o LE(m.port, 2)

StatusBytes(m) ==
    IF m.phase > 9 \/ Len(m.ssid) > 32 THEN Refused
    ELSE LE(m.phase, 1) \o LE(m.error, 2) \o LE(m.flags, 1) \o Signed(m.rssi) \o LE(m.channel, 1)
         \o Net(m.ip) \o Net(m.server) \o LE(m.port, 2) \o LE(Len(m.ssid), 1) \o m.ssid

AckBytes(m) == LE(m.seq, 2) \o LE(m.status, 1) \o LE(m.error, 2)
ErrorBytes(m) ==
    IF Len(m.text) > 64 THEN Refused ELSE LE(m.code, 2) \o LE(Len(m.text), 1) \o m.text
PingBytes(m) == LE64(m.stamp)

IsKey(m) == m.keycode \in 4..101 \union 224..231 /\ m.modifiers <= 15
KeyBytes(m) ==
    IF ~IsKey(m) THEN Refused
    ELSE LE(m.keycode, 4) \o LE(m.modifiers, 2) \o Flag(m.down) \o Zeros(1)
IsMouse(m) == m.buttons <= 7 /\ m.x < Width /\ m.y < Height
MouseBytes(m) ==
    IF ~IsMouse(m) THEN Refused
    ELSE LE(m.buttons, 1) \o LE(m.x, 2) \o LE(m.y, 2) \o Signed(m.wheel) \o LE(1, 1) \o Zeros(1)

BeginBytes(m) ==
    IF ~IsSize(m.width) \/ ~IsSize(m.height) THEN Refused
    ELSE LE(m.id, 2) \o LE(m.frame, 1) \o LE(m.format, 1) \o LE(m.width, 2) \o LE(m.height, 2)
         \o LE(m.hint, 4)
RectBytes(m) ==
    IF m.w < 1 \/ m.h < 1 \/ Len(m.pixels) # m.w * m.h * 2 THEN Refused
    ELSE LE(m.x, 2) \o LE(m.y, 2) \o LE(m.w, 2) \o LE(m.h, 2) \o m.pixels
EndBytes(m) == LE(m.id, 2) \o LE(m.rects, 2) \o LE(m.bytes, 4) \o Flag(m.aborted)

\* MAGIC is four bytes; the CRC is what crc32.h computed.
Magic == <<69, 83, 80, 86>>
MaxPacketPayload == 4096
HeaderBytes(m) ==
    IF m.length > MaxPacketPayload THEN Refused
    ELSE Magic \o LE(1, 1) \o LE(m.type, 1) \o LE(m.flags, 1) \o Zeros(1) \o LE(m.seq, 2)
         \o LE(m.length, 4) \o LE(m.crc, 4) \o Zeros(2)

MakeMessage(type, m) ==
    CASE type = "HELLO" -> HelloBytes(m)
      [] type = "SET_MODE" -> SetModeBytes(m)
      [] type = "CAPABILITIES" -> CapabilitiesBytes(m)
      [] type = "PHYSICAL_PREVIEW" -> PreviewBytes(m)
      [] type = "WIFI_SCAN_REQ" -> ScanReqBytes(m)
      [] type = "WIFI_SCAN_RESULT" -> ScanResultBytes(m)
      [] type = "WIFI_CONFIG" -> ConfigBytes(m)
      [] type = "WIFI_STATUS" -> StatusBytes(m)
      [] type = "ACK" -> AckBytes(m)
      [] type = "ERROR" -> ErrorBytes(m)
      [] type = "PING" -> PingBytes(m)
      [] type = "INPUT_KEY" -> KeyBytes(m)
      [] type = "INPUT_MOUSE" -> MouseBytes(m)
      [] type = "FRAME_BEGIN" -> BeginBytes(m)
      [] type = "FRAME_RECT" -> RectBytes(m)
      [] type = "FRAME_END" -> EndBytes(m)
      [] type = "header" -> HeaderBytes(m)

-----------------------------------------------------------------------------
(* The parsers: what the message says, or Dropped.                         *)

ReadHello(p) ==
    IF Len(p) < 9 \/ Len(p) # 9 + U8(p, 8) \/ U8(p, 0) # 1 THEN Dropped
    ELSE [version |-> U8(p, 0), class |-> U8(p, 1), width |-> U16(p, 2), height |-> U16(p, 4),
          format |-> U8(p, 6), modes |-> U8(p, 7), name |-> Chars(p, 9, U8(p, 8))]

ReadSetMode(p) == IF Len(p) # 1 \/ U8(p, 0) > 3 THEN Dropped ELSE [mode |-> U8(p, 0)]

ReadCapabilities(p) ==
    IF Len(p) < 32 \/ U8(p, 0) # 1 THEN Dropped
    ELSE [virtual |-> U8(p, 1) % 2 = 1, physical |-> (U8(p, 1) \div 2) % 2 = 1,
          width |-> U16(p, 2), height |-> U16(p, 4), format |-> 0, depth |-> U8(p, 7),
          mono |-> U8(p, 8) # 0, readback |-> U8(p, 9) # 0, modes |-> U8(p, 10),
          physWidth |-> U16(p, 16), physHeight |-> U16(p, 18),
          physFormat |-> IF U8(p, 20) = 1 THEN 1 ELSE 0, physDepth |-> U8(p, 21),
          physMono |-> U8(p, 22) # 0, physReadback |-> U8(p, 23) # 0,
          controller |-> IF U8(p, 24) <= 2 THEN U8(p, 24) ELSE 255,
          address |-> U8(p, 25), scenes |-> U8(p, 26)]

ReadPreview(p) ==
    IF Len(p) < 8 + PictureBytes THEN Dropped
    ELSE [id |-> U16(p, 0), width |-> U16(p, 2), height |-> U16(p, 4), format |-> 1,
          flags |-> U8(p, 7), pixels |-> Chars(p, 8, PictureBytes)]

ReadScanReq(p) ==
    IF Len(p) # 2 \/ U8(p, 0) # 0 \/ U8(p, 1) > ScanRecords THEN Dropped
    ELSE [flags |-> U8(p, 0), maxEntries |-> U8(p, 1)]

ReadRecord(p, at) ==
    [ssid |-> FixedText(p, at, 32), bssid |-> Chars(p, at + 32, 6), rssi |-> S8(p, at + 38),
     channel |-> U8(p, at + 39), auth |-> U8(p, at + 40)]

ReadScanResult(p) ==
    IF Len(p) < 5 \/ U8(p, 1) > ScanRecords \/ Len(p) < 5 + U8(p, 1) * 42 THEN Dropped
    ELSE [scanSeq |-> U8(p, 0), truncated |-> U8(p, 2) % 2 = 1, total |-> U16(p, 3),
          records |-> [i \in 1..U8(p, 1) |-> ReadRecord(p, 5 + (i - 1) * 42)]]

ParsedConfig(p) ==
    [clear |-> U8(p, 0) % 2 = 1, ssid |-> FixedText(p, 1, 32), password |-> FixedText(p, 33, 64),
     ip |-> NetU32(p, 97), port |-> U16(p, 101)]

\* onWifiConfigRequest answers an ACK ERR to what it drops.
ReadConfig(p) ==
    IF Len(p) < 103 \/ ~(ParsedConfig(p).clear \/ IsConfig(ParsedConfig(p))) THEN Dropped
    ELSE ParsedConfig(p)

ReadStatus(p) ==
    IF Len(p) < 17 \/ U8(p, 16) > 32 \/ Len(p) < 17 + U8(p, 16) THEN Dropped
    ELSE [phase |-> U8(p, 0), error |-> U16(p, 1), flags |-> U8(p, 3), rssi |-> S8(p, 4),
          channel |-> U8(p, 5), ip |-> NetU32(p, 6), server |-> NetU32(p, 10),
          port |-> U16(p, 14), ssid |-> Chars(p, 17, U8(p, 16))]

ReadAck(p) ==
    IF Len(p) < 5 THEN Dropped ELSE [seq |-> U16(p, 0), status |-> U8(p, 2), error |-> U16(p, 3)]

\* An ERROR whose text is cut short is reported without it.
ReadError(p) ==
    IF Len(p) < 3 THEN Dropped
    ELSE [code |-> U16(p, 0), text |-> IF Len(p) >= 3 + U8(p, 2) THEN Chars(p, 3, U8(p, 2)) ELSE <<>>]

\* readU64 makes 0 of a PING too short for a stamp.
ReadPing(p) == [stamp |-> IF Len(p) < 8 THEN 0 ELSE U64(p, 0)]

ReadKey(p) ==
    IF Len(p) # 8 \/ U8(p, 6) > 1 \/ U8(p, 7) # 0
       \/ ~IsKey([keycode |-> U32(p, 0), modifiers |-> U16(p, 4)])
    THEN Dropped
    ELSE [keycode |-> U32(p, 0), modifiers |-> U16(p, 4), down |-> U8(p, 6) = 1]

ReadMouse(p) ==
    IF Len(p) # 8 \/ U8(p, 6) # 1 \/ U8(p, 7) # 0
       \/ ~IsMouse([buttons |-> U8(p, 0), x |-> U16(p, 1), y |-> U16(p, 3)])
    THEN Dropped
    ELSE [buttons |-> U8(p, 0), x |-> U16(p, 1), y |-> U16(p, 3), wheel |-> S8(p, 5)]

ReadBegin(p) ==
    IF Len(p) # 12 \/ U8(p, 2) > 1 \/ U8(p, 3) # 0 \/ ~IsSize(U16(p, 4)) \/ ~IsSize(U16(p, 6))
    THEN Dropped
    ELSE [id |-> U16(p, 0), frame |-> U8(p, 2), format |-> U8(p, 3), width |-> U16(p, 4),
          height |-> U16(p, 6), hint |-> U32(p, 8)]

ReadRect(p) ==
    IF Len(p) < 8 \/ U16(p, 4) < 1 \/ U16(p, 6) < 1 \/ U16(p, 0) + U16(p, 4) > Width
       \/ U16(p, 2) + U16(p, 6) > Height \/ Len(p) # 8 + U16(p, 4) * U16(p, 6) * 2
    THEN Dropped
    ELSE [x |-> U16(p, 0), y |-> U16(p, 2), w |-> U16(p, 4), h |-> U16(p, 6),
          pixels |-> Chars(p, 8, Len(p) - 8)]

ReadEnd(p) ==
    IF Len(p) # 9 \/ U8(p, 8) > 1 THEN Dropped
    ELSE [id |-> U16(p, 0), rects |-> U16(p, 2), bytes |-> U32(p, 4), aborted |-> U8(p, 8) = 1]

ReadHeader(p) ==
    IF Len(p) < 20 \/ Chars(p, 0, 4) # Magic \/ U8(p, 4) # 1 \/ U8(p, 5) \notin 1..81
       \/ U32(p, 10) > MaxPacketPayload
    THEN Dropped
    ELSE [type |-> U8(p, 5), flags |-> U8(p, 6), seq |-> U16(p, 8), length |-> U32(p, 10),
          crc |-> U32(p, 14)]

ReadMessage(type, p) ==
    CASE type = "HELLO" -> ReadHello(p)
      [] type = "SET_MODE" -> ReadSetMode(p)
      [] type = "CAPABILITIES" -> ReadCapabilities(p)
      [] type = "PHYSICAL_PREVIEW" -> ReadPreview(p)
      [] type = "WIFI_SCAN_REQ" -> ReadScanReq(p)
      [] type = "WIFI_SCAN_RESULT" -> ReadScanResult(p)
      [] type = "WIFI_CONFIG" -> ReadConfig(p)
      [] type = "WIFI_STATUS" -> ReadStatus(p)
      [] type = "ACK" -> ReadAck(p)
      [] type = "ERROR" -> ReadError(p)
      [] type = "PING" -> ReadPing(p)
      [] type = "INPUT_KEY" -> ReadKey(p)
      [] type = "INPUT_MOUSE" -> ReadMouse(p)
      [] type = "FRAME_BEGIN" -> ReadBegin(p)
      [] type = "FRAME_RECT" -> ReadRect(p)
      [] type = "FRAME_END" -> ReadEnd(p)
      [] type = "header" -> ReadHeader(p)

-----------------------------------------------------------------------------
(* The report of a scan: requestScan, tick() when the driver is done, and  *)
(* the callback of main.cpp.  The driver gives as many records as it is    *)
(* asked for, in an order of its own.  A scan that found nothing may fail  *)
(* instead, where malloc(0) returns no memory: WifiProvisioning has that.  *)

EntriesWanted(maxEntries) ==
    IF maxEntries = 0 \/ maxEntries > ScanRecords THEN DefaultRecords ELSE maxEntries

Fetched(aps) == SubSeq(aps, 1, Min({Len(aps), ScanRecords}))

\* An inserted record comes behind the last one that is not weaker.
InsertByRssi(sorted, ap) ==
    LET place == Max({0} \union {j \in DOMAIN sorted : sorted[j].rssi >= ap.rssi})
    IN  [k \in 1..(Len(sorted) + 1) |->
            IF k <= place THEN sorted[k] ELSE IF k = place + 1 THEN ap ELSE sorted[k - 1]]

SortedByRssi(aps) ==
    LET upTo[i \in 0..Len(aps)] ==
            IF i = 0 THEN <<>> ELSE InsertByRssi(upTo[i - 1], aps[i])
    IN  upTo[Len(aps)]

\* Mutant of ListOf: cut first, sorted after.
CutThenSorted(s) ==
    SortedByRssi(SubSeq(s.aps, 1, Min({Len(s.aps), EntriesWanted(s.maxEntries)})))

ListOf(s) ==
    LET sorted == SortedByRssi(Fetched(s.aps))
    IN  SubSeq(sorted, 1, Min({Len(sorted), EntriesWanted(s.maxEntries)}))

ReportOf(s) ==
    [scanSeq |-> 1, total |-> Len(s.aps), records |-> ListOf(s),
     truncated |-> Len(s.aps) > ScanRecords \/ Len(Fetched(s.aps)) > Len(ListOf(s))]

-----------------------------------------------------------------------------

NoSurvey == [aps |-> <<>>, maxEntries |-> -1]

MessagesInit ==
    /\ asked = [type |-> "none"] /\ survey = NoSurvey
    /\ stage = "idle" /\ octets = <<>> /\ altered = "no" /\ heard = Dropped

Ask(a) ==
    LET made == MakeMessage(a.type, a.of) IN
    /\ asked' = a
    /\ stage' = IF made = Refused THEN "refused" ELSE "wire"
    /\ octets' = IF made = Refused THEN <<>> ELSE made
    /\ UNCHANGED <<altered, heard>>

SendMessage ==
    /\ stage = "idle"
    /\ \E a \in Inputs : Ask(a)
    /\ UNCHANGED survey

ReportScan ==
    /\ stage = "idle"
    /\ \E s \in Surveys :
        /\ Ask([type |-> "WIFI_SCAN_RESULT", of |-> ReportOf(s)])
        /\ survey' = s

\* A peer of another version appends a field to the payload, or its payload lacks the last.
NewerPeer == stage = "wire" /\ altered = "no" /\ altered' = "longer" /\ octets' = octets \o <<7>>
OlderPeer ==
    /\ stage = "wire" /\ altered = "no" /\ altered' = "shorter"
    /\ \E n \in {0, Len(octets) \div 2, Len(octets) - 1} \ {Len(octets), -1} :
          octets' = SubSeq(octets, 1, n)

OtherVersion ==
    /\ survey = NoSurvey
    /\ NewerPeer \/ OlderPeer
    /\ UNCHANGED <<asked, survey, stage, heard>>

Hear ==
    /\ stage = "wire"
    /\ stage' = "heard"
    /\ heard' = ReadMessage(asked.type, octets)
    /\ UNCHANGED <<asked, survey, octets, altered>>

MessagesNext == SendMessage \/ ReportScan \/ OtherVersion \/ Hear

MessagesSpec == MessagesInit /\ [][MessagesNext]_messageVars

-----------------------------------------------------------------------------
(* Properties.                                                             *)

\* The messages that promise to be readable by an older peer when they grow (AD.3, AE.3, AF.3).
Extensible ==
    {"CAPABILITIES", "PHYSICAL_PREVIEW", "WIFI_SCAN_RESULT", "WIFI_CONFIG", "WIFI_STATUS"}

\* A message is read as it was meant or not at all: every field arrives with the value the
\* maker was given, whatever its byte order, sign or length up to the limit; a payload that
\* is too short is dropped, but for an ERROR, which loses its text, and a PING, whose stamp
\* nobody uses; what a newer peer appends is ignored where the protocol says so.
PeerReadsWhatWasMeant ==
    stage = "heard" =>
        CASE altered = "no" -> heard = asked.of
          [] altered = "longer" ->
                heard = asked.of \/ (heard = Dropped /\ asked.type \notin Extensible)
          [] altered = "shorter" -> heard = Dropped \/ asked.type \in {"ERROR", "PING"}

\* A finished scan reaches the host, however many networks it found, as a sorted list that
\* holds the strongest of those the driver handed over and says honestly how many there were
\* and whether some are missing; unless one that would be listed hides its name or has an
\* authentication mode the protocol does not know: then the whole report is refused.
ScanReportIsTrue ==
    survey # NoSurvey =>
        /\ stage = "refused" => \E r \in ToSet(ListOf(survey)) : ~IsListable(r)
        /\ stage = "heard" =>
              /\ \A i, j \in DOMAIN heard.records :
                    i < j => heard.records[i].rssi >= heard.records[j].rssi
              /\ \A ap \in ToSet(Fetched(survey.aps)) \ ToSet(heard.records) :
                    \A r \in ToSet(heard.records) : r.rssi >= ap.rssi
              /\ heard.total = Len(survey.aps)
              /\ heard.truncated <=> Len(heard.records) < heard.total
===============================================================================
