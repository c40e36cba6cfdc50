-------------------------------- MODULE MCLink --------------------------------
(***************************************************************************)
(* What travels between device and host, for TLC: the picture from LVGL to *)
(* the host's window, its frames over a bad link, the OLED's preview,      *)
(* mouse and keyboard, and the payload of each message.  They share no     *)
(* state; a behaviour is one of one part.  The screen has two areas and    *)
(* the queue one slot, so that a frame of two rectangles does not fit into *)
(* it, and the UI task waits for the TX task in the middle of it.  Three   *)
(* SEQ values and three faults let three lost packets go unseen by the     *)
(* sequence rule; messages have two chunks, so that a first chunk          *)
(* followed, past a lost tail, by the first chunk of another RECT overruns *)
(* a message.  Messages are asked for with texts and numbers on both sides *)
(* of every limit; surveys find up to four networks, one more than a       *)
(* report holds.                                                           *)
(***************************************************************************)
EXTENDS DisplayPipeline, FrameLink, Preview, InputPath, Messages

VARIABLE part

allVars == <<part, vars, frameLinkVars, previewVars, inputVars, messageVars>>

\* One redraw and any two troubles, or two redraws and a trouble before or between them.
MCDisplayBudgets == {<<1, 2>>, <<2, 1>>}

PartsInit ==
    /\ part \in {"display", "frames", "preview", "input", "messages"}
    /\ Init /\ FrameLinkInit /\ PreviewInit /\ InputInit /\ MessagesInit

OfDisplay(A) ==
    /\ part = "display" /\ A
    /\ UNCHANGED <<part, frameLinkVars, previewVars, inputVars, messageVars>>
OfFrames(A) ==
    part = "frames" /\ A /\ UNCHANGED <<part, vars, previewVars, inputVars, messageVars>>
OfPreview(A) ==
    part = "preview" /\ A /\ UNCHANGED <<part, vars, frameLinkVars, inputVars, messageVars>>
OfInput(A) ==
    part = "input" /\ A /\ UNCHANGED <<part, vars, frameLinkVars, previewVars, messageVars>>
OfMessages(A) ==
    part = "messages" /\ A /\ UNCHANGED <<part, vars, frameLinkVars, previewVars, inputVars>>

PartsNext ==
    \/ OfDisplay(Next) \/ OfFrames(FrameLinkNext) \/ OfPreview(PreviewNext)
    \/ OfInput(InputNext) \/ OfMessages(MessagesNext)

PartsSpec == PartsInit /\ [][PartsNext]_allVars

\* The properties say nothing of a state after a race of the display's tasks.
NoRaceYet == races = {}

-----------------------------------------------------------------------------
(* What is asked of the makers: of each type one message, and that message *)
(* with one field at each of its edges.                                    *)

Text(n) == [i \in 1..n |-> 64 + i]
Bytes == {0, 1, 127, 128, 255}
Words == {0, 1, 258, 4096, 4097, 65535}
\* TLC counts no further.
Longs == {0, 1, 16909060, 2130706431, 2147483647}

Hello == [version |-> 1, class |-> 2, width |-> 320, height |-> 240, format |-> 0, modes |-> 7,
          name |-> Text(6)]
Capabilities ==
    [virtual |-> TRUE, physical |-> FALSE, width |-> 320, height |-> 240, format |-> 0,
     depth |-> 16, mono |-> FALSE, readback |-> TRUE, modes |-> 15, physWidth |-> 128,
     physHeight |-> 64, physFormat |-> 1, physDepth |-> 1, physMono |-> TRUE,
     physReadback |-> FALSE, controller |-> 2, address |-> 60, scenes |-> 3]
Picture == [id |-> 258, width |-> 128, height |-> 64, format |-> 1, flags |-> 0,
            pixels |-> <<170, 0, 85, 255>>]
Network == [ssid |-> Text(5), bssid |-> <<2, 0, 0, 0, 0, 255>>, rssi |-> -60, channel |-> 11, auth |-> 3]
Networks == [scanSeq |-> 255, truncated |-> TRUE, total |-> 258, records |-> <<Network, Network>>]
Config == [clear |-> FALSE, ssid |-> Text(5), password |-> Text(8), ip |-> 16909060, port |-> 8765]
Status == [phase |-> 5, error |-> 258, flags |-> 1, rssi |-> -1, channel |-> 11, ip |-> 16909060,
           server |-> 16909061, port |-> 8765, ssid |-> Text(5)]
Mouse == [buttons |-> 5, x |-> 258, y |-> 1, wheel |-> -1]
Rect == [x |-> 258, y |-> 1, w |-> 2, h |-> 1, pixels |-> Text(4)]
Header == [type |-> 17, flags |-> 1, seq |-> 258, length |-> 4096, crc |-> 16909060]

Of(type, messages) == {[type |-> type, of |-> m] : m \in messages}

MCInputs == UNION {
    Of("HELLO",
       {[Hello EXCEPT !.width = w] : w \in Words} \union {[Hello EXCEPT !.height = h] : h \in Words}
       \union {[Hello EXCEPT !.name = Text(n)] : n \in {0, 32, 33}}),
    Of("SET_MODE", [mode : 0..3]),
    Of("CAPABILITIES",
       {[Capabilities EXCEPT !.width = w, !.physHeight = h] : w, h \in Words}
       \union {[Capabilities EXCEPT !.virtual = v, !.physical = p, !.mono = m] : v, p, m \in BOOLEAN}
       \union {[Capabilities EXCEPT !.controller = c, !.modes = m] : c \in {0, 1, 3, 255}, m \in {0, 16}}),
    Of("PHYSICAL_PREVIEW",
       {[Picture EXCEPT !.id = i] : i \in Words} \union {[Picture EXCEPT !.flags = f] : f \in {1, 2}}),
    Of("WIFI_SCAN_REQ", [flags : {0, 1}, maxEntries : 0..(ScanRecords + 1)]),
    Of("WIFI_SCAN_RESULT",
       {[Networks EXCEPT !.records = [i \in 1..n |-> Network]] : n \in 0..(ScanRecords + 1)}
       \union {[Networks EXCEPT !.records = <<[Network EXCEPT !.ssid = Text(n), !.rssi = r]>>] :
                  n \in {0, 1, 32, 33}, r \in {-128, -1, 0, 127}}),
    Of("WIFI_CONFIG",
       {ClearConfig} \union {[Config EXCEPT !.ssid = Text(n)] : n \in {0, 1, 32, 33}}
       \union {[Config EXCEPT !.password = Text(n)] : n \in {0, 7, 8, 63, 64}}
       \union {[Config EXCEPT !.ip = i, !.port = p] : i \in Longs, p \in Words}),
    Of("WIFI_STATUS",
       {[Status EXCEPT !.phase = p] : p \in {0, 9, 10}}
       \union {[Status EXCEPT !.ssid = Text(n), !.rssi = r] : n \in {0, 32, 33}, r \in {-128, 127}}
       \union {[Status EXCEPT !.ip = i, !.server = v] : i, v \in Longs}),
    Of("ACK", [seq : Words, status : {0, 1}, error : {0, 258}]),
    Of("ERROR", [code : {0, 258}, text : {Text(0), Text(64), Text(65)}]),
    Of("PING", [stamp : Longs]),
    Of("INPUT_KEY", [keycode : {3, 4, 101, 102, 224, 231}, modifiers : {0, 15, 16}, down : BOOLEAN]),
    Of("INPUT_MOUSE",
       {[Mouse EXCEPT !.x = x, !.y = y] : x \in {0, Width - 1, Width}, y \in {0, Height - 1, Height}}
       \union {[Mouse EXCEPT !.wheel = w, !.buttons = b] : w \in {-128, 0, 127}, b \in {0, 7, 8}}),
    Of("FRAME_BEGIN",
       [id : Words, frame : {0, 1}, format : {0}, width : {0, Width}, height : {Height, 4097}, hint : Longs]),
    Of("FRAME_RECT", {Rect, [Rect EXCEPT !.w = 1], [Rect EXCEPT !.w = 1, !.h = 2]}),
    Of("FRAME_END", [id : Words, rects : Words, bytes : Longs, aborted : BOOLEAN]),
    Of("header",
       {[Header EXCEPT !.seq = q, !.crc = c] : q \in Words, c \in Longs}
       \union {[Header EXCEPT !.length = n, !.type = t] : n \in {0, 4096, 4097}, t \in {1, 81}}) }

\* Networks by strength and whether they can be listed, each with a BSSID of its own.
Survey(seen) ==
    [i \in DOMAIN seen |->
        [Network EXCEPT !.rssi = seen[i][1], !.bssid = <<2, 0, 0, 0, 0, i>>,
                        !.ssid = IF seen[i][2] = "hidden" THEN <<>> ELSE Text(5),
                        !.auth = IF seen[i][2] = "odd" THEN 9 ELSE 3]]
Seen == ({-90, -60, -40} \X {"plain"}) \union {<<-60, "hidden">>, <<-60, "odd">>}
MCSurveys == [aps : {Survey(s) : s \in SeqOf(Seen, 4)}, maxEntries : 0..ScanRecords]
===============================================================================
