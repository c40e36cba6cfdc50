------------------------------- MODULE Preview -------------------------------
(***************************************************************************)
(* The OLED's picture on the host: the device's session task takes it from *)
(* OledPreviewSlot, numbers it and sends it; PhysicalPreviewState on the   *)
(* host shows a picture only if its number is newer than the one it shows. *)
(* Both ends start the numbers anew with a session, each when its own      *)
(* callback runs.  Of a picture nothing but its number is modelled.        *)
(***************************************************************************)
EXTENDS Integers, Sequences

CONSTANTS
    PreviewIds,          \* values of a frameId (2^16)
    MaxSnapshots,        \* pictures taken
    MaxPreviewSessions,  \* times the host opens its port anew
    MaxPreviewLosses,    \* pictures lost or refused
    MaxPreviewWire       \* messages under way

\* Fewer losses than make a newer number look older: each session the host opens may lose one
\* more, the picture that was taken in it and could not be sent.
ASSUME PreviewAssumption ==
    /\ {PreviewIds, MaxPreviewSessions, MaxPreviewLosses} \subseteq Nat
    /\ MaxPreviewLosses + MaxPreviewSessions < PreviewIds \div 2

VARIABLES
    slotValid, slotId,   \* OledPreviewSlot: valid_, frameId_
    numbering,           \* how often reset() has started the numbers anew
    devSession,          \* the device's endpoint is Connected
    resetsDue,           \* onSessionState callbacks that have yet to reset the slot
    snapshot,            \* what the session task has taken and not sent
    previewWire,
    hostSession,         \* the host's endpoint: "down", "waiting" (HELLO sent), "up"
    hostHello,           \* a HELLO of the host is under way
    receivedAny, shownId, hasPixels,   \* PhysicalPreviewState
    arrived,             \* the last preview the host read in this session
    mixed,               \* those it read come from more than one numbering
    snapshots, previewSessions, previewLosses

slotVars == <<slotValid, slotId, numbering>>
deviceVars == <<devSession, resetsDue, snapshot>>
shownVars == <<receivedAny, shownId, hasPixels, arrived, mixed>>
previewBounds == <<snapshots, previewSessions, previewLosses>>
previewVars == <<slotVars, deviceVars, previewWire, hostSession, hostHello, shownVars,
                 previewBounds>>

PreviewInit ==
    /\ slotValid = FALSE /\ slotId = 0 /\ numbering = 0
    /\ devSession = FALSE /\ resetsDue = 0 /\ snapshot = <<>>
    /\ previewWire = <<>> /\ hostSession = "down" /\ hostHello = FALSE
    /\ receivedAny = FALSE /\ shownId = 0 /\ hasPixels = FALSE
    /\ arrived = <<>> /\ mixed = FALSE
    /\ snapshots = 0 /\ previewSessions = 0 /\ previewLosses = 0

-----------------------------------------------------------------------------
(* The device.                                                             *)

\* The OLED task has drawn something.
Stores ==
    /\ ~slotValid
    /\ slotValid' = TRUE
    /\ UNCHANGED <<slotId, numbering, deviceVars, previewWire, hostSession, hostHello, shownVars,
                   previewBounds>>

\* The session task looks at the state and takes the picture with its number ...
TakesSnapshot ==
    /\ devSession /\ slotValid /\ snapshot = <<>>
    /\ snapshots < MaxSnapshots /\ snapshots' = snapshots + 1
    /\ snapshot' = <<[id |-> slotId, numbering |-> numbering]>>
    /\ slotId' = (slotId + 1) % PreviewIds
    /\ UNCHANGED <<slotValid, numbering, devSession, resetsDue, previewWire, hostSession,
                   hostHello, shownVars, previewSessions, previewLosses>>

PreviewLost == previewLosses < MaxPreviewLosses /\ previewLosses' = previewLosses + 1

\* ... and sends it, in whatever session there is by then.
SendsSnapshot ==
    /\ snapshot # <<>>
    /\ snapshot' = <<>>
    /\ \/ /\ devSession /\ Len(previewWire) < MaxPreviewWire
          /\ previewWire' = previewWire \o snapshot
          /\ UNCHANGED previewLosses
       \/ /\ devSession => PreviewLost
          /\ ~devSession => UNCHANGED previewLosses
          /\ UNCHANGED previewWire
    /\ UNCHANGED <<slotVars, devSession, resetsDue, hostSession, hostHello, shownVars, snapshots,
                   previewSessions>>

DeviceEnds ==
    /\ devSession
    /\ devSession' = FALSE /\ resetsDue' = resetsDue + 1
    /\ UNCHANGED <<slotVars, snapshot, previewWire, hostSession, hostHello, shownVars,
                   previewBounds>>

\* The HELLO of the host is answered; the device is connected before its callback runs.
DeviceConnects ==
    /\ ~devSession /\ hostHello /\ Len(previewWire) < MaxPreviewWire
    /\ hostHello' = FALSE
    /\ devSession' = TRUE /\ resetsDue' = resetsDue + 1
    /\ previewWire' = Append(previewWire, [id |-> -1, numbering |-> -1])
    /\ UNCHANGED <<slotVars, snapshot, hostSession, shownVars, previewBounds>>

\* OledPreviewSlot::reset, from onSessionState.
ResetsSlot ==
    /\ resetsDue > 0 /\ resetsDue' = resetsDue - 1
    /\ slotValid' = FALSE /\ slotId' = 0 /\ numbering' = numbering + 1
    /\ UNCHANGED <<devSession, snapshot, previewWire, hostSession, hostHello, shownVars,
                   previewBounds>>

-----------------------------------------------------------------------------
(* The host.                                                               *)

\* setSessionConnected(false) and onDisconnected().
HostEnds ==
    /\ hostSession # "down"
    /\ hostSession' = "down"
    /\ receivedAny' = FALSE /\ shownId' = 0 /\ hasPixels' = FALSE
    /\ arrived' = <<>> /\ mixed' = FALSE
    /\ UNCHANGED <<slotVars, deviceVars, previewWire, hostHello, previewBounds>>

HostReopens ==
    /\ hostSession = "down"
    /\ previewSessions < MaxPreviewSessions /\ previewSessions' = previewSessions + 1
    /\ hostSession' = "waiting" /\ hostHello' = TRUE
    /\ UNCHANGED <<slotVars, deviceVars, previewWire, shownVars, snapshots, previewLosses>>

IsHello(m) == m.id = -1

\* setSessionConnected(true): the next picture is taken whatever its number.
HostConnected ==
    /\ IF hostSession = "up" THEN UNCHANGED <<hostSession, receivedAny, arrived, mixed>>
       ELSE /\ hostSession' = "up" /\ receivedAny' = FALSE
            /\ arrived' = <<>> /\ mixed' = FALSE
    /\ UNCHANGED <<shownId, hasPixels>>

\* Mutant of AcceptFrameId: numbers are compared as they are.
AcceptWithoutWrap(id) == receivedAny => id > shownId
\* The difference, modulo the numbers there are, as a signed value.
AcceptFrameId(id) ==
    receivedAny => (id - shownId) % PreviewIds \in 1..(PreviewIds \div 2 - 1)

\* onPhysicalPreview: setFrame decides, and nothing is done while the endpoint is down.
SetFrame(m) ==
    /\ UNCHANGED hostSession
    /\ IF hostSession = "down" THEN UNCHANGED shownVars
       ELSE /\ IF AcceptFrameId(m.id)
               THEN receivedAny' = TRUE /\ shownId' = m.id /\ hasPixels' = TRUE
               ELSE UNCHANGED <<receivedAny, shownId, hasPixels>>
            /\ arrived' = <<m>>
            /\ mixed' = (mixed \/ (arrived # <<>> /\ arrived[1].numbering # m.numbering))

HostReads ==
    /\ previewWire # <<>>
    /\ previewWire' = Tail(previewWire)
    /\ LET m == Head(previewWire)
       IN  IF IsHello(m) THEN HostConnected ELSE SetFrame(m)
    /\ UNCHANGED <<slotVars, deviceVars, hostHello, previewBounds>>

PreviewDropped ==
    /\ previewWire # <<>> /\ PreviewLost
    /\ previewWire' = Tail(previewWire)
    /\ UNCHANGED <<slotVars, deviceVars, hostSession, hostHello, shownVars, snapshots,
                   previewSessions>>

PreviewNext ==
    \/ Stores \/ TakesSnapshot \/ SendsSnapshot \/ DeviceEnds \/ DeviceConnects \/ ResetsSlot
    \/ HostEnds \/ HostReopens \/ HostReads \/ PreviewDropped

PreviewSpec == PreviewInit /\ [][PreviewNext]_previewVars

-----------------------------------------------------------------------------
\* In a session whose pictures were numbered in one go, the host shows the last one that
\* arrived: none is refused as older, whatever was shown in the session before, lost on the
\* way, or however often the number has wrapped.  A picture numbered before the device's
\* reset and sent after it breaks the premise: what follows is refused until the numbers
\* have caught up (sendPhysicalPreviewMessage, PhysicalPreviewState::acceptFrameId).
NewestIsShown ==
    hostSession = "up" /\ arrived # <<>> /\ ~mixed =>
        hasPixels /\ receivedAny /\ shownId = arrived[1].id
=============================================================================
