--------------------------- MODULE DisplayUiState ---------------------------
(* DisplayUiState (shared/display/display_ui_state.cpp): the model behind the    *)
(* host's display mode selector, as a record and its transitions.  The labels it *)
(* derives (routerState, the active flags, lastError) and the resolutions are    *)
(* left out: no transition reads them.                                           *)
EXTENDS Naturals

UiModes == {"virtual", "physical", "mirror"}   \* split behaves as mirror does
RequiresPhysical(m) == m \in {"physical", "mirror"}
ExpectsFull(m) == m # "physical"

UiInit ==
  [selected |-> "virtual", applied |-> "virtual", sent |-> "virtual",
   available |-> FALSE, connected |-> FALSE, switching |-> FALSE,
   fullPending |-> FALSE, applyEnabled |-> TRUE, waiting |-> FALSE,
   interrupted |-> FALSE]

\* setSelectedMode refuses a mode that needs a panel nobody reported.
MaySelect(s, m) == s.available \/ ~RequiresPhysical(m)
SetSelectedMode(s, m) == [s EXCEPT !.selected = m]

OnSwitchStart(s) ==
  [s EXCEPT !.sent = s.selected, !.interrupted = FALSE, !.switching = TRUE,
            !.applyEnabled = FALSE, !.fullPending = FALSE, !.waiting = FALSE]

\* applyRequested: the state, and whether a SET_MODE goes out.
ApplyGoesOut(s) == /\ s.applyEnabled /\ s.connected
                   /\ s.available \/ ~RequiresPhysical(s.selected)
ApplyRequested(s) ==
  IF ApplyGoesOut(s) THEN OnSwitchStart(s)
  ELSE IF s.applyEnabled /\ ~s.connected THEN [s EXCEPT !.waiting = TRUE]
  ELSE s

\* The epochs of onAck are equal whenever an Apply is in flight (onDisconnected
\* moves one of them and ends the Apply), so that only `switching' decides.
OnAck(s, ok) ==
  IF ~s.switching THEN s
  ELSE [s EXCEPT !.interrupted = FALSE, !.switching = FALSE, !.applyEnabled = TRUE,
                 !.applied = IF ok THEN s.sent ELSE @,
                 !.fullPending = ok /\ ExpectsFull(s.sent),
                 !.selected = IF ok THEN @ ELSE s.applied]

OnConnected(s) ==
  [s EXCEPT !.interrupted = FALSE, !.connected = TRUE, !.waiting = FALSE,
            !.fullPending = ExpectsFull(s.applied), !.switching = FALSE,
            !.applyEnabled = TRUE]

OnDisconnected(s) ==
  [s EXCEPT !.interrupted = s.switching, !.connected = FALSE, !.switching = FALSE,
            !.applyEnabled = TRUE, !.fullPending = FALSE]

\* A FULL frame that arrives while an Apply is in flight belongs to the old mode.
OnFullCommit(s) ==
  IF s.switching THEN [s EXCEPT !.connected = TRUE]
  ELSE [s EXCEPT !.connected = TRUE, !.fullPending = FALSE, !.applyEnabled = TRUE]

OnPhysicalAvailable(s, a) ==
  [s EXCEPT !.available = a,
            !.selected = IF ~a /\ RequiresPhysical(@) THEN "virtual" ELSE @]

OnFullTimeout(s) ==
  IF ~s.fullPending THEN s
  ELSE [s EXCEPT !.fullPending = FALSE, !.switching = FALSE, !.applyEnabled = TRUE]

=============================================================================
