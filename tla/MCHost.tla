------------------------------- MODULE MCHost -------------------------------
(* The host's window and worker on small queues: two requests of the user in one *)
(* worker thread, with two signals that wait for the window, or three with one;  *)
(* one request and a switch of the transport, with one signal; the switch alone, *)
(* with two.                                                                     *)
EXTENDS HostWindow

MCBudgets == {<<2, 1, 2>>, <<3, 1, 1>>, <<1, 2, 1>>, <<0, 2, 2>>}

=============================================================================
