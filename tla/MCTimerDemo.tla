---------------------------- MODULE MCTimerDemo ----------------------------
(* Texts for model checking TimerDemo. *)
EXTENDS TimerDemo

MCBefore == <<"nl">>
MCAfter == <<"x", "nl">>
MCTickText == <<"x", "nl">>
MCIrqText == <<"nl">>
=============================================================================
