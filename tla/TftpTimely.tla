----------------------------- MODULE TftpTimely -----------------------------
(***************************************************************************)
(* The TFTP download on a network that answers in time: the client's timer *)
(* (5 s by default) is longer than a round trip, so it expires only when   *)
(* nothing is in flight, and the server leaves all repeating to the client.*)
(* The number of packets the network loses is counted and bounded.         *)
(* One attempt: `netretry' is not set.                                     *)
(***************************************************************************)
EXTENDS Tftp

CONSTANT MaxLosses              \* packets the network may lose

ASSUME MaxLossesAssumption == MaxLosses \in Nat

VARIABLE losses                 \* packets lost so far

timelyVars == <<vars, losses>>

TimelyInit == Init /\ losses = 0

TimelyLose == losses < MaxLosses /\ Lose /\ losses' = losses + 1

TimelyTimeout ==
    /\ toServer = <<>> /\ toClient = <<>>
    /\ TftpTimeout /\ UNCHANGED losses

Receive == ClientReceive /\ UNCHANGED losses
Serve == ServerReceive /\ UNCHANGED losses
Return == NetLoopReturn /\ UNCHANGED losses

TimelyNext == TimelyLose \/ TimelyTimeout \/ Receive \/ Serve \/ Return

\* The client polls, and the network and the server answer what is not lost.
TimelySpec ==
    /\ TimelyInit /\ [][TimelyNext]_timelyVars
    /\ WF_timelyVars(TimelyTimeout) /\ WF_timelyVars(Receive)
    /\ WF_timelyVars(Serve) /\ WF_timelyVars(Return)

-----------------------------------------------------------------------------

\* As long as no more packets are lost than tftp_timeout_count_max, wherever the
\* losses fall, the retransmissions of tftp_timeout_handler() get the whole file
\* and net_loop returns its size.
LossesAreRepaired == <>(phase = "done" /\ ret = FileSize)
=============================================================================
