------------------------------ MODULE RadioPort -----------------------------
(***************************************************************************)
(* What the firmware's WiFi bridge promises the two endpoint servers.      *)
(*                                                                         *)
(* Outgoing: a frame the TX server submits is accepted by the radio driver *)
(* once, and only then acknowledged to the server; the server submits the  *)
(* next frame after that.  Incoming: frames are offered to the RX server   *)
(* in the order in which the radio delivered them, none lost and none      *)
(* repeated, and at most Backlog of them wait.  They are numbered in that  *)
(* order.                                                                  *)
(*                                                                         *)
(* FirmwareBridge implements this specification; WifiExchange builds on it.*)
(***************************************************************************)
EXTENDS Naturals, Sequences

CONSTANTS
  Frames,           \* frames the host may send
  Backlog           \* received frames the firmware holds for the host

ASSUME BacklogAssumption == Backlog \in Nat \ {0}

VARIABLES
  tx,               \* progress of the frame the TX server submitted
  txFrame,          \* that frame
  onAir,            \* frames accepted by the radio driver, in order
  received,         \* number of frames the radio has delivered
  backlog           \* received frames not yet pulled by the RX server

portVars == <<tx, txFrame, onAir, received, backlog>>

PortInit ==
  /\ tx = "idle"
  /\ txFrame = 0
  /\ onAir = <<>>
  /\ received = 0
  /\ backlog = <<>>

-----------------------------------------------------------------------------
Submit(f) ==
  /\ tx = "idle"
  /\ tx' = "submitted"
  /\ txFrame' = f
  /\ UNCHANGED <<onAir, received, backlog>>

\* The radio driver grants a TX token and takes the frame.
Accept ==
  /\ tx = "submitted"
  /\ tx' = "accepted"
  /\ onAir' = Append(onAir, txFrame)
  /\ UNCHANGED <<txFrame, received, backlog>>

\* The TX server learns that the driver has the frame.
Acknowledge ==
  /\ tx = "accepted"
  /\ tx' = "idle"
  /\ txFrame' = 0
  /\ UNCHANGED <<onAir, received, backlog>>

\* The radio delivers its next frame.
Arrive ==
  /\ Len(backlog) < Backlog
  /\ received' = received + 1
  /\ backlog' = Append(backlog, received + 1)
  /\ UNCHANGED <<tx, txFrame, onAir>>

\* The RX server takes the oldest received frame.
Pull ==
  /\ backlog # <<>>
  /\ backlog' = Tail(backlog)
  /\ UNCHANGED <<tx, txFrame, onAir, received>>

PortNext ==
  \/ \E f \in Frames : Submit(f)
  \/ Arrive
  \/ Accept
  \/ Acknowledge
  \/ Pull

PortSpec == PortInit /\ [][PortNext]_portVars
=============================================================================
