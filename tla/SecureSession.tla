--------------------------- MODULE SecureSession ---------------------------
(***************************************************************************)
(* One direction of an established KNX IP Secure session (security/        *)
(* session.rs): encrypt_frame numbers and wraps a frame, the transport     *)
(* carries it, decrypt_frame checks the number and unwraps it.  Both       *)
(* directions and both ends run this code.                                 *)
(*                                                                         *)
(* A task takes its number in encrypt_frame and hands the frame to the     *)
(* transport in a later step (Tunnel::send_frame, TunnelServer), so two    *)
(* tasks may send in the other order.  What the cipher and the MAC protect *)
(* is taken for granted: a frame is its number.                            *)
(***************************************************************************)
EXTENDS TunnelSetting

VARIABLES
    sequence_number,           \* the sender's counter
    held,                      \* numbers of the frames that are wrapped, not sent
    wire,                      \* numbers of the frames under way
    sequence_number_received,  \* the receiver's record
    accepted,                  \* numbers accepted, in that order
    rejected,                  \* frames decrypt_frame has refused
    duplicates                 \* frames the network has duplicated

ssVars == <<sequence_number, held, wire, sequence_number_received, accepted,
            rejected, duplicates>>

(* SecureSession::initialize. *)
SsInit ==
    /\ sequence_number = 0 /\ sequence_number_received = 0
    /\ held = <<>> /\ wire = <<>> /\ accepted = <<>>
    /\ rejected = 0 /\ duplicates = 0

(* A new handshake starts a new session; frames of the old one, under
   another key, are of no use to it. *)
SsRenew ==
    /\ sequence_number' = 0 /\ sequence_number_received' = 0
    /\ held' = <<>> /\ wire' = <<>> /\ accepted' = <<>> /\ rejected' = 0
    /\ UNCHANGED duplicates

Without(seq, i) == SubSeq(seq, 1, i - 1) \o SubSeq(seq, i + 1, Len(seq))

(* encrypt_frame: get_next_sequence_number is an atomic fetch_add. *)
EncryptFrame ==
    /\ sequence_number < setting.frames
    /\ Len(held) < setting.senders
    /\ held' = Append(held, sequence_number)
    /\ sequence_number' = sequence_number + 1
    /\ UNCHANGED <<wire, sequence_number_received, accepted, rejected, duplicates>>

(* The transport's send_frame. *)
Transmit(h) ==
    /\ held' = Without(held, h)
    /\ wire' = Append(wire, held[h])
    /\ UNCHANGED <<sequence_number, sequence_number_received, accepted, rejected,
                   duplicates>>

(* decrypt_frame.  The record is 0 until a frame with another number has
   been accepted, and as long as it is 0 every number passes. *)
IsReplay(n) == n <= sequence_number_received /\ sequence_number_received # 0
DecryptFrame(n) ==
    \/ /\ IsReplay(n)
       /\ rejected' = rejected + 1
       /\ UNCHANGED <<sequence_number_received, accepted>>
    \/ /\ ~IsReplay(n)
       /\ sequence_number_received' = n
       /\ accepted' = Append(accepted, n)
       /\ UNCHANGED rejected

(* A stream delivers the first frame; datagrams arrive in any order. *)
SsReceive(i) ==
    /\ setting.fifo => i = 1
    /\ DecryptFrame(wire[i])
    /\ wire' = Without(wire, i)
    /\ UNCHANGED <<sequence_number, held, duplicates>>

(* A datagram arrives and a copy of it stays under way. *)
SsReceiveCopy(i) ==
    /\ ~setting.fifo /\ duplicates < setting.duplicates
    /\ duplicates' = duplicates + 1
    /\ DecryptFrame(wire[i])
    /\ UNCHANGED <<sequence_number, held, wire>>

(* A datagram is lost. *)
SsLose(i) ==
    /\ ~setting.fifo
    /\ wire' = Without(wire, i)
    /\ UNCHANGED <<sequence_number, held, sequence_number_received, accepted,
                   rejected, duplicates>>

SsNext ==
    \/ EncryptFrame
    \/ \E h \in DOMAIN held : Transmit(h)
    \/ \E i \in DOMAIN wire : SsReceive(i) \/ SsReceiveCopy(i) \/ SsLose(i)

-----------------------------------------------------------------------------
SsTypeOK ==
    /\ sequence_number \in 0 .. setting.frames
    /\ sequence_number_received \in 0 .. setting.frames
    /\ held \in Seq(0 .. setting.frames - 1)
    /\ wire \in Seq(0 .. setting.frames - 1)
    /\ accepted \in Seq(0 .. setting.frames - 1)
    /\ rejected \in Nat /\ duplicates \in 0 .. setting.duplicates

(* Frames are accepted in the order of their numbers, and none twice, no
   matter what the network does; only number 0 may be accepted again before
   another number has come (decrypt_frame). *)
AcceptedInOrder ==
    \A i, j \in DOMAIN accepted :
        i < j => accepted[i] < accepted[j] \/ (accepted[i] = 0 /\ accepted[j] = 0)

(* On a stream that one task writes to, nothing is refused: the receiving
   side, for which a refused frame is a receive error that ends it, never
   sees one.  (Two tasks may transmit in the other order than they took
   their numbers, and then it does.) *)
NothingRejected == setting.fifo /\ setting.senders = 1 => rejected = 0

(* The check of decrypt_frame is exact: it lets no frame pass twice or out of
   order, and refuses none of a single sender on a stream. *)
ReplayCheckExact == AcceptedInOrder /\ NothingRejected
=============================================================================
