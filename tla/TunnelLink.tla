----------------------------- MODULE TunnelLink -----------------------------
(***************************************************************************)
(* One tunnelling channel between the library's two ends: the gateway side *)
(* is a ClientSession of transport/server.rs, the client side a Tunnel     *)
(* (transport/tunnel.rs) read by the receiving task of application/knx.rs. *)
(*                                                                         *)
(* Telegrams are numbered in the order in which a send takes the session's *)
(* send_lock (to the client), or draws its sequence number (to the         *)
(* server).  The network holds copies of datagrams in each direction: it   *)
(* reorders, and loses and duplicates within a bound.  TCP is the case     *)
(* without either.                                                         *)
(*                                                                         *)
(* `delivered', `broadcast', `acked', `lost' and the field k of a datagram *)
(* are history: no guard of the program reads them.                        *)
(***************************************************************************)
EXTENDS Integers, Sequences, FiniteSets

CONSTANTS
    SeqMod,    \* sequence numbers are u8: 256 in the code
    Settings   \* the circumstances to consider, one of which holds throughout

(* timely: an ack that comes at all comes before ACK_TIMEOUT.  secure: the
   endpoint requires KNX IP Secure.  The numbers are bounds: telegrams given
   to TunnelServer::send and by the client, calls of send at one time,
   datagrams the network loses and duplicates, and frames the server's own
   socket refuses. *)
Setting == [timely : BOOLEAN, secure : BOOLEAN, toClient : Nat, toServer : Nat,
            callers : Nat, lost : Nat, refused : Nat, duplicated : Nat]

ASSUME LinkAssumption ==
    /\ SeqMod \in Nat \ {0, 1}
    /\ Settings \subseteq Setting

VARIABLES
    setting,
    open,         \* the session is in the server's table
    send_seq, recv_seq,
    waiting,      \* send calls that hold the session and wait for send_lock
    sending,      \* the send that holds send_lock, or held it last
    evicting,     \* failed sends that have yet to remove the session
    pending_ack,  \* a oneshot sender is stored in the session
    answer,       \* what that oneshot holds
    expected_sequence_number, sequence_counter,   \* the client's counters
    toClient, toServer,                           \* datagrams in flight
    delivered,    \* what the client handed on, in order
    requested,    \* telegrams the client sent
    broadcast,    \* what the server handed on, in order
    acked,        \* telegrams whose send returned Ok
    lost, refused, duplicated

server == <<open, send_seq, recv_seq, waiting, sending, evicting,
            pending_ack, answer>>
client == <<expected_sequence_number, sequence_counter>>
budget == <<lost, refused, duplicated>>
history == <<delivered, requested, broadcast, acked>>
state == <<server, client, toClient, toServer, history, budget>>
linkVars == <<setting, state>>

-----------------------------------------------------------------------------
Seqs == 0 .. SeqMod - 1
Telegrams == 1 .. setting.toClient + setting.toServer

TunnellingRequest == [type : {"request"}, k : Telegrams, seq : Seqs]
TunnellingAck == [type : {"ack"}, k : Telegrams, seq : Seqs, ok : BOOLEAN]
Request(k, s) == [type |-> "request", k |-> k, seq |-> s]
Ack(m, ok) == [type |-> "ack", k |-> m.k, seq |-> m.seq, ok |-> ok]

(* u8::wrapping_add(1) and wrapping_sub(1) *)
Succ(s) == (s + 1) % SeqMod
Pred(s) == (s + SeqMod - 1) % SeqMod

(* validate_sequence_number of the client and validate_recv_seq of the
   server: the same three-way answer, and the same next expectation. *)
VerdictAcceptingAhead(expected, received) ==
    IF received = Pred(expected) THEN "Duplicate" ELSE "Valid"
VerdictAcceptingBehind(expected, received) ==
    IF received \in {expected, Pred(expected)} THEN "Valid" ELSE "Invalid"
VerdictDuplicateUpTo(expected, received) ==
    IF received <= expected THEN "Duplicate" ELSE "Valid"
Verdict(expected, received) ==
    IF received = expected THEN "Valid"
    ELSE IF received = Pred(expected) THEN "Duplicate"
    ELSE "Invalid"

Expect(expected, received) ==
    IF Verdict(expected, received) = "Valid" THEN Succ(expected) ELSE expected

(* What is under way in one direction: how many copies of which datagram.
   A socket call that succeeds puts one on the wire. *)
Nothing == [m \in {} |-> 0]
On(net) == DOMAIN net
Copies(net, m) == IF m \in On(net) THEN net[m] ELSE 0
Put(net, m) ==
    [d \in On(net) \cup {m} |-> Copies(net, d) + IF d = m THEN 1 ELSE 0]
Take(net, m) ==
    [d \in {e \in On(net) : e # m \/ net[m] > 1} |-> net[d] - IF d = m THEN 1 ELSE 0]

Idle(k) == [phase |-> "idle", k |-> k, attempt |-> 0]
NoAnswer == [type |-> "none"]

LinkInit ==
    /\ setting \in Settings
    /\ open = TRUE
    /\ send_seq = 0 /\ recv_seq = 0
    /\ waiting = 0
    /\ sending = Idle(0) /\ evicting = 0
    /\ pending_ack = FALSE /\ answer = NoAnswer
    /\ expected_sequence_number = 0 /\ sequence_counter = 0
    /\ toClient = Nothing /\ toServer = Nothing
    /\ delivered = <<>> /\ requested = 0 /\ broadcast = <<>> /\ acked = {}
    /\ lost = 0 /\ refused = 0 /\ duplicated = 0

-----------------------------------------------------------------------------
(* The server sends. *)

Calls == waiting + evicting + (IF sending.phase = "idle" THEN 0 ELSE 1)

(* TunnelServer::send: the sessions are copied under the read lock, so a
   call that saw the session keeps it whatever happens to the table. *)
Send ==
    /\ open
    /\ Calls < setting.callers
    /\ sending.k + waiting < setting.toClient
    /\ waiting' = waiting + 1
    /\ UNCHANGED <<open, send_seq, recv_seq, sending, evicting, pending_ack,
                   answer, client, toClient, toServer, history, budget>>

(* The send fails: send_lock is released before the session is removed. *)
Fail(k) ==
    /\ sending' = Idle(k)
    /\ evicting' = evicting + 1

(* One attempt: a fresh oneshot replaces the stored one, then the frame is
   sent.  If the socket refuses, the send ends at once. *)
Attempt(k, n) ==
    /\ pending_ack' = TRUE
    /\ answer' = NoAnswer
    /\ \/ /\ sending' = [phase |-> "awaiting", k |-> k, attempt |-> n]
          /\ toClient' = Put(toClient, Request(k, send_seq))
          /\ UNCHANGED <<evicting, refused>>
       \/ /\ refused < setting.refused
          /\ refused' = refused + 1
          /\ Fail(k)
          /\ UNCHANGED toClient
    /\ UNCHANGED <<open, send_seq, recv_seq, client, toServer, history,
                   lost, duplicated>>

(* send_to_session takes send_lock. *)
StartSend ==
    /\ waiting > 0
    /\ sending.phase = "idle"
    /\ waiting' = waiting - 1
    /\ Attempt(sending.k + 1, 0)

(* Telegram k or an ack of it is under way.  (The client numbers its own
   requests, which are under way to the server as well.) *)
Acks == {m \in On(toServer) : m.type = "ack"}
InFlight(k) == \E m \in On(toClient) \cup Acks : m.k = k

(* ACK_TIMEOUT: the first attempt is repeated with the same number. *)
Attempts == 2
AckTimeoutMissing == FALSE
AckTimeout ==
    /\ sending.phase = "awaiting"
    /\ answer = NoAnswer
    /\ setting.timely => ~InFlight(sending.k)
    /\ \/ /\ sending.attempt + 1 < Attempts
          /\ Attempt(sending.k, sending.attempt + 1)
       \/ /\ sending.attempt + 1 = Attempts
          /\ Fail(sending.k)
          /\ UNCHANGED <<open, send_seq, recv_seq, pending_ack, answer, client,
                         toClient, toServer, history, budget>>
    /\ UNCHANGED waiting

(* The oneshot resolves: Ok bumps send_seq, an error status fails the send. *)
Answered ==
    /\ sending.phase = "awaiting"
    /\ answer # NoAnswer
    /\ answer' = NoAnswer
    /\ \/ /\ answer.ok
          /\ send_seq' = Succ(send_seq)
          /\ acked' = acked \cup {sending.k}
          /\ sending' = Idle(sending.k)
          /\ UNCHANGED evicting
       \/ /\ ~answer.ok
          /\ Fail(sending.k)
          /\ UNCHANGED <<send_seq, acked>>
    /\ UNCHANGED <<open, recv_seq, waiting, pending_ack, client, toClient,
                   toServer, delivered, requested, broadcast, budget>>

(* The failed call of TunnelServer::send removes the session. *)
Evict ==
    /\ evicting > 0
    /\ evicting' = evicting - 1
    /\ open' = FALSE
    /\ UNCHANGED <<send_seq, recv_seq, waiting, sending, pending_ack, answer,
                   client, toClient, toServer, history, budget>>

-----------------------------------------------------------------------------
(* The server receives. *)

(* handle_tunnelling_ack: whatever is stored is taken and given the ack. *)
HandleTunnellingAck(m) ==
    /\ LET taken == open /\ pending_ack
       IN  /\ pending_ack' = (pending_ack /\ ~taken)
           /\ answer' = IF taken /\ sending.phase = "awaiting" THEN m ELSE answer
    /\ UNCHANGED <<recv_seq, broadcast, refused>>

(* handle_tunnelling_request of the server.  The ack goes out before the
   telegram is handed on, and an ack the socket refuses drops the telegram
   although recv_seq has moved.  The client discards every TunnellingAck,
   so acks to the client are not kept. *)
ServerHandleRequest(m) ==
    /\ \/ /\ ~open
          /\ UNCHANGED <<recv_seq, broadcast, refused>>
       \/ /\ open
          /\ recv_seq' = Expect(recv_seq, m.seq)
          /\ \/ /\ broadcast' = IF Verdict(recv_seq, m.seq) = "Valid"
                                THEN Append(broadcast, m.k) ELSE broadcast
                /\ UNCHANGED refused
             \/ /\ refused < setting.refused
                /\ refused' = refused + 1
                /\ UNCHANGED broadcast
    /\ UNCHANGED <<pending_ack, answer>>

(* dispatch_plain_frame: a secure endpoint drops what is not wrapped.  The
   client wraps what goes through Tunnel::send_frame, its requests, but
   send_tunnelling_ack writes to the transport directly. *)
Wrapped(m) == m.type = "request"
Dispatched(m) == setting.secure => Wrapped(m)

ServerReceive ==
    \E m \in On(toServer) :
        /\ toServer' = Take(toServer, m)
        /\ \/ Dispatched(m) /\ m.type = "ack" /\ HandleTunnellingAck(m)
           \/ Dispatched(m) /\ m.type = "request" /\ ServerHandleRequest(m)
           \/ ~Dispatched(m)
              /\ UNCHANGED <<recv_seq, broadcast, refused, pending_ack, answer>>
        /\ UNCHANGED <<open, send_seq, waiting, sending, evicting, client,
                       toClient, delivered, requested, acked, lost,
                       duplicated>>

-----------------------------------------------------------------------------
(* The client. *)

(* handle_tunnelling_request of Knx.  A failed ack is only logged, which is
   the case of an ack that is sent and lost. *)
ClientReceive ==
    \E m \in On(toClient) :
        LET verdict == Verdict(expected_sequence_number, m.seq)
        IN  /\ toClient' = Take(toClient, m)
            /\ expected_sequence_number' = Expect(expected_sequence_number, m.seq)
            /\ toServer' = Put(toServer, Ack(m, verdict # "Invalid"))
            /\ delivered' = IF verdict = "Valid" THEN Append(delivered, m.k)
                            ELSE delivered
            /\ UNCHANGED <<server, sequence_counter, requested, broadcast, acked,
                           budget>>

(* build_outgoing_frame_for_connection draws the number, then the frame is
   sent once; nobody waits for its ack.  A refused send is a lost one. *)
ClientSend ==
    /\ requested < setting.toServer
    /\ requested' = requested + 1
    /\ sequence_counter' = Succ(sequence_counter)
    /\ toServer' = Put(toServer, Request(requested + 1, sequence_counter))
    /\ UNCHANGED <<server, expected_sequence_number, toClient, delivered,
                   broadcast, acked, budget>>

-----------------------------------------------------------------------------
(* The network. *)
Lose ==
    /\ lost < setting.lost
    /\ lost' = lost + 1
    /\ \/ /\ \E m \in On(toClient) : toClient' = Take(toClient, m)
          /\ UNCHANGED toServer
       \/ /\ \E m \in On(toServer) : toServer' = Take(toServer, m)
          /\ UNCHANGED toClient
    /\ UNCHANGED <<server, client, history, refused, duplicated>>

Duplicate ==
    /\ duplicated < setting.duplicated
    /\ duplicated' = duplicated + 1
    /\ \/ /\ \E m \in On(toClient) : toClient' = Put(toClient, m)
          /\ UNCHANGED toServer
       \/ /\ \E m \in On(toServer) : toServer' = Put(toServer, m)
          /\ UNCHANGED toClient
    /\ UNCHANGED <<server, client, history, lost, refused>>

LinkNext ==
    /\ \/ Send \/ StartSend \/ AckTimeout \/ Answered \/ Evict
       \/ ServerReceive \/ ClientReceive \/ ClientSend
       \/ Lose \/ Duplicate
    /\ UNCHANGED setting

(* tokio polls a task that is ready and a timer that has expired, and both
   ends read their sockets; nothing obliges the network or the callers.  It
   is enough that one of these steps is taken while there is one, since each
   brings the sends and datagrams under way nearer to their end. *)
LinkProgress ==
    StartSend \/ AckTimeout \/ Answered \/ Evict \/ ServerReceive \/ ClientReceive
LinkFairness == WF_linkVars(LinkProgress /\ UNCHANGED setting)

-----------------------------------------------------------------------------
LinkTypeOK ==
    /\ open \in BOOLEAN /\ pending_ack \in BOOLEAN
    /\ {send_seq, recv_seq, expected_sequence_number, sequence_counter}
         \subseteq Seqs
    /\ waiting \in 0 .. setting.callers /\ evicting \in 0 .. setting.callers
    /\ sending \in [phase : {"idle", "awaiting"}, k : 0 .. setting.toClient,
                    attempt : 0 .. Attempts - 1]
    /\ answer \in TunnellingAck \cup {NoAnswer}
    /\ On(toClient) \subseteq TunnellingRequest
    /\ On(toServer) \subseteq TunnellingRequest \cup TunnellingAck
    /\ acked \subseteq 1 .. setting.toClient

Increasing(s) == \A i \in 1 .. Len(s) - 1 : s[i] < s[i + 1]

(* The client hands on each telegram at most once and in the order in which
   the server sent them, whatever the network does to frames and acks: the
   sequence check of validate_sequence_number.  (No datagram is assumed to
   outlive a whole turn of the sequence counter.) *)
DeliveredOnceInOrder == Increasing(delivered)

(* The i-th telegram the server hands on is one whose number is congruent to
   i modulo the counter's range, unless its socket refuses an ack.  So after
   a lost request nothing is accepted until the client's counter has come
   round: the client neither awaits acks nor repeats
   (build_outgoing_frame_for_connection). *)
BroadcastKeepsStep ==
    refused = 0 =>
        \A i \in DOMAIN broadcast : broadcast[i] % SeqMod = i % SeqMod

(* The retry protocol does what it is for when acks arrive in time, get
   through and come once; the properties that follow are about that case.
   (The number of an ack is not looked at, so the second copy of one answers
   whatever request comes next.) *)
InTime == setting.timely /\ ~setting.secure /\ duplicated = 0

(* A telegram whose send_to_session returned Ok has been handed on by the
   client, as long as no send of the session has failed.  (A call that waits
   for send_lock behind one that fails goes out under the same number, and
   the client may acknowledge it as a duplicate.) *)
AckedWasDelivered ==
    InTime /\ open /\ evicting = 0 => acked \subseteq {delivered[i] : i \in DOMAIN delivered}

(* While a session is in the table and no send is under way or has failed,
   the two ends agree on the next sequence number. *)
EndsAgree ==
    InTime /\ open /\ sending.phase = "idle" /\ evicting = 0
        => send_seq = expected_sequence_number

(* The one retry is enough for one loss: a session is only given up after
   two datagrams of its traffic have been lost. *)
OneLossIsSurvived ==
    InTime /\ lost <= 1 /\ refused = 0 => open /\ evicting = 0

(* What the acknowledgement and the one retry of send_to_session achieve
   together when acks come in time. *)
RetryWorks == AckedWasDelivered /\ EndsAgree /\ OneLossIsSurvived

(* Every call of TunnelServer::send comes to an end: it never waits longer
   than its two timeouts.  And so does what it carries: the client has handed
   on every telegram, unless the server's own socket refuses a frame or the
   network loses more than one. *)
Arrived ==
    \/ \A k \in 1 .. sending.k : \E i \in DOMAIN delivered : delivered[i] = k
    \/ lost > 1 \/ refused > 0
SendsComplete == (Calls > 0) ~> (Calls = 0 /\ (InTime => Arrived))
=============================================================================
