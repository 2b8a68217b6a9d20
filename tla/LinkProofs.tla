----------------------------- MODULE LinkProofs -----------------------------
(***************************************************************************)
(* The traffic of a session, for any number of telegrams, callers, losses  *)
(* and duplicates and any range of sequence numbers.                       *)
(*                                                                         *)
(* None of the three properties is inductive.  What the server hands on    *)
(* follows the client's numbers because a counter is the remainder of what *)
(* it counts (StepInv).  What the client hands on stays in order because   *)
(* two telegrams get numbers that differ by no more than the telegrams     *)
(* between them (OrderInv).  The retry does its work because one datagram  *)
(* at most is under way (RetryInv).                                        *)
(***************************************************************************)
EXTENDS TunnelLink, TLAPS

LinkSpec == LinkInit /\ [][LinkNext]_linkVars

-----------------------------------------------------------------------------
(* The telegrams of the client.  What a sequence number says of a count is
   that it is its remainder. *)
Remainder(n, r) == r \in Seqs /\ \E q \in Nat : n = SeqMod * q + r

LEMMA ModFacts ==
  ASSUME NEW q \in Nat, NEW r \in Seqs
  PROVE  (SeqMod * q + r) % SeqMod = r
  BY LinkAssumption DEF Seqs

LEMMA SuccRemainder ==
  ASSUME NEW n \in Nat, NEW r, Remainder(n, r)
  PROVE  Remainder(n + 1, Succ(r))
  <1>0. SeqMod \in Nat /\ SeqMod > 0
    BY LinkAssumption
  <1>1. PICK q \in Nat : n = SeqMod * q + r
    BY DEF Remainder
  <1>2. r \in Nat /\ r < SeqMod
    BY <1>0 DEF Remainder, Seqs
  <1>3. CASE r + 1 < SeqMod
    <2>1. r + 1 \in Seqs
      BY <1>0, <1>2, <1>3 DEF Seqs
    <2>2. Succ(r) = r + 1
      BY <1>0, <1>2, <1>3 DEF Succ
    <2>3. n + 1 = SeqMod * q + (r + 1)
      BY <1>0, <1>1, <1>2
    <2> QED BY <2>1, <2>2, <2>3 DEF Remainder
  <1>4. CASE r + 1 = SeqMod
    <2>1. 0 \in Seqs
      BY <1>0 DEF Seqs
    <2>2. Succ(r) = 0
      BY <1>0, <1>4 DEF Succ
    <2>3. n + 1 = SeqMod * (q + 1) + 0
      BY <1>0, <1>1, <1>2, <1>4
    <2> QED BY <2>1, <2>2, <2>3 DEF Remainder
  <1> QED BY <1>0, <1>2, <1>3, <1>4

LEMMA SameRemainder ==
  ASSUME NEW n \in Nat, NEW m \in Nat, NEW r, Remainder(n, r), Remainder(m, r)
  PROVE  n % SeqMod = m % SeqMod
  <1>1. n % SeqMod = r
    BY ModFacts DEF Remainder
  <1>2. m % SeqMod = r
    BY ModFacts DEF Remainder
  <1> QED BY <1>1, <1>2

LEMMA AppendFacts ==
  ASSUME NEW s \in Seq(Nat), NEW x \in Nat
  PROVE  /\ Append(s, x) \in Seq(Nat) /\ Len(s) \in Nat
         /\ Len(Append(s, x)) = Len(s) + 1
         /\ 1 .. Len(s) + 1 = 1 .. Len(s) \cup {Len(s) + 1}
         /\ Append(s, x)[Len(s) + 1] = x
         /\ \A i \in 1 .. Len(s) : Append(s, x)[i] = s[i]
  OBVIOUS

(* What is under way. *)
LEMMA PutNet == ASSUME NEW net, NEW m PROVE On(Put(net, m)) = On(net) \cup {m}
  BY DEF Put, Copies, On
LEMMA TakeNet == ASSUME NEW net, NEW m PROVE On(Take(net, m)) \subseteq On(net)
  BY DEF Take, On

(* The client's counter follows what it sent and the server's counter what
   it handed on; a request that is under way has kept its number. *)
RequestsNumbered(net) ==
    \A m \in On(net) :
       m.type = "request" => m.k \in Nat /\ Remainder(m.k, Succ(m.seq))
StepInv ==
    /\ requested \in Nat /\ Remainder(requested, sequence_counter)
    /\ refused \in Nat /\ broadcast \in Seq(Nat)
    /\ RequestsNumbered(toServer)
    /\ refused = 0 => Remainder(Len(broadcast), recv_seq)
    /\ BroadcastKeepsStep

LEMMA StepInit == LinkInit => StepInv
  <1> SUFFICES ASSUME LinkInit PROVE StepInv
    OBVIOUS
  <1>1. /\ requested = 0 /\ sequence_counter = 0 /\ refused = 0 /\ broadcast = <<>>
        /\ recv_seq = 0 /\ toServer = Nothing
    BY DEF LinkInit
  <1>2. Remainder(0, 0)
    <2>1. 0 \in Seqs /\ 0 = SeqMod * 0 + 0
      BY LinkAssumption DEF Seqs
    <2> QED BY <2>1 DEF Remainder
  <1>3. On(toServer) = {}
    BY <1>1 DEF Nothing, On
  <1> QED BY <1>1, <1>2, <1>3 DEF StepInv, RequestsNumbered, BroadcastKeepsStep

(* The server's counter moves only with what it hands on. *)
LEMMA ReceiveKeeps ==
  ASSUME StepInv, ServerReceive
  PROVE  StepInv'
  <1>1. PICK m \in On(toServer) :
           /\ toServer' = Take(toServer, m)
           /\ \/ Dispatched(m) /\ m.type = "ack" /\ HandleTunnellingAck(m)
              \/ Dispatched(m) /\ m.type = "request" /\ ServerHandleRequest(m)
              \/ ~Dispatched(m) /\ UNCHANGED <<recv_seq, broadcast, refused, pending_ack, answer>>
           /\ UNCHANGED <<sequence_counter, requested>>
    BY Zenon DEF ServerReceive, client
  <1>2. RequestsNumbered(toServer)'
    BY <1>1, TakeNet DEF StepInv, RequestsNumbered
  <1>3. CASE UNCHANGED <<recv_seq, broadcast, refused>>
    BY <1>1, <1>2, <1>3 DEF StepInv, BroadcastKeepsStep
  <1>4. CASE refused' = refused + 1 /\ UNCHANGED broadcast
    BY <1>1, <1>2, <1>4 DEF StepInv, BroadcastKeepsStep
  <1>5. CASE /\ m.type = "request" /\ recv_seq' = Expect(recv_seq, m.seq)
             /\ broadcast' = IF Verdict(recv_seq, m.seq) = "Valid"
                             THEN Append(broadcast, m.k) ELSE broadcast
             /\ UNCHANGED refused
    <2>1. CASE m.seq # recv_seq
      <3>1. Verdict(recv_seq, m.seq) # "Valid"
        BY <2>1 DEF Verdict
      <3>2. recv_seq' = recv_seq /\ broadcast' = broadcast
        BY <1>5, <3>1 DEF Expect
      <3> QED BY <1>3, <1>5, <3>2
    <2>2. CASE m.seq = recv_seq
      <3>1. recv_seq' = Succ(recv_seq) /\ broadcast' = Append(broadcast, m.k)
        BY <1>5, <2>2 DEF Verdict, Expect
      <3>2. m.k \in Nat /\ Remainder(m.k, Succ(recv_seq))
        BY <1>1, <1>5, <2>2 DEF StepInv, RequestsNumbered
      <3>3. CASE refused = 0
        <4>1. Len(broadcast) \in Nat /\ Remainder(Len(broadcast), recv_seq)
          BY <3>3 DEF StepInv
        <4>2. Remainder(Len(broadcast) + 1, Succ(recv_seq))
          BY <4>1, SuccRemainder
        <4>3. m.k % SeqMod = (Len(broadcast) + 1) % SeqMod
          BY <3>2, <4>1, <4>2, SameRemainder
        <4>4. /\ broadcast' \in Seq(Nat) /\ Len(broadcast') = Len(broadcast) + 1
              /\ DOMAIN broadcast' = DOMAIN broadcast \cup {Len(broadcast) + 1}
              /\ broadcast'[Len(broadcast) + 1] = m.k
              /\ \A i \in DOMAIN broadcast : broadcast'[i] = broadcast[i]
          BY <3>1, <3>2 DEF StepInv
        <4>5. BroadcastKeepsStep'
          BY <3>3, <4>3, <4>4 DEF StepInv, BroadcastKeepsStep
        <4> QED BY <1>1, <1>2, <1>5, <3>1, <4>2, <4>4, <4>5 DEF StepInv
      <3>4. CASE refused # 0
        <4>1. broadcast' \in Seq(Nat)
          BY <3>1, <3>2 DEF StepInv
        <4> QED BY <1>1, <1>2, <1>5, <3>4, <4>1 DEF StepInv, BroadcastKeepsStep
      <3> QED BY <3>3, <3>4
    <2> QED BY <2>1, <2>2
  <1> QED BY <1>1, <1>3, <1>4, <1>5, Zenon DEF HandleTunnellingAck, ServerHandleRequest

LEMMA LinkKeeps ==
  ASSUME StepInv, LinkNext
  PROVE  StepInv'
  <1>1. ASSUME UNCHANGED <<requested, sequence_counter, broadcast, recv_seq>>,
               refused' \in {refused, refused + 1}, RequestsNumbered(toServer)'
        PROVE  StepInv'
    BY <1>1 DEF StepInv, BroadcastKeepsStep
  <1>2. CASE Send \/ StartSend \/ AckTimeout \/ Answered \/ Evict
    <2>1. UNCHANGED <<requested, sequence_counter, broadcast, recv_seq, toServer>>
      BY <1>2, Zenon DEF Send, StartSend, AckTimeout, Attempt, Fail, Answered, Evict, client,
                         history
    <2>2. refused' \in {refused, refused + 1}
      BY <1>2, Zenon DEF Send, StartSend, AckTimeout, Attempt, Fail, Answered, Evict, budget
    <2> QED BY <1>1, <2>1, <2>2 DEF StepInv, RequestsNumbered
  <1>3. CASE ClientReceive
    <2>1. PICK m : /\ \E ok : toServer' = Put(toServer, Ack(m, ok))
                   /\ UNCHANGED <<requested, sequence_counter, broadcast, recv_seq, refused>>
      BY <1>3, Zenon DEF ClientReceive, server, budget
    <2>2. RequestsNumbered(toServer)'
      BY <2>1, PutNet DEF StepInv, RequestsNumbered, Ack
    <2> QED BY <1>1, <2>1, <2>2
  <1>4. CASE ClientSend
    <2>1. /\ requested' = requested + 1 /\ sequence_counter' = Succ(sequence_counter)
          /\ toServer' = Put(toServer, Request(requested + 1, sequence_counter))
          /\ UNCHANGED <<broadcast, recv_seq, refused>>
      BY <1>4, Zenon DEF ClientSend, server, budget
    <2>2. Remainder(requested + 1, Succ(sequence_counter))
      BY SuccRemainder DEF StepInv
    <2>3. RequestsNumbered(toServer)'
      BY <2>1, <2>2, PutNet DEF StepInv, RequestsNumbered, Request
    <2> QED BY <2>1, <2>2, <2>3 DEF StepInv, BroadcastKeepsStep
  <1>5. CASE Lose \/ Duplicate
    <2>1. UNCHANGED <<requested, sequence_counter, broadcast, recv_seq, refused>>
      BY <1>5, Zenon DEF Lose, Duplicate, server, client, history
    <2>2. \/ toServer' = toServer
          \/ \E m \in On(toServer) :
                toServer' = Take(toServer, m) \/ toServer' = Put(toServer, m)
      BY <1>5, Zenon DEF Lose, Duplicate
    <2>3. RequestsNumbered(toServer)'
      BY <2>2, PutNet, TakeNet DEF StepInv, RequestsNumbered
    <2> QED BY <1>1, <2>1, <2>3
  <1> QED BY <1>2, <1>3, <1>4, <1>5, ReceiveKeeps, Zenon DEF LinkNext

(* The i-th telegram the server hands on has a number congruent to i,
   whatever is lost, duplicated or reordered and however long the traffic
   goes on (validate_recv_seq, build_outgoing_frame_for_connection). *)
THEOREM LinkBroadcast == LinkSpec => []BroadcastKeepsStep
  <1>1. StepInv /\ [LinkNext]_linkVars => StepInv'
    <2> SUFFICES ASSUME StepInv, [LinkNext]_linkVars PROVE StepInv'
      OBVIOUS
    <2>1. CASE LinkNext
      BY <2>1, LinkKeeps
    <2>2. CASE UNCHANGED linkVars
      <3>1. UNCHANGED <<requested, sequence_counter, broadcast, recv_seq, refused, toServer>>
        BY <2>2, Zenon DEF linkVars, state, server, client, history, budget
      <3> QED BY <3>1 DEF StepInv, RequestsNumbered, BroadcastKeepsStep
    <2> QED BY <2>1, <2>2
  <1>2. StepInv => BroadcastKeepsStep
    BY DEF StepInv
  <1> QED BY StepInit, <1>1, <1>2, PTL DEF LinkSpec

-----------------------------------------------------------------------------
(* Types.  The calls of send stay within their bounds because a call that
   takes send_lock, and one that fails, goes on being counted. *)
Counters == {send_seq, recv_seq, expected_sequence_number, sequence_counter} \subseteq Seqs
Callers ==
    /\ waiting \in Nat /\ evicting \in Nat
    /\ sending \in [phase : {"idle", "awaiting"}, k : Nat, attempt : {0, 1}]
    /\ Calls <= setting.callers
    /\ sending.k + waiting <= setting.toClient
    /\ sending.phase = "awaiting" => sending.k > 0
Datagrams ==
    /\ answer \in TunnellingAck \cup {NoAnswer}
    /\ On(toClient) \subseteq TunnellingRequest
    /\ On(toServer) \subseteq TunnellingRequest \cup TunnellingAck
Accounts ==
    /\ open \in BOOLEAN /\ pending_ack \in BOOLEAN
    /\ acked \subseteq 1 .. setting.toClient
    /\ requested \in 0 .. setting.toServer
    /\ lost \in Nat /\ refused \in Nat /\ duplicated \in Nat
    /\ delivered \in Seq(Nat)
TrafficInv == setting \in Settings /\ Counters /\ Callers /\ Datagrams /\ Accounts

LEMMA SettingFacts ==
  ASSUME setting \in Settings
  PROVE  /\ setting.callers \in Nat /\ setting.toClient \in Nat /\ setting.toServer \in Nat
         /\ setting.timely \in BOOLEAN /\ setting.secure \in BOOLEAN
         /\ SeqMod \in Nat /\ SeqMod > 1
  BY LinkAssumption DEF Setting

LEMMA TrafficTyped == TrafficInv => LinkTypeOK
  <1> SUFFICES ASSUME TrafficInv PROVE LinkTypeOK
    OBVIOUS
  <1>1. /\ waiting \in 0 .. setting.callers /\ evicting \in 0 .. setting.callers
        /\ sending.k \in 0 .. setting.toClient
    BY SettingFacts DEF TrafficInv, Callers, Calls
  <1>2. sending \in [phase : {"idle", "awaiting"}, k : 0 .. setting.toClient,
                     attempt : 0 .. Attempts - 1]
    BY <1>1 DEF TrafficInv, Callers, Attempts
  <1> QED BY <1>1, <1>2 DEF TrafficInv, Counters, Datagrams, Accounts, LinkTypeOK

LEMMA TrafficInit == LinkInit => TrafficInv
  <1> SUFFICES ASSUME LinkInit PROVE TrafficInv
    OBVIOUS
  <1> USE DEF LinkInit
  <1>1. setting \in Settings
    OBVIOUS
  <1>2. Counters
    BY LinkAssumption DEF Counters, Seqs
  <1>3. Callers
    BY <1>1, SettingFacts DEF Callers, Calls, Idle
  <1>4. On(Nothing) = {}
    BY DEF Nothing, On
  <1>5. Datagrams
    BY <1>4 DEF Datagrams
  <1>6. Accounts
    <2>1. requested \in 0 .. setting.toServer /\ lost \in Nat /\ refused \in Nat
          /\ duplicated \in Nat /\ delivered \in Seq(Nat)
      BY <1>1, SettingFacts
    <2> QED BY <2>1, Zenon DEF Accounts
  <1> QED BY <1>1, <1>2, <1>3, <1>5, <1>6 DEF TrafficInv

LEMMA CountersStep ==
  ASSUME TrafficInv, LinkNext
  PROVE  Counters'
  <1>1. \A s \in Seqs : Succ(s) \in Seqs
    BY LinkAssumption DEF Seqs, Succ
  <1>2. \A s, r : Expect(s, r) \in {s, Succ(s)}
    BY DEF Expect
  <1>3. /\ send_seq' \in {send_seq, Succ(send_seq)}
        /\ sequence_counter' \in {sequence_counter, Succ(sequence_counter)}
    BY Zenon DEF LinkNext, Send, StartSend, AckTimeout, Answered, Evict, Attempt, Fail,
       ServerReceive, ClientReceive, ClientSend, Lose, Duplicate, server, client
  <1>4. /\ recv_seq' = recv_seq \/ \E r : recv_seq' = Expect(recv_seq, r)
        /\ \/ expected_sequence_number' = expected_sequence_number
           \/ \E r : expected_sequence_number' = Expect(expected_sequence_number, r)
    BY Zenon DEF LinkNext, Send, StartSend, AckTimeout, Answered, Evict, Attempt, Fail,
       ServerReceive, HandleTunnellingAck, ServerHandleRequest, ClientReceive, ClientSend, Lose,
       Duplicate, server, client
  <1> QED BY <1>1, <1>2, <1>3, <1>4 DEF TrafficInv, Counters

LEMMA CallersStep ==
  ASSUME TrafficInv, LinkNext
  PROVE  Callers'
  <1>0. /\ setting' = setting /\ setting.callers \in Nat /\ setting.toClient \in Nat
        /\ waiting \in Nat /\ evicting \in Nat
        /\ sending \in [phase : {"idle", "awaiting"}, k : Nat, attempt : {0, 1}]
        /\ Calls <= setting.callers /\ sending.k + waiting <= setting.toClient
        /\ sending.phase = "awaiting" => sending.k > 0
    BY SettingFacts DEF TrafficInv, Callers, LinkNext
  <1>1. CASE Send
    BY <1>0, <1>1 DEF Send, Callers, Calls
  <1>2. CASE StartSend
    <2>1. /\ waiting > 0 /\ sending.phase = "idle" /\ waiting' = waiting - 1
          /\ \/ /\ sending' = [phase |-> "awaiting", k |-> sending.k + 1, attempt |-> 0]
                /\ evicting' = evicting
             \/ /\ sending' = [phase |-> "idle", k |-> sending.k + 1, attempt |-> 0]
                /\ evicting' = evicting + 1
      BY <1>2 DEF StartSend, Attempt, Fail, Idle
    <2> QED BY <1>0, <2>1 DEF Callers, Calls
  <1>3. CASE AckTimeout \/ Answered
    <2>1. /\ sending.phase = "awaiting" /\ waiting' = waiting
          /\ \/ /\ sending' = [phase |-> "awaiting", k |-> sending.k,
                               attempt |-> sending.attempt + 1]
                /\ sending.attempt = 0 /\ evicting' = evicting
             \/ /\ sending' = [phase |-> "idle", k |-> sending.k, attempt |-> 0]
                /\ evicting' \in {evicting, evicting + 1}
      BY <1>0, <1>3 DEF AckTimeout, Answered, Attempt, Fail, Idle, Attempts
    <2> QED BY <1>0, <2>1 DEF Callers, Calls
  <1>4. CASE Evict
    BY <1>0, <1>4 DEF Evict, Callers, Calls
  <1>5. CASE ServerReceive \/ ClientReceive \/ ClientSend \/ Lose \/ Duplicate
    <2>1. UNCHANGED <<waiting, evicting, sending>>
      BY <1>5, Zenon DEF ServerReceive, ClientReceive, ClientSend, Lose, Duplicate, server
    <2> QED BY <1>0, <2>1 DEF Callers, Calls
  <1> QED BY <1>1, <1>2, <1>3, <1>4, <1>5, Zenon DEF LinkNext

LEMMA DatagramsStep ==
  ASSUME TrafficInv, LinkNext
  PROVE  Datagrams'
  <1>0. /\ setting' = setting /\ answer \in TunnellingAck \cup {NoAnswer}
        /\ On(toClient) \subseteq TunnellingRequest
        /\ On(toServer) \subseteq TunnellingRequest \cup TunnellingAck
    BY Zenon DEF TrafficInv, Datagrams, LinkNext
  <1>1. ASSUME answer' \in TunnellingAck \cup {NoAnswer},
               On(toClient') \subseteq TunnellingRequest,
               On(toServer') \subseteq TunnellingRequest \cup TunnellingAck
        PROVE  Datagrams'
    BY <1>0, <1>1, Zenon DEF Datagrams, TunnellingRequest, TunnellingAck, Telegrams
  <1>2. /\ setting.toClient \in Nat /\ setting.toServer \in Nat
        /\ sending.k \in Nat /\ waiting \in Nat /\ requested \in Nat
        /\ sending.k + waiting <= setting.toClient
        /\ sending.phase = "awaiting" => sending.k > 0
        /\ send_seq \in Seqs /\ sequence_counter \in Seqs
    BY SettingFacts DEF TrafficInv, Callers, Counters, Accounts
  <1>3. \A k \in Telegrams, q \in Seqs : Request(k, q) \in TunnellingRequest
    BY DEF Request, TunnellingRequest
  <1>4. CASE Send \/ Evict
    BY <1>0, <1>1, <1>4, Zenon DEF Send, Evict
  <1>5. CASE Answered
    BY <1>0, <1>1, <1>5, Zenon DEF Answered
  <1>6. CASE StartSend \/ AckTimeout
    <2>1. /\ toServer' = toServer /\ answer' \in {answer, NoAnswer}
          /\ \/ toClient' = toClient
             \/ /\ toClient' = Put(toClient, Request(sending.k + 1, send_seq))
                /\ waiting > 0
             \/ /\ toClient' = Put(toClient, Request(sending.k, send_seq))
                /\ sending.phase = "awaiting"
      BY <1>6, Zenon DEF StartSend, AckTimeout, Attempt, Fail
    <2>2. /\ waiting > 0 => sending.k + 1 \in Telegrams
          /\ sending.phase = "awaiting" => sending.k \in Telegrams
      BY <1>2 DEF Telegrams
    <2>3. On(toClient') \subseteq TunnellingRequest
      BY <1>0, <1>2, <1>3, <2>1, <2>2, PutNet
    <2> QED BY <1>0, <1>1, <2>1, <2>3, Zenon
  <1>7. CASE ServerReceive
    <2>1. PICK m \in On(toServer) :
             /\ toServer' = Take(toServer, m) /\ toClient' = toClient
             /\ answer' = answer \/ (answer' = m /\ m.type = "ack")
      BY <1>7, Zenon DEF ServerReceive, HandleTunnellingAck, ServerHandleRequest
    <2>2. m.type = "ack" => m \in TunnellingAck
      BY <1>0, <2>1 DEF TunnellingRequest
    <2> QED BY <1>0, <1>1, <2>1, <2>2, TakeNet, Zenon
  <1>8. CASE ClientReceive
    <2>1. PICK m \in On(toClient) :
             /\ toClient' = Take(toClient, m) /\ answer' = answer
             /\ \E ok \in BOOLEAN : toServer' = Put(toServer, Ack(m, ok))
      <3>1. \A e, q : (Verdict(e, q) # "Invalid") \in BOOLEAN
        OBVIOUS
      <3> QED BY <1>8, <3>1, Zenon DEF ClientReceive, server
    <2>2. \A ok \in BOOLEAN : Ack(m, ok) \in TunnellingAck
      BY <1>0, <2>1 DEF Ack, TunnellingAck, TunnellingRequest
    <2>3. On(toServer') \subseteq TunnellingRequest \cup TunnellingAck
      BY <1>0, <2>1, <2>2, PutNet
    <2> QED BY <1>0, <1>1, <2>1, <2>3, TakeNet, Zenon
  <1>9. CASE ClientSend
    <2>1. /\ toServer' = Put(toServer, Request(requested + 1, sequence_counter))
          /\ requested < setting.toServer /\ UNCHANGED <<toClient, answer>>
      BY <1>9, Zenon DEF ClientSend, server
    <2>2. requested + 1 \in Telegrams
      BY <1>2, <2>1 DEF Telegrams
    <2>3. On(toServer') \subseteq TunnellingRequest \cup TunnellingAck
      BY <1>0, <1>2, <1>3, <2>1, <2>2, PutNet
    <2> QED BY <1>0, <1>1, <2>1, <2>3, Zenon
  <1>10. CASE Lose \/ Duplicate
    <2>1. answer' = answer
      BY <1>10, Zenon DEF Lose, Duplicate, server
    <2>2. /\ \/ toClient' = toClient
             \/ \E m \in On(toClient) :
                   toClient' = Take(toClient, m) \/ toClient' = Put(toClient, m)
          /\ \/ toServer' = toServer
             \/ \E m \in On(toServer) :
                   toServer' = Take(toServer, m) \/ toServer' = Put(toServer, m)
      BY <1>10, Zenon DEF Lose, Duplicate
    <2>3. /\ On(toClient') \subseteq On(toClient)
          /\ On(toServer') \subseteq On(toServer)
      BY <2>2, PutNet, TakeNet
    <2> QED BY <1>0, <1>1, <2>1, <2>3, Zenon
  <1> QED BY <1>4, <1>5, <1>6, <1>7, <1>8, <1>9, <1>10, Zenon DEF LinkNext

LEMMA AccountsStep ==
  ASSUME TrafficInv, LinkNext
  PROVE  Accounts'
  <1>0. /\ setting' = setting /\ setting.toClient \in Nat /\ setting.toServer \in Nat
        /\ sending.k \in Nat /\ waiting \in Nat /\ requested \in 0 .. setting.toServer
        /\ sending.k + waiting <= setting.toClient
        /\ sending.phase = "awaiting" => sending.k > 0
        /\ lost \in Nat /\ refused \in Nat /\ duplicated \in Nat
    BY SettingFacts DEF TrafficInv, Callers, Accounts, LinkNext
  <1>1. open' \in BOOLEAN /\ pending_ack' \in BOOLEAN
    BY Zenon DEF TrafficInv, Accounts, LinkNext, Send, StartSend, AckTimeout, Answered, Evict,
       Attempt, Fail, ServerReceive, HandleTunnellingAck, ServerHandleRequest, ClientReceive,
       ClientSend, Lose, Duplicate, server
  <1>2. \/ acked' = acked
        \/ acked' = acked \cup {sending.k} /\ sending.phase = "awaiting"
    BY Zenon DEF LinkNext, Send, StartSend, AckTimeout, Answered, Evict, Attempt, Fail,
       ServerReceive, ClientReceive, ClientSend, Lose, Duplicate, history
  <1>3. acked' \subseteq 1 .. setting.toClient
    <2>1. sending.phase = "awaiting" => sending.k \in 1 .. setting.toClient
      BY <1>0
    <2> QED BY <1>2, <2>1, Zenon DEF TrafficInv, Accounts
  <1>4. \/ requested' = requested
        \/ requested' = requested + 1 /\ requested < setting.toServer
    BY Zenon DEF LinkNext, Send, StartSend, AckTimeout, Answered, Evict, Attempt, Fail,
       ServerReceive, ClientReceive, ClientSend, Lose, Duplicate, history
  <1>5. /\ lost' \in {lost, lost + 1} /\ refused' \in {refused, refused + 1}
        /\ duplicated' \in {duplicated, duplicated + 1}
    BY Zenon DEF LinkNext, Send, StartSend, AckTimeout, Answered, Evict, Attempt, Fail,
       ServerReceive, HandleTunnellingAck, ServerHandleRequest, ClientReceive, ClientSend, Lose,
       Duplicate, budget
  <1>6. /\ requested' \in 0 .. setting.toServer
        /\ lost' \in Nat /\ refused' \in Nat /\ duplicated' \in Nat
    BY <1>0, <1>4, <1>5
  <1>7. delivered' \in Seq(Nat)
    <2>1. \/ delivered' = delivered
          \/ \E m \in On(toClient) : delivered' = Append(delivered, m.k)
      BY Zenon DEF LinkNext, Send, StartSend, AckTimeout, Answered, Evict, Attempt, Fail,
         ServerReceive, ClientReceive, ClientSend, Lose, Duplicate, history
    <2>2. \A m \in On(toClient) : m.k \in Nat
      BY <1>0 DEF TrafficInv, Datagrams, TunnellingRequest, Telegrams
    <2>3. delivered \in Seq(Nat)
      BY DEF TrafficInv, Accounts
    <2> QED BY <2>1, <2>2, <2>3, AppendFacts, Zenon
  <1> QED BY <1>0, <1>1, <1>3, <1>6, <1>7, Zenon DEF Accounts

LEMMA TrafficStep ==
  ASSUME TrafficInv, [LinkNext]_linkVars
  PROVE  TrafficInv'
  <1>1. CASE LinkNext
    BY <1>1, CountersStep, CallersStep, DatagramsStep, AccountsStep DEF TrafficInv, LinkNext
  <1>2. CASE UNCHANGED linkVars
    BY <1>2, Zenon DEF linkVars, state, server, client, history, budget, TrafficInv, Counters,
       Callers, Calls, Datagrams, TunnellingRequest, TunnellingAck, Telegrams, Accounts
  <1> QED BY <1>1, <1>2

LEMMA TrafficInvariant == LinkSpec => []TrafficInv
  BY TrafficInit, TrafficStep, PTL DEF LinkSpec

(* The variables of the traffic have their types: the sequence numbers are in
   range and every datagram under way carries a telegram that was sent. *)
THEOREM LinkTypeCorrect == LinkSpec => []LinkTypeOK
  BY TrafficInvariant, TrafficTyped, PTL

-----------------------------------------------------------------------------
(* The telegrams of the server.  u[k] is the number of sends that had
   succeeded when telegram k went out, which is what its sequence number is
   the remainder of, and n is the number that has by now. *)
Numbers(u, n) ==
    /\ u \in [Nat -> Nat] /\ n \in Nat
    /\ Remainder(n, send_seq)
    /\ \A i \in 1 .. sending.k : u[i] <= n /\ n - u[i] <= sending.k + 1 - i
    /\ \A j \in 1 .. sending.k : \A i \in 1 .. j : u[i] <= u[j] /\ u[j] - u[i] <= j - i
    /\ sending.phase = "awaiting" => sending.k > 0 /\ u[sending.k] = n
Carried(u) ==
    \A m \in On(toClient) : m.k \in 1 .. sending.k /\ Remainder(u[m.k], m.seq)
HandedOn(u) ==
    /\ delivered \in Seq(Nat)
    /\ \A i \in 1 .. Len(delivered) : delivered[i] \in 1 .. sending.k
    /\ Len(delivered) > 0
         => Remainder(u[delivered[Len(delivered)]] + 1, expected_sequence_number)
    /\ DeliveredOnceInOrder
OrderInv ==
    /\ sending.k \in Nat
    /\ \E u, n : Numbers(u, n) /\ Carried(u) /\ HandedOn(u)

(* No request outlives a turn of the sequence counter: it arrives, or is
   lost, before SeqMod - 1 more telegrams have gone out. *)
NoneOutlivesATurn == \A m \in On(toClient) : sending.k - m.k < SeqMod - 1

LEMMA RemaindersApart ==
  ASSUME NEW a \in Nat, NEW b \in Nat, NEW r, Remainder(a, r), Remainder(b, r), a < b
  PROVE  b - a >= SeqMod
  <1>0. SeqMod \in Nat /\ SeqMod > 0 /\ r \in Nat
    BY LinkAssumption DEF Remainder, Seqs
  <1>1. PICK p \in Nat : a = SeqMod * p + r
    BY DEF Remainder
  <1>2. PICK q \in Nat : b = SeqMod * q + r
    BY DEF Remainder
  <1>3. SeqMod * p < SeqMod * q
    BY <1>0, <1>1, <1>2
  <1>4. q >= p + 1
    <2>1. CASE q <= p
      <3>1. SeqMod * q <= SeqMod * p
        BY <1>0, <2>1
      <3> QED BY <1>0, <1>3, <3>1
    <2> QED BY <2>1
  <1>5. SeqMod * q >= SeqMod * (p + 1)
    BY <1>0, <1>4
  <1>6. SeqMod * (p + 1) = SeqMod * p + SeqMod
    BY <1>0
  <1> QED BY <1>0, <1>1, <1>2, <1>5, <1>6

LEMMA OrderInit == LinkInit => OrderInv
  <1> SUFFICES ASSUME LinkInit PROVE OrderInv
    OBVIOUS
  <1>1. /\ sending = [phase |-> "idle", k |-> 0, attempt |-> 0] /\ send_seq = 0
        /\ delivered = <<>> /\ toClient = Nothing
    BY DEF LinkInit, Idle
  <1>2. Remainder(0, 0)
    <2>1. 0 \in Seqs /\ 0 = SeqMod * 0 + 0
      BY LinkAssumption DEF Seqs
    <2> QED BY <2>1 DEF Remainder
  <1>3. On(toClient) = {}
    BY <1>1 DEF Nothing, On
  <1> DEFINE u == [k \in Nat |-> 0]
  <1>4. Numbers(u, 0)
    BY <1>1, <1>2 DEF Numbers
  <1>5. Carried(u)
    BY <1>3 DEF Carried
  <1>6. HandedOn(u)
    BY <1>1 DEF HandedOn, DeliveredOnceInOrder, Increasing
  <1> QED BY <1>1, <1>4, <1>5, <1>6 DEF OrderInv

(* A send takes the lock, whether the socket then takes the frame or not. *)
LEMMA StartKeepsOrder ==
  ASSUME OrderInv, StartSend
  PROVE  OrderInv'
  <1> DEFINE k == sending.k
  <1>1. /\ sending'.k = k + 1
        /\ \/ toClient' = Put(toClient, Request(k + 1, send_seq))
           \/ toClient' = toClient
        /\ UNCHANGED <<send_seq, delivered, expected_sequence_number>>
    BY DEF StartSend, Attempt, Fail, Idle, client, history
  <1>2. PICK u, n : Numbers(u, n) /\ Carried(u) /\ HandedOn(u)
    BY DEF OrderInv
  <1>3. k \in Nat /\ u \in [Nat -> Nat] /\ n \in Nat
    BY <1>2 DEF OrderInv, Numbers
  <1>4. PICK w \in [Nat -> Nat] : w[k + 1] = n /\ \A i \in 1 .. k : w[i] = u[i]
    <2> DEFINE w == [u EXCEPT ![k + 1] = n]
    <2>1. w \in [Nat -> Nat] /\ w[k + 1] = n /\ \A i \in 1 .. k : w[i] = u[i]
      BY <1>3
    <2> QED BY <2>1, Zenon
  <1> HIDE DEF k
  <1>5. Numbers(w, n)'
    <2>1. \A i \in 1 .. k + 1 : w[i] <= n /\ n - w[i] <= k + 2 - i
      BY <1>2, <1>3, <1>4 DEF Numbers, k
    <2>2. ASSUME NEW j \in 1 .. k + 1, NEW i \in 1 .. j
          PROVE  w[i] <= w[j] /\ w[j] - w[i] <= j - i
      <3>1. CASE j = k + 1
        <4>1. i = k + 1 \/ i \in 1 .. k
          BY <1>3, <3>1
        <4>2. i \in 1 .. k => u[i] <= n /\ n - u[i] <= k + 1 - i
          BY <1>2 DEF Numbers, k
        <4> QED BY <1>3, <1>4, <3>1, <4>1, <4>2
      <3>2. CASE j \in 1 .. k
        <4>1. u[i] <= u[j] /\ u[j] - u[i] <= j - i /\ i \in 1 .. k
          BY <1>2, <1>3, <3>2 DEF Numbers, k
        <4> QED BY <1>4, <3>2, <4>1
      <3> QED BY <1>3, <3>1, <3>2
    <2>3. Remainder(n, send_seq')
      BY <1>1, <1>2 DEF Numbers
    <2> QED BY <1>1, <1>3, <1>4, <2>1, <2>2, <2>3 DEF Numbers
  <1>6. Carried(w)'
    <2>1. \A m \in On(toClient) : m.k \in 1 .. k + 1 /\ Remainder(w[m.k], m.seq)
      BY <1>2, <1>3, <1>4 DEF Carried, k
    <2>2. k + 1 \in 1 .. k + 1 /\ Remainder(w[k + 1], send_seq)
      BY <1>2, <1>3, <1>4 DEF Numbers
    <2>3. LET m == Request(k + 1, send_seq) IN m.k = k + 1 /\ m.seq = send_seq
      BY DEF Request
    <2> QED BY <1>1, <2>1, <2>2, <2>3, PutNet DEF Carried
  <1>7. HandedOn(w)'
    <2>1. /\ delivered \in Seq(Nat) /\ DeliveredOnceInOrder
          /\ \A i \in 1 .. Len(delivered) : delivered[i] \in 1 .. k
      BY <1>2 DEF HandedOn, k
    <2>2. Len(delivered) > 0 => delivered[Len(delivered)] \in 1 .. k
      BY <2>1
    <2>3. Len(delivered) > 0
            => Remainder(w[delivered[Len(delivered)]] + 1, expected_sequence_number)
      BY <1>2, <1>4, <2>2, Zenon DEF HandedOn
    <2>4. \A i \in 1 .. Len(delivered) : delivered[i] \in 1 .. k + 1
      <3>1. 1 .. k \subseteq 1 .. k + 1
        BY <1>3
      <3> QED BY <2>1, <3>1, Zenon
    <2> QED BY <1>1, <2>1, <2>3, <2>4 DEF HandedOn, DeliveredOnceInOrder
  <1>8. sending'.k \in Nat
    BY <1>1, <1>3
  <1> QED BY <1>5, <1>6, <1>7, <1>8 DEF OrderInv

(* A step that starts no telegram and hands none on: what is put on the wire
   is the telegram whose ack is awaited. *)
LEMMA SameTelegram ==
  ASSUME OrderInv, sending'.k = sending.k,
         UNCHANGED <<delivered, expected_sequence_number>>,
         \A m \in On(toClient') :
            \/ m \in On(toClient)
            \/ sending.phase = "awaiting" /\ m = Request(sending.k, send_seq),
         \/ /\ send_seq' = send_seq
            /\ sending'.phase = "awaiting" => sending.phase = "awaiting"
         \/ /\ send_seq' = Succ(send_seq)
            /\ sending.phase = "awaiting" /\ sending'.phase = "idle"
  PROVE  OrderInv'
  <1>1. PICK u, n : Numbers(u, n) /\ Carried(u) /\ HandedOn(u)
    BY DEF OrderInv
  <1>2. sending.k \in Nat /\ u \in [Nat -> Nat] /\ n \in Nat
    BY <1>1 DEF OrderInv, Numbers
  <1>3. HandedOn(u)'
    BY <1>1 DEF HandedOn, DeliveredOnceInOrder
  <1>4. Carried(u)'
    <2>1. ASSUME sending.phase = "awaiting"
          PROVE  LET m == Request(sending.k, send_seq)
                 IN  m.k \in 1 .. sending.k /\ Remainder(u[m.k], m.seq)
      BY <1>1, <1>2, <2>1 DEF Request, Numbers
    <2> QED BY <1>1, <2>1, Zenon DEF Carried
  <1>5. CASE /\ send_seq' = send_seq
             /\ sending'.phase = "awaiting" => sending.phase = "awaiting"
    <2>1. Numbers(u, n)'
      BY <1>1, <1>5, Zenon DEF Numbers
    <2> QED BY <1>2, <1>3, <1>4, <2>1, Zenon DEF OrderInv
  <1>6. CASE /\ send_seq' = Succ(send_seq)
             /\ sending.phase = "awaiting" /\ sending'.phase = "idle"
    <2>1. Remainder(n + 1, send_seq')
      BY <1>1, <1>2, <1>6, SuccRemainder DEF Numbers
    <2>2. ASSUME NEW i \in 1 .. sending.k
          PROVE  u[i] <= n + 1 /\ n + 1 - u[i] <= sending.k + 1 - i
      <3>1. sending.k \in 1 .. sending.k /\ u[sending.k] = n
        BY <1>1, <1>2, <1>6 DEF Numbers
      <3>2. u[i] <= n /\ n - u[i] <= sending.k - i /\ u[i] \in Nat
        BY <1>1, <1>2, <3>1 DEF Numbers
      <3> QED BY <1>2, <3>2
    <2>3. /\ \A j \in 1 .. sending.k : \A i \in 1 .. j : u[i] <= u[j] /\ u[j] - u[i] <= j - i
          /\ n + 1 \in Nat
      BY <1>1, <1>2 DEF Numbers
    <2>4. Numbers(u, n + 1)'
      BY <1>2, <1>6, <2>1, <2>2, <2>3 DEF Numbers
    <2> QED BY <1>2, <1>3, <1>4, <2>4, Zenon DEF OrderInv
  <1> QED BY <1>5, <1>6

LEMMA IncreasingAppend ==
  ASSUME NEW s \in Seq(Nat), NEW x \in Nat, Increasing(s), Len(s) > 0 => s[Len(s)] < x
  PROVE  Increasing(Append(s, x))
  <1> DEFINE t == Append(s, x)
  <1>1. /\ Len(s) \in Nat /\ Len(t) = Len(s) + 1 /\ t[Len(s) + 1] = x
        /\ \A i \in 1 .. Len(s) : t[i] = s[i]
    BY AppendFacts
  <1> HIDE DEF t
  <1>2. ASSUME NEW i \in 1 .. Len(t) - 1 PROVE t[i] < t[i + 1]
    <2>1. CASE i = Len(s)
      BY <1>1, <2>1
    <2>2. CASE i \in 1 .. Len(s) - 1
      <3>1. i \in 1 .. Len(s) /\ i + 1 \in 1 .. Len(s) /\ s[i] < s[i + 1]
        BY <1>1, <2>2 DEF Increasing
      <3> QED BY <1>1, <3>1
    <2> QED BY <1>1, <2>1, <2>2
  <1> QED BY <1>2 DEF Increasing, t

(* The client hands a telegram on: one that follows the last. *)
LEMMA ReceiveKeepsOrder ==
  ASSUME OrderInv, NoneOutlivesATurn, ClientReceive
  PROVE  OrderInv'
  <1> DEFINE k == sending.k
             last == delivered[Len(delivered)]
  <1>1. PICK m \in On(toClient) :
           /\ toClient' = Take(toClient, m)
           /\ expected_sequence_number' = Expect(expected_sequence_number, m.seq)
           /\ delivered' = IF Verdict(expected_sequence_number, m.seq) = "Valid"
                           THEN Append(delivered, m.k) ELSE delivered
           /\ UNCHANGED <<sending, send_seq>>
    BY Zenon DEF ClientReceive, server
  <1>2. \A x \in On(toClient') : x \in On(toClient)
    BY <1>1, TakeNet
  <1>3. CASE m.seq # expected_sequence_number
    <2>1. Verdict(expected_sequence_number, m.seq) # "Valid"
      BY <1>3 DEF Verdict
    <2>2. UNCHANGED <<delivered, expected_sequence_number>>
      BY <1>1, <2>1 DEF Expect
    <2> QED BY <1>1, <1>2, <2>2, SameTelegram
  <1>4. CASE m.seq = expected_sequence_number
    <2>1. /\ expected_sequence_number' = Succ(expected_sequence_number)
          /\ delivered' = Append(delivered, m.k)
      BY <1>1, <1>4 DEF Verdict, Expect
    <2>2. PICK u, n : Numbers(u, n) /\ Carried(u) /\ HandedOn(u)
      BY DEF OrderInv
    <2>3. /\ k \in Nat /\ u \in [Nat -> Nat] /\ m.k \in 1 .. k
          /\ Remainder(u[m.k], expected_sequence_number)
      BY <1>1, <1>4, <2>2, Zenon DEF OrderInv, Numbers, Carried
    <2>4. k - m.k < SeqMod - 1 /\ SeqMod \in Nat
      BY <1>1, LinkAssumption DEF NoneOutlivesATurn
    <2>5. /\ delivered \in Seq(Nat) /\ Len(delivered) \in Nat
          /\ \A i \in 1 .. Len(delivered) : delivered[i] \in 1 .. k
          /\ Increasing(delivered)
      BY <2>2 DEF HandedOn, DeliveredOnceInOrder
    <2>6. ASSUME Len(delivered) > 0 PROVE last < m.k
      <3>1. last \in 1 .. k /\ Remainder(u[last] + 1, expected_sequence_number)
        BY <2>2, <2>5, <2>6 DEF HandedOn
      <3> HIDE DEF last
      <3>2. CASE m.k <= last
        <4>1. m.k \in 1 .. last
          BY <2>3, <3>1, <3>2
        <4>2. u[m.k] <= u[last] /\ u[last] - u[m.k] <= last - m.k
          BY <2>2, <3>1, <4>1, Zenon DEF Numbers
        <4>3. u[m.k] \in Nat /\ u[last] \in Nat /\ u[last] + 1 \in Nat
          BY <2>3, <3>1
        <4>4. u[last] + 1 - u[m.k] >= SeqMod
          BY <2>3, <3>1, <4>2, <4>3, RemaindersApart
        <4> QED BY <2>3, <2>4, <3>1, <4>2, <4>3, <4>4
      <3> QED BY <2>3, <3>1, <3>2
    <2> HIDE DEF last
    <2>7. /\ delivered' \in Seq(Nat) /\ Len(delivered') = Len(delivered) + 1
          /\ delivered'[Len(delivered) + 1] = m.k
          /\ 1 .. Len(delivered') = 1 .. Len(delivered) \cup {Len(delivered) + 1}
          /\ \A i \in 1 .. Len(delivered) : delivered'[i] = delivered[i]
      <3>1. m.k \in Nat
        BY <2>3
      <3> QED BY <2>1, <2>5, <3>1, AppendFacts
    <2>8. Increasing(delivered')
      <3>1. m.k \in Nat
        BY <2>3
      <3> QED BY <2>1, <2>5, <2>6, <3>1, IncreasingAppend DEF last
    <2>9. \A i \in 1 .. Len(delivered') : delivered'[i] \in 1 .. k
      BY <2>3, <2>5, <2>7, Zenon
    <2>10. Remainder(u[m.k] + 1, expected_sequence_number')
      <3>1. u[m.k] \in Nat
        BY <2>3
      <3> QED BY <2>1, <2>3, <3>1, SuccRemainder, Zenon
    <2>11. HandedOn(u)'
      BY <1>1, <2>5, <2>7, <2>8, <2>9, <2>10 DEF HandedOn, DeliveredOnceInOrder
    <2>12. Numbers(u, n)'
      BY <1>1, <2>2, Zenon DEF Numbers
    <2>13. Carried(u)'
      BY <1>1, <1>2, <2>2, Zenon DEF Carried
    <2> QED BY <1>1, <2>3, <2>11, <2>12, <2>13 DEF OrderInv
  <1> QED BY <1>3, <1>4

LEMMA OrderStep ==
  ASSUME OrderInv, NoneOutlivesATurn, LinkNext
  PROVE  OrderInv'
  <1>1. CASE Send \/ Evict \/ ServerReceive \/ ClientSend
    <2>1. UNCHANGED <<sending, send_seq, toClient, delivered, expected_sequence_number>>
      BY <1>1, Zenon DEF Send, Evict, ServerReceive, ClientSend, client, server, history
    <2> QED BY <2>1, SameTelegram
  <1>2. CASE AckTimeout
    <2>1. /\ sending.phase = "awaiting" /\ sending'.k = sending.k
          /\ UNCHANGED <<send_seq, delivered, expected_sequence_number>>
          /\ \/ toClient' = toClient
             \/ toClient' = Put(toClient, Request(sending.k, send_seq))
      BY <1>2 DEF AckTimeout, Attempt, Fail, Idle, client, history
    <2> QED BY <2>1, PutNet, SameTelegram
  <1>3. CASE Answered
    <2>1. /\ sending.phase = "awaiting" /\ sending'.k = sending.k /\ sending'.phase = "idle"
          /\ UNCHANGED <<toClient, delivered, expected_sequence_number>>
          /\ send_seq' = send_seq \/ send_seq' = Succ(send_seq)
      BY <1>3 DEF Answered, Fail, Idle, client
    <2> QED BY <2>1, SameTelegram
  <1>4. CASE Lose \/ Duplicate
    <2>1. /\ UNCHANGED <<sending, send_seq, delivered, expected_sequence_number>>
          /\ \/ toClient' = toClient
             \/ \E m \in On(toClient) :
                   toClient' = Take(toClient, m) \/ toClient' = Put(toClient, m)
      BY <1>4, Zenon DEF Lose, Duplicate, server, client, history
    <2>2. \A m \in On(toClient') : m \in On(toClient)
      BY <2>1, PutNet, TakeNet
    <2> QED BY <2>1, <2>2, SameTelegram
  <1> QED
    BY <1>1, <1>2, <1>3, <1>4, StartKeepsOrder, ReceiveKeepsOrder, Zenon DEF LinkNext

LEMMA OrderKept ==
  ASSUME OrderInv, NoneOutlivesATurn, [LinkNext]_linkVars
  PROVE  OrderInv'
  <1>1. CASE LinkNext
    BY <1>1, OrderStep
  <1>2. CASE UNCHANGED linkVars
    <2>1. UNCHANGED <<sending, send_seq, toClient, delivered, expected_sequence_number>>
      BY <1>2, Zenon DEF linkVars, state, server, client, history
    <2> QED BY <2>1, SameTelegram
  <1> QED BY <1>1, <1>2

(* The client hands each telegram on at most once and in order, however the
   network loses, repeats and reorders and however late the acks come, as
   long as no request outlives a turn of the sequence counter
   (validate_sequence_number; the counter is a u8). *)
THEOREM LinkDeliveredInOrder == LinkSpec /\ []NoneOutlivesATurn => []DeliveredOnceInOrder
  <1>1. OrderInv /\ NoneOutlivesATurn /\ [LinkNext]_linkVars => OrderInv'
    BY OrderKept
  <1>2. OrderInv => DeliveredOnceInOrder
    BY DEF OrderInv, HandedOn
  <1> QED BY OrderInit, <1>1, <1>2, PTL DEF LinkSpec

(* So a session that sends fewer telegrams than the counter's range needs no
   such premise. *)
THEOREM LinkShortSessionInOrder ==
  ASSUME \A s \in Settings : s.toClient < SeqMod
  PROVE  LinkSpec => []DeliveredOnceInOrder
  <1>1. TrafficInv => NoneOutlivesATurn
    <2> SUFFICES ASSUME TrafficInv, NEW m \in On(toClient)
                 PROVE  sending.k - m.k < SeqMod - 1
      BY DEF NoneOutlivesATurn
    <2>1. /\ setting.toClient \in Nat /\ setting.toServer \in Nat /\ SeqMod \in Nat
          /\ setting.toClient < SeqMod
      BY SettingFacts DEF TrafficInv
    <2>2. m.k \in Nat /\ m.k >= 1
      BY <2>1 DEF TrafficInv, Datagrams, TunnellingRequest, Telegrams
    <2>3. sending.k \in Nat /\ sending.k <= setting.toClient
      BY <2>1 DEF TrafficInv, Callers
    <2> QED BY <2>1, <2>2, <2>3
  <1> QED BY <1>1, TrafficInvariant, LinkDeliveredInOrder, PTL

-----------------------------------------------------------------------------
(* The retry.  When acks come in time and nothing is repeated, one datagram
   at most of the server's traffic is under way, and it belongs to the
   telegram whose ack is awaited; so no ack answers another telegram. *)
UnderWay == On(toClient) \cup Acks
Alone ==
    /\ \A m \in On(toClient) :
         toClient[m] = 1 /\ m.k = sending.k /\ m.seq = send_seq
    /\ \A m \in Acks : toServer[m] = 1 /\ m.k = sending.k
    /\ \A m, n \in UnderWay : m = n
    /\ UnderWay # {} => sending.phase = "awaiting" /\ answer = NoAnswer
    /\ answer # NoAnswer => sending.phase = "awaiting"
    /\ sending.phase = "awaiting" /\ answer = NoAnswer => pending_ack

(* Until a send fails, an ack means that the client has the telegram and
   expects the next number, and every attempt but the last has cost a
   datagram. *)
Healthy == open /\ evicting = 0
Handed == {delivered[i] : i \in DOMAIN delivered}
Got == expected_sequence_number = Succ(send_seq) /\ sending.k \in Handed
Agree ==
    /\ acked \subseteq Handed
    /\ send_seq = expected_sequence_number \/ (sending.phase = "awaiting" /\ Got)
    /\ \A m \in Acks : m.ok /\ Got
    /\ answer # NoAnswer => answer.ok /\ Got
    /\ sending.phase = "awaiting" => lost >= sending.attempt
    /\ sending.phase = "awaiting" /\ answer = NoAnswer /\ UnderWay = {}
         => lost > sending.attempt
Retrying ==
    /\ Alone
    /\ Healthy => Agree
    /\ lost <= 1 /\ refused = 0 => Healthy
RetryInv == InTime => Retrying

LEMMA RetryImplies == TrafficInv /\ RetryInv => RetryWorks
  <1> SUFFICES ASSUME TrafficInv, RetryInv, InTime PROVE RetryWorks
    BY DEF RetryWorks, AckedWasDelivered, EndsAgree, OneLossIsSurvived
  <1> QED
    BY Zenon DEF RetryInv, Retrying, Healthy, Agree, Handed, RetryWorks, AckedWasDelivered,
       EndsAgree, OneLossIsSurvived

LEMMA RetryInit == LinkInit => RetryInv
  <1> SUFFICES ASSUME LinkInit PROVE Retrying
    BY DEF RetryInv
  <1> USE DEF LinkInit
  <1>1. On(Nothing) = {}
    BY DEF Nothing, On
  <1>2. UnderWay = {} /\ Acks = {} /\ On(toClient) = {}
    BY <1>1 DEF UnderWay, Acks
  <1>3. sending.phase = "idle" /\ answer = NoAnswer
    BY DEF Idle
  <1>4. Alone
    BY <1>2, <1>3 DEF Alone
  <1>5. Healthy /\ Agree
    BY <1>2, <1>3 DEF Healthy, Agree
  <1> QED BY <1>4, <1>5 DEF Retrying

(* How many copies are. *)
LEMMA PutNew == ASSUME NEW net, NEW m, m \notin On(net) PROVE Put(net, m)[m] = 1
  BY DEF Put, Copies, On
LEMMA PutOther ==
  ASSUME NEW net, NEW m, NEW n \in On(net), n # m, net[n] = 1
  PROVE  Put(net, m)[n] = 1
  BY DEF Put, Copies, On
LEMMA TakeOnly ==
  ASSUME NEW net, NEW m \in On(net), net[m] = 1
  PROVE  m \notin On(Take(net, m))
  BY DEF Take, On
LEMMA TakeOther ==
  ASSUME NEW net, NEW m, NEW n \in On(net), n # m, net[n] = 1
  PROVE  n \in On(Take(net, m)) /\ Take(net, m)[n] = 1
  BY DEF Take, On

(* A step that leaves the server's traffic as it is. *)
LEMMA RetryUntouched ==
  ASSUME Alone, lost \in Nat, lost' \in Nat, lost' >= lost, sending.attempt \in {0, 1},
         UNCHANGED <<sending, send_seq, answer, pending_ack, toClient, delivered, acked,
                     expected_sequence_number>>,
         Acks' = Acks, \A m \in Acks : toServer'[m] = 1
  PROVE  Alone' /\ (Agree => Agree')
  <1>1. UnderWay' = UnderWay /\ Handed' = Handed
    BY Zenon DEF UnderWay, Handed
  <1>2. Alone'
    BY <1>1, Zenon DEF Alone
  <1>3. ASSUME Agree PROVE Agree'
    <2>1. /\ sending'.phase = "awaiting" => lost' >= sending'.attempt
          /\ sending'.phase = "awaiting" /\ answer' = NoAnswer /\ UnderWay' = {}
               => lost' > sending'.attempt
      BY <1>1, <1>3 DEF Agree
    <2> QED BY <1>1, <1>3, <2>1, Zenon DEF Agree, Got
  <1> QED BY <1>2, <1>3

(* An attempt: nothing is under way before it. *)
LEMMA RetryAttempt ==
  ASSUME TrafficInv, Retrying, InTime, UnderWay = {}, NEW k \in Nat, NEW a \in {0, 1},
         Attempt(k, a),
         Healthy => /\ send_seq = expected_sequence_number \/ (sending.k = k /\ Got)
                    /\ lost >= a
  PROVE  Retrying'
  <1>1. /\ pending_ack' = TRUE /\ answer' = NoAnswer
        /\ UNCHANGED <<open, send_seq, toServer, delivered, acked, lost,
                       expected_sequence_number>>
    BY Zenon DEF Attempt, client, history
  <1>2. On(toClient) = {} /\ Acks = {} /\ Acks' = {}
    BY <1>1 DEF UnderWay, Acks
  <1>3. CASE /\ sending' = [phase |-> "awaiting", k |-> k, attempt |-> a]
             /\ toClient' = Put(toClient, Request(k, send_seq))
             /\ UNCHANGED <<evicting, refused>>
    <2> DEFINE m == Request(k, send_seq)
    <2>1. On(toClient') = {m} /\ toClient'[m] = 1 /\ UnderWay' = {m}
      BY <1>2, <1>3, PutNet, PutNew DEF UnderWay
    <2>2. m.k = k /\ m.seq = send_seq
      BY DEF Request
    <2> HIDE DEF m
    <2>3. Alone'
      BY <1>1, <1>2, <1>3, <2>1, <2>2 DEF Alone
    <2>4. ASSUME Healthy PROVE Agree'
      <3>1. Handed' = Handed /\ acked \subseteq Handed /\ lost \in Nat
        BY <1>1, <2>4 DEF Handed, Retrying, Agree, TrafficInv, Accounts
      <3>2. send_seq = expected_sequence_number \/ Got'
        BY <1>1, <1>3, <2>4, <3>1 DEF Got
      <3> QED BY <1>1, <1>2, <1>3, <2>1, <2>4, <3>1, <3>2 DEF Agree
    <2> QED BY <1>1, <1>3, <2>3, <2>4 DEF Retrying, Healthy
  <1>4. CASE /\ refused' = refused + 1 /\ Fail(k) /\ UNCHANGED toClient
    <2>1. /\ sending'.phase = "idle" /\ evicting' # 0 /\ refused' # 0
      BY <1>4 DEF Fail, Idle, TrafficInv, Callers, Accounts
    <2>2. UnderWay' = {}
      BY <1>2, <1>4 DEF UnderWay
    <2>3. Alone'
      BY <1>1, <1>2, <1>4, <2>1, <2>2 DEF Alone
    <2> QED BY <2>1, <2>3 DEF Retrying, Healthy
  <1> QED BY <1>3, <1>4, Zenon DEF Attempt

LEMMA RetryStart ==
  ASSUME TrafficInv, Retrying, InTime, StartSend
  PROVE  Retrying'
  <1>1. sending.phase = "idle" /\ sending.k + 1 \in Nat /\ Attempt(sending.k + 1, 0)
    BY DEF StartSend, TrafficInv, Callers
  <1>2. UnderWay = {}
    BY <1>1 DEF Retrying, Alone
  <1>3. Healthy => send_seq = expected_sequence_number /\ lost >= 0
    BY <1>1 DEF Retrying, Agree, TrafficInv, Accounts
  <1> QED BY <1>1, <1>2, <1>3, RetryAttempt

LEMMA RetryTimeout ==
  ASSUME TrafficInv, Retrying, InTime, AckTimeout
  PROVE  Retrying'
  <1>1. /\ sending.phase = "awaiting" /\ answer = NoAnswer /\ sending.k \in Nat
        /\ sending.attempt \in {0, 1} /\ lost \in Nat
    BY DEF AckTimeout, TrafficInv, Callers, Accounts
  <1>2. UnderWay = {}
    <2>1. ~InFlight(sending.k)
      BY DEF AckTimeout, InTime
    <2>2. \A m \in UnderWay : m.k = sending.k
      BY Zenon DEF Retrying, Alone, UnderWay
    <2> QED BY <2>1, <2>2 DEF InFlight, UnderWay
  <1>3. Healthy => /\ send_seq = expected_sequence_number \/ Got
                   /\ lost > sending.attempt
    BY <1>1, <1>2 DEF Retrying, Agree
  <1>4. CASE /\ sending.attempt + 1 < Attempts
             /\ Attempt(sending.k, sending.attempt + 1)
    <2>1. sending.attempt + 1 \in {0, 1} /\ (Healthy => lost >= sending.attempt + 1)
      BY <1>1, <1>3, <1>4 DEF Attempts
    <2> QED BY <1>1, <1>2, <1>3, <1>4, <2>1, RetryAttempt
  <1>5. CASE /\ sending.attempt + 1 = Attempts /\ Fail(sending.k)
             /\ UNCHANGED <<open, pending_ack, answer, toClient, toServer, budget>>
    <2>1. sending.attempt = 1 /\ (Healthy => lost >= 2)
      BY <1>1, <1>3, <1>5 DEF Attempts
    <2>2. sending'.phase = "idle" /\ evicting' # 0 /\ UNCHANGED <<lost, refused>>
      BY <1>5 DEF Fail, Idle, TrafficInv, Callers, budget
    <2>3. UnderWay' = {} /\ answer' = NoAnswer /\ On(toClient') = {} /\ Acks' = {}
      BY <1>1, <1>2, <1>5, Zenon DEF UnderWay, Acks
    <2>4. Alone'
      BY <2>2, <2>3 DEF Alone
    <2>5. ~(lost' <= 1 /\ refused' = 0)
      BY <1>1, <2>1, <2>2 DEF Retrying
    <2> QED BY <2>2, <2>4, <2>5 DEF Retrying, Healthy
  <1> QED BY <1>4, <1>5, Zenon DEF AckTimeout

LEMMA RetryAnswered ==
  ASSUME TrafficInv, Retrying, InTime, Answered
  PROVE  Retrying'
  <1>1. /\ sending.phase = "awaiting" /\ answer # NoAnswer /\ answer' = NoAnswer
        /\ UNCHANGED <<open, toClient, toServer, delivered, expected_sequence_number, lost,
                       refused>>
    BY Zenon DEF Answered, client, budget
  <1>2. UnderWay = {} /\ UnderWay' = {} /\ Acks' = {} /\ On(toClient') = {}
    <2>1. UnderWay = {}
      BY <1>1 DEF Retrying, Alone
    <2> QED BY <1>1, <2>1, Zenon DEF UnderWay, Acks
  <1>3. sending'.phase = "idle"
    BY DEF Answered, Fail, Idle
  <1>4. Alone'
    BY <1>1, <1>2, <1>3 DEF Alone
  <1>5. Healthy => answer.ok /\ Got /\ acked \subseteq Handed
    BY <1>1 DEF Retrying, Agree
  <1>6. CASE /\ answer.ok /\ send_seq' = Succ(send_seq) /\ acked' = acked \cup {sending.k}
             /\ UNCHANGED evicting
    <2>1. ASSUME Healthy PROVE Agree'
      <3>1. Handed' = Handed
        BY <1>1 DEF Handed
      <3>2. acked' \subseteq Handed' /\ send_seq' = expected_sequence_number'
        BY <1>1, <1>5, <1>6, <2>1, <3>1 DEF Got
      <3> QED BY <1>1, <1>2, <1>3, <3>2 DEF Agree
    <2> QED BY <1>1, <1>4, <1>6, <2>1 DEF Retrying, Healthy
  <1>7. CASE ~answer.ok /\ Fail(sending.k)
    <2>1. evicting' # 0
      BY <1>7 DEF Fail, TrafficInv, Callers
    <2>2. ~(lost' <= 1 /\ refused' = 0)
      BY <1>1, <1>5, <1>7 DEF Retrying
    <2> QED BY <1>4, <2>1, <2>2 DEF Retrying, Healthy
  <1> QED BY <1>6, <1>7, Zenon DEF Answered

(* A datagram leaves the wire to the server. *)
LEMMA RetryTaken ==
  ASSUME TrafficInv, Alone, NEW m \in On(toServer), toServer' = Take(toServer, m)
  PROVE  /\ m.type = "request" => Acks' = Acks /\ \A n \in Acks : toServer'[n] = 1
         /\ m.type = "ack" => m \in Acks /\ Acks' = {} /\ On(toClient) = {}
         /\ m.type \in {"request", "ack"}
  <1>1. On(toServer') \subseteq On(toServer)
    BY TakeNet
  <1>2. \A n \in Acks : toServer[n] = 1
    BY DEF Alone
  <1>3. ASSUME m.type = "request" PROVE Acks' = Acks /\ \A n \in Acks : toServer'[n] = 1
    <2>1. ASSUME NEW n \in Acks PROVE n \in On(toServer') /\ toServer'[n] = 1
      <3>1. n \in On(toServer) /\ n # m /\ toServer[n] = 1
        BY <1>2, <1>3 DEF Acks
      <3> QED BY <3>1, TakeOther
    <2> QED BY <1>1, <2>1, Zenon DEF Acks
  <1>4. ASSUME m.type = "ack"
        PROVE  m \in Acks /\ Acks' = {} /\ On(toClient) = {}
    <2>1. m \in Acks /\ m \in UnderWay
      BY <1>4 DEF Acks, UnderWay
    <2>2. m \notin On(toServer')
      BY <1>2, <2>1, TakeOnly
    <2>3. \A n \in UnderWay : n = m
      BY <2>1, Zenon DEF Alone
    <2>4. Acks' = {}
      BY <1>1, <2>2, <2>3 DEF Acks, UnderWay
    <2>5. m \notin On(toClient)
      BY <1>4 DEF TrafficInv, Datagrams, TunnellingRequest
    <2> QED BY <2>1, <2>3, <2>4, <2>5, Zenon DEF UnderWay
  <1>5. m.type \in {"request", "ack"}
    BY DEF TrafficInv, Datagrams, TunnellingRequest, TunnellingAck
  <1> QED BY <1>3, <1>4, <1>5

LEMMA RetryServerReceive ==
  ASSUME TrafficInv, Retrying, InTime, ServerReceive
  PROVE  Retrying'
  <1>1. PICK m \in On(toServer) :
           /\ toServer' = Take(toServer, m)
           /\ \/ m.type = "ack" /\ HandleTunnellingAck(m)
              \/ m.type = "request" /\ ServerHandleRequest(m)
              \/ ~Dispatched(m) /\ UNCHANGED <<refused, pending_ack, answer>>
           /\ UNCHANGED <<open, evicting, sending, send_seq, toClient, delivered, acked,
                          expected_sequence_number, lost>>
    BY Zenon DEF ServerReceive, client
  <1>2. Dispatched(m)
    BY DEF InTime, Dispatched
  <1>3. Alone /\ lost \in Nat /\ sending.attempt \in {0, 1} /\ refused \in Nat
    BY DEF Retrying, TrafficInv, Accounts, Callers
  <1>4. CASE m.type = "request" /\ ServerHandleRequest(m)
    <2>1. UNCHANGED <<pending_ack, answer>> /\ refused' \in {refused, refused + 1}
      BY <1>4, Zenon DEF ServerHandleRequest
    <2>2. Acks' = Acks /\ \A n \in Acks : toServer'[n] = 1
      BY <1>1, <1>3, <1>4, RetryTaken, Zenon
    <2>3. lost' \in Nat /\ lost' >= lost
      BY <1>1, <1>3
    <2>4. Alone' /\ (Agree => Agree')
      BY <1>1, <1>3, <2>1, <2>2, <2>3, RetryUntouched, Zenon
    <2>5. refused' = 0 => refused = 0
      BY <1>3, <2>1
    <2> QED BY <1>1, <2>4, <2>5, Zenon DEF Retrying, Healthy
  <1>5. CASE m.type = "ack" /\ HandleTunnellingAck(m)
    <2>1. m \in Acks /\ Acks' = {} /\ On(toClient) = {}
      BY <1>1, <1>3, <1>5, RetryTaken, Zenon
    <2>2. UnderWay # {} /\ UnderWay' = {} /\ On(toClient') = {}
      BY <1>1, <2>1 DEF UnderWay
    <2>3. sending.phase = "awaiting" /\ answer = NoAnswer /\ pending_ack
      BY <1>3, <2>2 DEF Alone
    <2>4. /\ refused' = refused
          /\ open => answer' = m /\ m # NoAnswer
          /\ ~open => answer' = answer /\ pending_ack' = pending_ack
      <3>1. NoAnswer.type = "none"
        BY DEF NoAnswer
      <3>2. m # NoAnswer
        BY <1>5, <3>1
      <3> QED BY <1>5, <2>3, <3>2, Zenon DEF HandleTunnellingAck
    <2>5. Alone'
      BY <1>1, <2>1, <2>2, <2>3, <2>4, Zenon DEF Alone
    <2>6. ASSUME Healthy PROVE Agree'
      <3>1. Agree /\ m.ok /\ Got /\ Handed' = Handed
        BY <1>1, <2>1, <2>6 DEF Retrying, Agree, Handed
      <3>2. answer' = m /\ m # NoAnswer
        BY <2>4, <2>6 DEF Healthy
      <3> QED BY <1>1, <2>1, <2>3, <3>1, <3>2 DEF Agree, Got
    <2> QED BY <1>1, <2>4, <2>5, <2>6, Zenon DEF Retrying, Healthy
  <1> QED BY <1>1, <1>2, <1>4, <1>5, Zenon

LEMMA PredSucc == ASSUME NEW s \in Seqs PROVE Pred(Succ(s)) = s
  <1>0. SeqMod \in Nat /\ SeqMod > 1 /\ s \in Nat /\ s < SeqMod
    BY LinkAssumption DEF Seqs
  <1>1. CASE s + 1 < SeqMod
    <2>1. Succ(s) = s + 1
      BY <1>0, <1>1 DEF Succ
    <2>2. (s + SeqMod) % SeqMod = s
      <3>1. s + SeqMod = SeqMod * 1 + s
        BY <1>0
      <3> QED BY <3>1, ModFacts
    <2> QED BY <1>0, <2>1, <2>2 DEF Pred
  <1>2. CASE s + 1 = SeqMod
    <2>1. Succ(s) = 0
      BY <1>0, <1>2 DEF Succ
    <2> QED BY <1>0, <1>2, <2>1 DEF Pred
  <1> QED BY <1>0, <1>1, <1>2

(* The client acknowledges the request: it expected it, or has it already. *)
LEMMA RetryClientReceive ==
  ASSUME TrafficInv, Retrying, InTime, ClientReceive
  PROVE  Retrying'
  <1> DEFINE e == expected_sequence_number
  <1>1. PICK m \in On(toClient) :
           /\ toClient' = Take(toClient, m)
           /\ e' = Expect(e, m.seq)
           /\ toServer' = Put(toServer, Ack(m, Verdict(e, m.seq) # "Invalid"))
           /\ delivered' = IF Verdict(e, m.seq) = "Valid" THEN Append(delivered, m.k)
                           ELSE delivered
           /\ UNCHANGED <<open, evicting, sending, send_seq, answer, pending_ack, acked, lost,
                          refused>>
    BY Zenon DEF ClientReceive, server, budget
  <1> DEFINE a == Ack(m, Verdict(e, m.seq) # "Invalid")
  <1>2. /\ toClient[m] = 1 /\ m.k = sending.k /\ m.seq = send_seq /\ m.k \in Nat
        /\ \A n \in UnderWay : n = m
        /\ sending.phase = "awaiting" /\ answer = NoAnswer /\ pending_ack
    <2>1. m \in UnderWay
      BY DEF UnderWay
    <2>2. m.k \in Nat
      BY SettingFacts DEF TrafficInv, Datagrams, TunnellingRequest, Telegrams
    <2> QED BY <2>1, <2>2, Zenon DEF Retrying, Alone
  <1>3. On(toClient') = {}
    <2>1. \A n \in On(toClient) : n = m
      BY <1>2, Zenon DEF UnderWay
    <2>2. m \notin On(toClient')
      BY <1>1, <1>2, TakeOnly
    <2> QED BY <1>1, <2>1, <2>2, TakeNet
  <1>4. Acks = {}
    <2>1. m \notin Acks
      BY DEF Acks, TrafficInv, Datagrams, TunnellingRequest
    <2> QED BY <1>2, <2>1, Zenon DEF UnderWay
  <1>5. a.type = "ack" /\ a.k = sending.k /\ a.ok = (Verdict(e, m.seq) # "Invalid")
    BY <1>2 DEF Ack
  <1> HIDE DEF a
  <1>6. Acks' = {a} /\ toServer'[a] = 1 /\ UnderWay' = {a}
    <2>1. a \notin On(toServer)
      BY <1>4, <1>5 DEF Acks
    <2>2. On(toServer') = On(toServer) \cup {a} /\ toServer'[a] = 1
      BY <1>1, <2>1, PutNet, PutNew DEF a
    <2>3. Acks' = Acks \cup {a}
      BY <1>5, <2>2 DEF Acks
    <2> QED BY <1>3, <1>4, <2>2, <2>3 DEF UnderWay
  <1>7. Alone'
    BY <1>1, <1>2, <1>3, <1>5, <1>6 DEF Alone
  <1>8. ASSUME Healthy PROVE Agree'
    <2>1. Agree /\ send_seq \in Seqs /\ delivered \in Seq(Nat)
      BY <1>8 DEF Retrying, TrafficInv, Counters, Accounts
    <2>2. /\ Verdict(e, m.seq) # "Invalid" /\ Handed \subseteq Handed'
          /\ e' = Succ(send_seq) /\ sending.k \in Handed'
      <3>1. CASE e = send_seq
        <4>1. /\ Verdict(e, m.seq) = "Valid" /\ e' = Succ(send_seq)
              /\ delivered' = Append(delivered, m.k)
          BY <1>1, <1>2, <3>1 DEF Verdict, Expect
        <4>2. /\ DOMAIN delivered = 1 .. Len(delivered)
              /\ DOMAIN delivered' = 1 .. Len(delivered) + 1
              /\ delivered'[Len(delivered) + 1] = m.k /\ Len(delivered) \in Nat
              /\ \A i \in 1 .. Len(delivered) : delivered'[i] = delivered[i]
          BY <1>2, <2>1, <4>1, AppendFacts
        <4>3. Len(delivered) + 1 \in DOMAIN delivered' /\ DOMAIN delivered \subseteq DOMAIN delivered'
          BY <4>2
        <4>4. Handed \subseteq Handed' /\ sending.k \in Handed'
          BY <1>2, <4>2, <4>3 DEF Handed
        <4> QED BY <4>1, <4>4
      <3>2. CASE e # send_seq
        <4>1. e = Succ(send_seq) /\ sending.k \in Handed
          BY <2>1, <3>2 DEF Agree, Got
        <4>2. Pred(e) = send_seq
          BY <2>1, <4>1, PredSucc
        <4>3. Verdict(e, m.seq) = "Duplicate"
          BY <1>2, <3>2, <4>2 DEF Verdict
        <4>4. e' = e /\ delivered' = delivered
          BY <1>1, <4>3 DEF Expect
        <4> QED BY <4>1, <4>3, <4>4 DEF Handed
      <3> QED BY <3>1, <3>2
    <2>3. Got' /\ a.ok /\ acked' \subseteq Handed'
      BY <1>1, <1>5, <2>1, <2>2, Zenon DEF Got, Agree
    <2> QED BY <1>1, <1>2, <1>6, <2>1, <2>3 DEF Agree
  <1> QED BY <1>1, <1>7, <1>8, Zenon DEF Retrying, Healthy

LEMMA RetryLose ==
  ASSUME TrafficInv, Retrying, InTime, Lose
  PROVE  Retrying'
  <1>0. /\ lost' = lost + 1 /\ lost \in Nat
        /\ UNCHANGED <<open, evicting, sending, send_seq, answer, pending_ack, acked, refused,
                       delivered, expected_sequence_number>>
    BY Zenon DEF Lose, server, client, history, TrafficInv, Accounts
  <1>1. Alone /\ sending.attempt \in {0, 1}
    BY DEF Retrying, TrafficInv, Callers
  <1>2. ASSUME Alone', Agree => Agree' PROVE Retrying'
    <2>1. lost' <= 1 => lost <= 1
      BY <1>0
    <2> QED BY <1>0, <1>2, <2>1, Zenon DEF Retrying, Healthy
  <1>3. ASSUME \A n \in On(toClient') : n \in On(toClient) /\ toClient'[n] = 1,
               Acks' = {}
        PROVE  Retrying'
    <2>1. \A n \in UnderWay' : n \in UnderWay
      BY <1>3 DEF UnderWay
    <2>2. Alone'
      BY <1>0, <1>1, <1>3, <2>1, Zenon DEF Alone
    <2>3. ASSUME Agree PROVE Agree'
      <3>1. /\ sending'.phase = "awaiting" => lost' >= sending'.attempt
            /\ sending'.phase = "awaiting" => lost' > sending'.attempt
        BY <1>0, <1>1, <2>3 DEF Agree
      <3>2. Handed' = Handed
        BY <1>0 DEF Handed
      <3> QED BY <1>0, <1>3, <2>3, <3>1, <3>2, Zenon DEF Agree, Got
    <2> QED BY <1>2, <2>2, <2>3
  <1>4. CASE (\E m \in On(toClient) : toClient' = Take(toClient, m)) /\ UNCHANGED toServer
    <2>1. PICK m \in On(toClient) : toClient' = Take(toClient, m)
      BY <1>4
    <2>2. toClient[m] = 1 /\ m \in UnderWay /\ \A n \in UnderWay : n = m
      BY DEF Retrying, Alone, UnderWay
    <2>3. On(toClient') = {}
      BY <2>1, <2>2, TakeOnly, TakeNet DEF UnderWay
    <2>4. m \notin Acks
      BY DEF Acks, TrafficInv, Datagrams, TunnellingRequest
    <2>5. Acks' = {}
      BY <1>4, <2>2, <2>4, Zenon DEF UnderWay, Acks
    <2> QED BY <1>3, <2>3, <2>5
  <1>5. CASE (\E m \in On(toServer) : toServer' = Take(toServer, m)) /\ UNCHANGED toClient
    <2>1. PICK m \in On(toServer) : toServer' = Take(toServer, m)
      BY <1>5
    <2>2. CASE m.type = "request"
      <3>1. Acks' = Acks /\ \A n \in Acks : toServer'[n] = 1
        BY <1>1, <2>1, <2>2, RetryTaken, Zenon
      <3>2. lost' \in Nat /\ lost' >= lost
        BY <1>0
      <3>3. Alone' /\ (Agree => Agree')
        BY <1>0, <1>1, <1>5, <3>1, <3>2, RetryUntouched, Zenon
      <3> QED BY <1>2, <3>3
    <2>3. CASE m.type = "ack"
      <3>1. Acks' = {} /\ On(toClient) = {}
        BY <1>1, <2>1, <2>3, RetryTaken, Zenon
      <3>2. On(toClient') = {}
        BY <1>5, <3>1, Zenon
      <3> QED BY <1>3, <3>1, <3>2
    <2> QED BY <1>1, <2>1, <2>2, <2>3, RetryTaken
  <1> QED BY <1>4, <1>5, Zenon DEF Lose

LEMMA RetryOthers ==
  ASSUME TrafficInv, Retrying, InTime, Send \/ Evict \/ ClientSend
  PROVE  Retrying'
  <1>0. /\ UNCHANGED <<sending, send_seq, answer, pending_ack, toClient, delivered, acked,
                       expected_sequence_number, lost, refused>>
        /\ lost \in Nat /\ lost' \in Nat /\ sending.attempt \in {0, 1} /\ Alone
    <2>1. UNCHANGED <<sending, send_seq, answer, pending_ack, toClient, delivered, acked,
                      expected_sequence_number, lost, refused>>
      BY Zenon DEF Send, Evict, ClientSend, server, client, history, budget
    <2> QED BY <2>1 DEF Retrying, TrafficInv, Accounts, Callers
  <1>1. Acks' = Acks /\ \A m \in Acks : toServer'[m] = 1
    <2>1. CASE Send \/ Evict
      <3>1. toServer' = toServer
        BY <2>1, Zenon DEF Send, Evict
      <3> QED BY <1>0, <3>1, Zenon DEF Alone, Acks
    <2>2. CASE ClientSend
      <3> DEFINE r == Request(requested + 1, sequence_counter)
      <3>1. toServer' = Put(toServer, r) /\ r.type = "request"
        BY <2>2 DEF ClientSend, Request
      <3> HIDE DEF r
      <3>2. Acks' = Acks
        BY <3>1, PutNet DEF Acks
      <3>3. ASSUME NEW m \in Acks PROVE toServer'[m] = 1
        <4>1. m \in On(toServer) /\ m # r /\ toServer[m] = 1
          BY <1>0, <3>1 DEF Acks, Alone
        <4> QED BY <3>1, <4>1, PutOther
      <3> QED BY <3>2, <3>3
    <2> QED BY <2>1, <2>2
  <1>2. lost' >= lost
    BY <1>0
  <1>3. Alone' /\ (Agree => Agree')
    BY <1>0, <1>1, <1>2, RetryUntouched, Zenon
  <1>4. CASE Send \/ ClientSend
    <2>1. UNCHANGED <<open, evicting>>
      BY <1>4, Zenon DEF Send, ClientSend, server
    <2> QED BY <1>0, <1>3, <2>1, Zenon DEF Retrying, Healthy
  <1>5. CASE Evict
    <2>1. evicting # 0 /\ ~open'
      BY <1>5 DEF Evict
    <2> QED BY <1>0, <1>3, <2>1, Zenon DEF Retrying, Healthy
  <1> QED BY <1>4, <1>5

LEMMA RetryKept ==
  ASSUME TrafficInv, RetryInv, [LinkNext]_linkVars
  PROVE  RetryInv'
  <1>1. CASE LinkNext
    <2> SUFFICES ASSUME InTime' PROVE Retrying'
      BY DEF RetryInv
    <2>1. /\ setting' = setting /\ duplicated \in Nat
          /\ duplicated' = duplicated \/ (duplicated' = duplicated + 1 /\ Duplicate)
      BY <1>1, Zenon DEF LinkNext, Send, StartSend, AckTimeout, Answered, Evict, Attempt, Fail,
         ServerReceive, ClientReceive, ClientSend, Lose, Duplicate, budget, TrafficInv, Accounts
    <2>2. InTime /\ duplicated' = duplicated
      BY <2>1 DEF InTime
    <2>3. Retrying
      BY <2>2 DEF RetryInv
    <2>4. ~Duplicate
      BY <2>1, <2>2 DEF Duplicate
    <2> QED
      BY <1>1, <2>2, <2>3, <2>4, RetryStart, RetryTimeout, RetryAnswered, RetryServerReceive,
         RetryClientReceive, RetryLose, RetryOthers, Zenon DEF LinkNext
  <1>2. CASE UNCHANGED linkVars
    BY <1>2, Zenon DEF linkVars, state, server, client, history, budget, RetryInv, InTime,
       Retrying, Alone, UnderWay, Acks, Healthy, Agree, Got, Handed
  <1> QED BY <1>1, <1>2

(* When acks come in time, get through and come once, a telegram whose send
   returned Ok has been handed on, the ends agree between two sends, and a
   session survives the loss of one datagram: for any number of telegrams,
   calls and losses (send_to_session, handle_tunnelling_ack). *)
THEOREM LinkRetryWorks == LinkSpec => []RetryWorks
  <1>1. LinkSpec => []RetryInv
    BY RetryInit, RetryKept, TrafficInvariant, PTL DEF LinkSpec
  <1> QED BY <1>1, RetryImplies, TrafficInvariant, PTL
=============================================================================
