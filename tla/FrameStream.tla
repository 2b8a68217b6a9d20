---------------------------- MODULE FrameStream -----------------------------
(***************************************************************************)
(* Telegrams over a TCP stream (transport/frame_transport.rs): tasks write *)
(* frames, the stream carries bytes and cuts them anywhere, and the reader *)
(* puts frames together again.  A read that is waiting can be cancelled:   *)
(* the tunnel's handshakes, its disconnect and the probe time it out.      *)
(***************************************************************************)
EXTENDS KnxIpCodec, CemiCodec

CONSTANT Tasks

VARIABLES
    sample,     \* what a behaviour is about; to_send[t], what task t is to send
    queued,     \* queued[t]: what is left of it
    writer,     \* the task that holds the write mutex, or None
    unwritten,  \* the bytes write_all has still to write, for each task
    wire,       \* bytes written and not yet read
    buf,        \* TcpReader.buf
    awaiting,   \* recv_frame waits for bytes
    sent,       \* history: the order in which the tasks got the mutex
    received    \* the frames that recv_frame returned

streamVars == <<queued, writer, unwritten, wire, buf, awaiting, sent, received>>

(* build_outgoing_frame_for_connection and TunnellingRequest; an item with a
   service of its own is a frame of some other service. *)
FrameOf(item) ==
    IF "service" \in DOMAIN item
    THEN <<HeaderLength, ProtocolVersion>> \o Be16(item.service)
           \o Be16(HeaderLength + Len(item.body)) \o item.body
    ELSE SerializeFrame(Frame("TunnellingRequest",
           Serialize([kind |-> "TunnellingRequest", communication_channel_id |-> 1,
                      sequence_counter |-> 0,
                      raw_cemi |-> SerializeCemi(CemiOf(item, "LDataReq"))])))

(* What the receiver makes of a frame: a telegram, or an error that it logs. *)
TelegramIn(data) ==
    LET frame == ParseFrame(data)
        request == Parse("TunnellingRequest", frame.body)
    IN  IF frame \in {Err, Panic} THEN frame
        ELSE IF frame.service_type # "TunnellingRequest" \/ request = Err THEN Err
        ELSE ParseCemiToTelegram(request.raw_cemi)

StreamInit ==
    /\ queued = sample.to_send
    /\ writer = None /\ unwritten = [t \in Tasks |-> <<>>]
    /\ wire = <<>> /\ buf = <<>> /\ awaiting = FALSE
    /\ sent = <<>> /\ received = <<>>

(* send_frame: the mutex, then write_all, which writes what the socket
   takes, then flush. *)
Lock(t) ==
    /\ writer = None /\ queued[t] # <<>>
    /\ writer' = t
    /\ unwritten' = [unwritten EXCEPT ![t] = FrameOf(Head(queued[t]))]
    /\ sent' = Append(sent, Head(queued[t]))
    /\ queued' = [queued EXCEPT ![t] = Tail(@)]
    /\ UNCHANGED <<wire, buf, awaiting, received>>

Write(t) ==
    /\ unwritten[t] # <<>>
    /\ \E n \in 1 .. Len(unwritten[t]) :
          /\ wire' = wire \o SubSeq(unwritten[t], 1, n)
          /\ unwritten' = [unwritten EXCEPT ![t] = From(@, n)]
          /\ writer' = IF n = Len(unwritten[t]) THEN None ELSE writer
    /\ UNCHANGED <<queued, buf, awaiting, sent, received>>

(* try_extract_frame: how many bytes it takes from the front; zero when the
   frame is not complete. *)
ExtractLate(data) ==
    IF Len(data) <= HeaderLength \/ Len(data) <= WordAt(data, 5) THEN 0 ELSE WordAt(data, 5)
TryExtractFrame(data) ==
    IF Len(data) < HeaderLength THEN 0
    ELSE LET total_length == WordAt(data, 5)
         IN  IF total_length < HeaderLength THEN Err
             ELSE IF Len(data) < total_length THEN 0
             ELSE total_length

(* A sample that sends nothing opens no stream. *)
Open == \E t \in Tasks : sample.to_send[t] # <<>>

(* recv_frame, up to where it waits or returns a frame.  After an error it
   is not called again: the receiving task ends. *)
RecvFrame ==
    LET n == TryExtractFrame(buf)
    IN  /\ Open /\ ~awaiting /\ n # Err
        /\ awaiting' = (n = 0)
        /\ received' = IF n = 0 THEN received
                       ELSE Append(received, SubSeq(buf, 1, n))
        /\ buf' = From(buf, n)
        /\ UNCHANGED <<queued, writer, unwritten, wire, sent>>

Read ==
    /\ awaiting /\ wire # <<>>
    /\ \E n \in 1 .. Len(wire) :
          buf' = buf \o SubSeq(wire, 1, n) /\ wire' = From(wire, n)
    /\ awaiting' = FALSE
    /\ UNCHANGED <<queued, writer, unwritten, sent, received>>

(* The future is dropped where it waits; the next call starts anew. *)
CancelAndForget ==
    /\ awaiting
    /\ awaiting' = FALSE /\ buf' = <<>>
    /\ UNCHANGED <<queued, writer, unwritten, wire, sent, received>>
Cancel ==
    /\ awaiting
    /\ awaiting' = FALSE
    /\ UNCHANGED <<queued, writer, unwritten, wire, buf, sent, received>>

StreamNext ==
    \/ \E t \in Tasks : Lock(t) \/ Write(t)
    \/ RecvFrame \/ Read \/ Cancel

(* The mutex is fair, the peer reads, and a read is not cancelled for ever
   while there are bytes to read. *)
StreamFairness ==
    /\ \A t \in Tasks : SF_streamVars(Lock(t)) /\ WF_streamVars(Write(t))
    /\ WF_streamVars(RecvFrame) /\ SF_streamVars(Read)

-----------------------------------------------------------------------------
StreamTypeOK ==
    /\ writer \in Tasks \cup {None} /\ awaiting \in BOOLEAN
    /\ \A t \in Tasks : unwritten[t] \in Seq(Byte) /\ (unwritten[t] # <<>> => writer = t)
    /\ wire \in Seq(Byte) /\ buf \in Seq(Byte)
    /\ Len(received) <= Len(sent)

(* However writes and reads are cut and whenever a read is cancelled, the
   bytes in flight are whole frames, from where the last frame taken ended,
   in the order in which the tasks got the mutex. *)
FramesIntact ==
    LET pending[i \in Len(received) .. Len(sent)] ==
          IF i = Len(received) THEN <<>> ELSE pending[i - 1] \o FrameOf(sent[i])
        rest == IF writer = None THEN <<>> ELSE unwritten[writer]
    IN  Len(received) <= Len(sent) => buf \o wire \o rest = pending[Len(sent)]

(* What a telegram arrives as.  The type follows the payload: a telegram
   without one is a read, which arrives with the byte of its service, any
   other a write; the priority is that of CemiFrame::new; of a payload that
   is one byte, six bits arrive (apci.rs).  Of other services, nothing. *)
ArrivesAs(item) ==
    IF "service" \in DOMAIN item THEN Err
    ELSE [source |-> item.source, destination |-> item.destination, priority |-> 1,
          telegram_type |-> IF item.payload = <<>> THEN "Read" ELSE "Write",
          payload |-> IF item.payload = <<>> THEN <<0>>
                      ELSE IF Len(item.payload) = 1 THEN <<Low(item.payload[1], 6)>>
                      ELSE item.payload]
TelegramsArrive ==
    \A i \in 1 .. Len(received) : i <= Len(sent) => TelegramIn(received[i]) = ArrivesAs(sent[i])

(* What comes out of the stream are the frames that went in, and they are
   read as the telegrams that were sent (recv_frame, parse_cemi_to_telegram). *)
StreamSound == StreamTypeOK /\ FramesIntact /\ TelegramsArrive

(* "A_GroupValue_Write ... carrying a DPT payload" (apci.rs): the payload
   that is written is the payload that is read. *)
PayloadArrives ==
    \A i \in 1 .. Len(received) :
       i <= Len(sent) /\ "payload" \in DOMAIN sent[i] /\ sent[i].payload # <<>>
          => TelegramIn(received[i]).payload = sent[i].payload

(* Everything that was to be sent is sent and received. *)
EverythingArrived == (\A t \in Tasks : queued[t] = <<>>) /\ Len(received) = Len(sent)
=============================================================================
