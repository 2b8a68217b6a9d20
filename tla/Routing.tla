------------------------------- MODULE Routing ------------------------------
(***************************************************************************)
(* A routing connection (transport/routing.rs): members of the multicast   *)
(* group send datagrams, which arrive in any order or not at all, and the  *)
(* receiving task of a Knx instance takes them one by one.  Every 100 ms   *)
(* the task drops the recv it waits for, so a recv can end at each of its  *)
(* two awaits, the datagram and the pause that a RoutingBusy asks for.     *)
(***************************************************************************)
EXTENDS FrameStream, FiniteSets

VARIABLES
    arrived,     \* the datagrams, by index into sample.routed, that came
    socket,      \* what the socket's buffer holds of them, oldest first
    link,        \* RoutingConnection.state
    receiver,    \* where the receiving task is
    pausing,     \* the datagram whose pause recv waits for, or None
    counted,     \* stats.frames_received, stats.recv_errors and RoutingStats
    handled,     \* what handle_incoming_frame was called with, and for which datagram
    taken        \* history: the datagrams that recv_from returned

routingVars == <<arrived, socket, link, receiver, pausing, counted, handled, taken>>

Routed == sample.about = "routing"
Items == IF Routed THEN sample.value ELSE <<>>

(* What the sending task of another Knx instance puts on the wire: the frame
   that build_outgoing_frame_for_connection makes for a connection which is
   no tunnel, and RoutingConnection::send around it. *)
BuildOutgoingFrame(telegram) ==
    SerializeFrame(Frame("RoutingIndication", SerializeCemi(CemiOf(telegram, "LDataReq"))))
SendRoutingIndication(cemi_data) == SerializeFrame(Frame("RoutingIndication", cemi_data))

(* A member of the group is a Knx instance, or a router or other device that
   sends a RoutingIndication, a RoutingBusy, a RoutingLostMessage or a frame
   of some other service. *)
Datagram(item) ==
    CASE item.from = "knx" -> SendRoutingIndication(BuildOutgoingFrame(item.telegram))
      [] item.from = "router" ->
           SerializeFrame(Frame("RoutingIndication",
                                SerializeCemi(CemiOf(item.telegram, "LDataInd"))))
      [] item.from = "busy" -> SerializeFrame(Frame("RoutingBusy", item.body))
      [] item.from = "lost" -> SerializeFrame(Frame("RoutingLostMessage", <<4, 0, 0, 1>>))
      [] item.from = "other" -> FrameOf(item)

(* handle_incoming_frame and handle_routing_indication: the telegram that is
   queued, or the error that is logged. *)
HandleIncomingFrame(data) ==
    LET frame == ParseFrame(data)
    IN  IF frame \in {Err, Panic} THEN frame
        ELSE IF frame.service_type # "RoutingIndication" THEN Err
        ELSE ParseCemiToTelegram(frame.body)

RoutingInit ==
    /\ arrived = {} /\ socket = <<>>
    /\ link = "Connected"
    /\ receiver = IF Routed THEN "loop" ELSE "ended"
    /\ pausing = None
    /\ counted = [frames_received |-> 0, recv_errors |-> 0, routing_busy |-> 0, lost_message |-> 0]
    /\ handled = <<>> /\ taken = <<>>

(* A datagram comes while the connection is a member of the group. *)
Arrive(i) ==
    /\ i \notin arrived /\ link # "Disconnected"
    /\ arrived' = arrived \cup {i}
    /\ socket' = Append(socket, [item |-> i, data |-> Datagram(Items[i])])
    /\ UNCHANGED <<link, receiver, pausing, counted, handled, taken>>

(* The task calls recv, which fails when the connection is not Connected;
   then the task ends. *)
Recv ==
    /\ receiver = "loop"
    /\ receiver' = IF link = "Connected" THEN "recv" ELSE "ended"
    /\ UNCHANGED <<arrived, socket, link, pausing, counted, handled, taken>>

(* The pause in milliseconds that a RoutingBusy asks for. *)
WaitTime(body) == IF Len(body) >= 4 THEN WordAt(body, 3) ELSE 100

HandleRoutingLostMessage ==
    counted' = [counted EXCEPT !.lost_message = @ + 1, !.recv_errors = @ + 1]

(* Counted before the pause, which may be dropped. *)
HandleRoutingBusy ==
    counted' = [counted EXCEPT !.routing_busy = @ + 1, !.recv_errors = @ + 1]

(* recv returns data for datagram i, and the task handles it. *)
Returned(i, data) ==
    /\ handled' = Append(handled, [item |-> i, data |-> data])
    /\ receiver' = "loop" /\ pausing' = None

(* recv_from returns a datagram and process_routing_message looks at it.  One
   that is not a frame makes recv fail, and the task ends. *)
ProcessRoutingMessage(i, frame_data) ==
    LET frame == ParseFrame(frame_data)
        service == IF frame \in {Err, Panic} THEN "None" ELSE frame.service_type
    IN  \/ /\ service = "None"
           /\ receiver' = "ended"
           /\ UNCHANGED <<pausing, counted, handled>>
        \/ /\ service = "RoutingLostMessage"
           /\ HandleRoutingLostMessage /\ Returned(i, <<>>)
        \/ /\ service = "RoutingBusy" /\ WaitTime(frame.body) = 0
           /\ HandleRoutingBusy /\ Returned(i, <<>>)
        \/ /\ service = "RoutingBusy" /\ WaitTime(frame.body) > 0
           /\ HandleRoutingBusy
           /\ receiver' = "pause" /\ pausing' = i
           /\ UNCHANGED handled
        \/ /\ service \notin {"None", "RoutingLostMessage", "RoutingBusy"}
           /\ Returned(i, frame.body)
           /\ counted' = IF frame.body = <<>> THEN counted
                         ELSE [counted EXCEPT !.frames_received = @ + 1]

RecvFrom ==
    /\ receiver = "recv" /\ socket # <<>>
    /\ taken' = Append(taken, Head(socket).item)
    /\ socket' = Tail(socket)
    /\ ProcessRoutingMessage(Head(socket).item, Head(socket).data)
    /\ UNCHANGED <<arrived, link>>

PauseOver ==
    /\ receiver = "pause"
    /\ Returned(pausing, <<>>)
    /\ UNCHANGED <<arrived, socket, link, counted, taken>>

(* The other arm of the select: 100 ms passed, and recv is dropped. *)
Tick ==
    /\ receiver \in {"recv", "pause"}
    /\ receiver' = "loop" /\ pausing' = None
    /\ UNCHANGED <<arrived, socket, link, counted, handled, taken>>

(* close: Disconnecting, then it leaves the group and is Disconnected. *)
CloseRouting ==
    /\ Routed
    /\ \/ link = "Connected" /\ link' = "Disconnecting"
       \/ link = "Disconnecting" /\ link' = "Disconnected"
    /\ UNCHANGED <<arrived, socket, receiver, pausing, counted, handled, taken>>

RoutingNext ==
    \/ \E i \in DOMAIN Items : Arrive(i)
    \/ Recv \/ RecvFrom \/ PauseOver \/ Tick \/ CloseRouting

(* The task runs, its timer fires, and close does not stop half-way.  A tick
   can win over a datagram that is there, but not for ever: select picks
   among what is ready at random. *)
RoutingFairness ==
    /\ WF_routingVars(Recv) /\ SF_routingVars(RecvFrom) /\ WF_routingVars(Tick)
    /\ WF_routingVars(link = "Disconnecting" /\ CloseRouting)

-----------------------------------------------------------------------------
Taken(from) == {k \in DOMAIN taken : Items[taken[k]].from = from}

(* The counters agree with what came, however often recv was dropped in a
   pause: each control frame is counted once, in its own counter and as an
   error, and frames_received counts what was handled and is not empty. *)
CountsAgree ==
    /\ counted.routing_busy = Cardinality(Taken("busy"))
    /\ counted.lost_message = Cardinality(Taken("lost"))
    /\ counted.recv_errors = counted.routing_busy + counted.lost_message
    /\ counted.frames_received = Cardinality({k \in DOMAIN handled : handled[k].data # <<>>})

(* A datagram with a telegram is handled once, when it is taken, so telegrams
   are handled in the order in which they came; a recv that is dropped drops
   none.  Those of other Knx instances are what they were sent as. *)
RoutedAsSent ==
    /\ SelectSeq(taken, LAMBDA i : Items[i].from \in {"knx", "router"})
         = LET telegrams == SelectSeq(handled, LAMBDA h : Items[h.item].from \in {"knx", "router"})
           IN  [k \in DOMAIN telegrams |-> telegrams[k].item]
    /\ \A k \in DOMAIN handled :
          LET item == Items[handled[k].item]
          IN  IF item.from = "knx"
              THEN HandleIncomingFrame(handled[k].data) = ArrivesAs(item.telegram)
              ELSE item.from # "router" => HandleIncomingFrame(handled[k].data) = Err

(* The receiving task ends when the connection was closed or a datagram is no
   frame that the library can parse, and for nothing else in the group. *)
EndsForCause ==
    Routed /\ receiver = "ended" =>
       \/ link # "Connected"
       \/ \E k \in DOMAIN taken : ParseFrame(Datagram(Items[taken[k]])) = Err

RoutingSound == CountsAgree /\ RoutedAsSent /\ EndsForCause

(* The receiving task has ended, as it does once the connection is closed,
   also from within a pause; or it runs and has left nothing in the socket. *)
RoutingAtRest ==
    Routed => receiver = "ended" \/ (link # "Disconnected" /\ socket = <<>>)

(* "RoutingIndication format: [cemi_data...]" (knx.rs): of the datagrams of a
   router, too, the telegram is handled. *)
RoutersHeard ==
    \A k \in DOMAIN handled :
       LET item == Items[handled[k].item]
       IN  item.from = "router" => HandleIncomingFrame(handled[k].data) = ArrivesAs(item.telegram)
=============================================================================
