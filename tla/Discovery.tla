------------------------------ MODULE Discovery -----------------------------
(***************************************************************************)
(* The search for gateways (transport/discovery.rs): one broadcast, and    *)
(* the responses that come, in any order, until time is up or the socket   *)
(* fails.  A response is an address and bytes; what it says of a gateway   *)
(* is in its device information blocks.                                    *)
(***************************************************************************)
EXTENDS FrameStream

VARIABLES
    search,      \* "idle", "collecting" or "done"
    gateways,    \* the HashMap: for each address its GatewayInfo, or None
    last_error,
    result,      \* what discover returned
    responses    \* history: the responses that were received, in order

discoveryVars == <<search, gateways, last_error, result, responses>>

Searched == sample.about = "discovery"
Responses == IF Searched THEN sample.value ELSE <<>>
Addresses == {Responses[i].addr : i \in DOMAIN Responses}

-----------------------------------------------------------------------------
(* parse_discovery_response: what it asks of a datagram first. *)
IsSearchResponse(data) ==
    /\ Len(data) >= HeaderLength
    /\ SubSeq(data, 1, 4) = <<HeaderLength, ProtocolVersion, 2, 2>>
    /\ WordAt(data, 5) <= Len(data)

(* The blocks begin after header and HPAI and go on to the end of the
   datagram, or to one that has no proper length. *)
Blocks(data) ==
    LET from[offset \in 0 .. Len(data)] ==
          LET dib_length == data[offset + 1]
          IN  IF offset + 2 > Len(data) THEN <<>>
              ELSE IF dib_length < 2 \/ offset + dib_length > Len(data) THEN <<>>
              ELSE <<SubSeq(data, offset + 1, offset + dib_length)>> \o from[offset + dib_length]
    IN  IF Len(data) < 14 THEN <<>> ELSE from[14]
BlocksOf(data, type) == SelectSeq(Blocks(data), LAMBDA dib : dib[2] = type)

(* The families that a block lists, two bytes each. *)
Families(dib) == [k \in 1 .. (Len(dib) - 2) \div 2 |-> dib[2 * k + 1]]
Service(family) ==
    CASE family = 3 -> <<"DeviceManagement">>
      [] family = 4 -> <<"Tunneling">>
      [] family = 5 -> <<"Routing">>
      [] OTHER -> <<>>
Services(families) ==
    LET upTo[k \in 0 .. Len(families)] ==
          IF k = 0 THEN <<"Core">> ELSE upTo[k - 1] \o Service(families[k])
    IN  upTo[Len(families)]

(* The friendly name: up to the first NUL of its 30 bytes, if there is one,
   the name is not empty and it is UTF-8; of names only ASCII ones are. *)
NameIn(dib) ==
    LET bytes == SubSeq(dib, 25, 54)
        nulls == {k \in DOMAIN bytes : bytes[k] = 0}
        name == SubSeq(bytes, 1, (CHOOSE k \in nulls : \A l \in nulls : k <= l) - 1)
    IN  IF nulls = {} THEN None
        ELSE IF name = <<>> \/ \E k \in DOMAIN name : name[k] > 127 THEN None
        ELSE name

(* A name or serial number that is None is the one made from the address.
   Each block replaces the list of services, while capabilities add up. *)
ParseDiscoveryResponse(data) ==
    LET devices == SelectSeq(BlocksOf(data, 1), LAMBDA dib : Len(dib) >= 54)
        named == SelectSeq(devices, LAMBDA dib : NameIn(dib) # None)
        families == [k \in DOMAIN BlocksOf(data, 2) |-> Families(BlocksOf(data, 2)[k])]
        Listed(family) == \E k \in DOMAIN families : \E l \in DOMAIN families[k] :
                             families[k][l] = family
        listed == IF families = <<>> THEN <<"Core">> ELSE Services(families[Len(families)])
        default == Len(listed) = 1
    IN  IF ~IsSearchResponse(data) THEN Err
        ELSE [name |-> IF named = <<>> THEN None ELSE NameIn(named[Len(named)]),
              device_serial |-> IF devices = <<>> THEN None
                                ELSE SubSeq(devices[Len(devices)], 13, 18),
              supported_services |-> IF default
                                     THEN <<"Core", "DeviceManagement", "Tunneling">> ELSE listed,
              supports_device_management |-> default \/ Listed(3),
              supports_tunneling |-> default \/ Listed(4),
              supports_routing |-> Listed(5),
              max_tunneling_connections |-> IF default \/ Listed(4) THEN 4 ELSE 1,
              multicast |-> Listed(5)]

-----------------------------------------------------------------------------
DiscoveryInit ==
    /\ search = IF Searched THEN "idle" ELSE "done"
    /\ gateways = [a \in Addresses |-> None]
    /\ last_error = None /\ result = None /\ responses = <<>>

(* discover: the request is sent, or cannot be. *)
Discover ==
    /\ search = "idle"
    /\ \/ search' = "collecting" /\ UNCHANGED result
       \/ search' = "done" /\ result' = "NetworkError"
    /\ UNCHANGED <<gateways, last_error, responses>>

(* A response: the gateway is entered, or the error is kept and the search
   goes on. *)
Response(i) ==
    LET info == ParseDiscoveryResponse(Responses[i].data)
    IN  /\ search = "collecting" /\ \A k \in DOMAIN responses : responses[k] # i
        /\ responses' = Append(responses, i)
        /\ IF info = Err
           THEN last_error' = "InvalidResponse" /\ UNCHANGED gateways
           ELSE /\ gateways' = [gateways EXCEPT ![Responses[i].addr] = info]
                /\ UNCHANGED last_error
        /\ UNCHANGED <<search, result>>

Found == {a \in Addresses : gateways[a] # None}

(* The socket fails, with an error that means that nothing more is coming or
   with another; or time is up. *)
SocketEnds(error) ==
    LET last == IF error = "WouldBlock" THEN last_error ELSE "NetworkError"
    IN  /\ search = "collecting" /\ search' = "done"
        /\ last_error' = last
        /\ result' = IF Found # {} THEN "Ok"
                     ELSE IF last # None THEN last ELSE "NoGatewaysFound"
        /\ UNCHANGED <<gateways, responses>>

TimeIsUp ==
    /\ search = "collecting" /\ search' = "done"
    /\ result' = IF Found = {} THEN "Timeout" ELSE "Ok"
    /\ UNCHANGED <<gateways, last_error, responses>>

DiscoveryNext ==
    \/ Discover \/ TimeIsUp
    \/ \E i \in DOMAIN Responses : Response(i)
    \/ \E error \in {"WouldBlock", "Other"} : SocketEnds(error)

-----------------------------------------------------------------------------
(* What a gateway is, as the sample describes it; None if what it sends is
   not a response. *)
Described(i) == Responses[i].gateway

(* "Malformed responses from individual gateways are logged and skipped": the
   gateways found are those that described themselves before the search
   ended, each as its latest proper response says, wherever malformed ones
   came in between; and the search fails only if there is none (discover). *)
GatewaysFound ==
    LET Proper(a) == {k \in DOMAIN responses :
                        Responses[responses[k]].addr = a /\ Described(responses[k]) # None}
    IN  /\ \A a \in Addresses :
              IF Proper(a) = {} THEN gateways[a] = None
              ELSE LET latest == CHOOSE k \in Proper(a) : \A l \in Proper(a) : l <= k
                   IN  gateways[a] = Described(responses[latest])
        /\ result = "Ok" => Found # {}
        /\ Searched /\ search = "done" /\ Found # {} => result = "Ok"
=============================================================================
