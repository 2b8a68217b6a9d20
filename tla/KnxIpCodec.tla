----------------------------- MODULE KnxIpCodec -----------------------------
(***************************************************************************)
(* Serialization and parsing of KNX/IP frames and of the messages they     *)
(* carry (protocol/knxip.rs).  A parser gives Err where the code returns   *)
(* an error; the reason is left out.  A message is a record whose kind is  *)
(* its type.                                                               *)
(***************************************************************************)
EXTENDS Bytes

ServiceTypes ==
    [SearchRequest |-> \h0201, SearchResponse |-> \h0202,
     DescriptionRequest |-> \h0203, DescriptionResponse |-> \h0204,
     ConnectRequest |-> \h0205, ConnectResponse |-> \h0206,
     ConnectionstateRequest |-> \h0207, ConnectionstateResponse |-> \h0208,
     DisconnectRequest |-> \h0209, DisconnectResponse |-> \h020A,
     DeviceConfigurationRequest |-> \h0310, DeviceConfigurationAck |-> \h0311,
     TunnellingRequest |-> \h0420, TunnellingAck |-> \h0421,
     RoutingIndication |-> \h0530, RoutingLostMessage |-> \h0531, RoutingBusy |-> \h0532,
     SecureWrapper |-> \h0950, SessionRequest |-> \h0951, SessionResponse |-> \h0952,
     SessionAuthenticate |-> \h0953, SessionStatus |-> \h0954]
FromU16(value) ==
    IF \E s \in DOMAIN ServiceTypes : ServiceTypes[s] = value
    THEN CHOOSE s \in DOMAIN ServiceTypes : ServiceTypes[s] = value
    ELSE None

-----------------------------------------------------------------------------
(* KnxIpHeader and KnxIpFrame. *)
HeaderLength == 6
ProtocolVersion == \h10

Frame(service_type, body) ==
    [service_type |-> service_type,
     total_length |-> (HeaderLength + Len(body)) % 65536, body |-> body]
SerializeFrame(frame) ==
    <<HeaderLength, ProtocolVersion>> \o Be16(ServiceTypes[frame.service_type])
      \o Be16(frame.total_length) \o frame.body

ParseHeader(data) ==
    IF \/ Len(data) < HeaderLength
       \/ data[1] # HeaderLength \/ data[2] # ProtocolVersion
       \/ FromU16(WordAt(data, 3)) = None
    THEN Err
    ELSE [service_type |-> FromU16(WordAt(data, 3)), total_length |-> WordAt(data, 5)]

(* The body is the slice from the header's end to the declared length,
   which has to come after it. *)
ParseFrame(data) ==
    LET header == ParseHeader(data)
    IN  IF header = Err \/ Len(data) < header.total_length THEN Err
        ELSE IF header.total_length < HeaderLength THEN Panic
        ELSE [service_type |-> header.service_type, total_length |-> header.total_length,
              body |-> SubSeq(data, HeaderLength + 1, header.total_length)]

-----------------------------------------------------------------------------
(* Hpai; an address that is not IPv4 is None. *)
HpaiLength == 8
RouteBack(code) == [host_protocol_code |-> code, ip_addr |-> <<0, 0, 0, 0>>, port |-> 0]

SerializeHpai(hpai) ==
    <<HpaiLength, hpai.host_protocol_code>>
      \o (IF hpai.ip_addr = None THEN <<0, 0, 0, 0>> ELSE hpai.ip_addr)
      \o Be16(hpai.port)
ParseHpai(data) ==
    IF Len(data) < HpaiLength \/ data[1] # HpaiLength THEN Err
    ELSE [host_protocol_code |-> data[2], ip_addr |-> SubSeq(data, 3, 6),
          port |-> WordAt(data, 7)]

(* ConnectionRequestInfo. *)
CriLength == 4
CriExtendedLength == 6
TunnelConnection == 4
TunnelCri(individual_address) ==
    [connection_type |-> TunnelConnection, knx_layer |-> 2, reserved |-> 0,
     individual_address |-> individual_address]

SerializeCri(cri) ==
    LET fixed == <<cri.connection_type, cri.knx_layer, cri.reserved>>
    IN  IF cri.individual_address = None THEN <<CriLength>> \o fixed
        ELSE <<CriExtendedLength>> \o fixed \o Be16(cri.individual_address)
ParseCri(data) ==
    IF Len(data) < CriLength \/ data[1] # CriLength THEN Err
    ELSE [connection_type |-> data[2], knx_layer |-> data[3], reserved |-> data[4],
          individual_address |-> None]

-----------------------------------------------------------------------------
(* Connecting. *)
SerializeConnectRequest(m) ==
    SerializeHpai(m.control_endpoint) \o SerializeHpai(m.data_endpoint) \o SerializeCri(m.cri)
ParseConnectRequest(data) ==
    LET control == ParseHpai(data)
        endpoint == ParseHpai(From(data, HpaiLength))
        cri == ParseCri(From(data, 2 * HpaiLength))
    IN  IF Err \in {control, endpoint, cri} THEN Err
        ELSE [kind |-> "ConnectRequest", control_endpoint |-> control,
              data_endpoint |-> endpoint, cri |-> cri]

(* build_tunnel_crd and parse_assigned_address. *)
TunnelCrd(individual_address) == <<4, TunnelConnection>> \o Be16(individual_address)
ParseAssignedAddress(crd) ==
    IF Len(crd) >= 4 /\ crd[2] = TunnelConnection THEN WordAt(crd, 3) ELSE None

SerializeConnectResponse(m) ==
    <<m.channel_id, m.status>> \o SerializeHpai(m.data_endpoint) \o m.crd
ConnectResponseOf(channel_id, status, hpai, crd) ==
    [kind |-> "ConnectResponse", channel_id |-> channel_id, status |-> status,
     data_endpoint |-> hpai, crd |-> crd, assigned_address |-> ParseAssignedAddress(crd)]
ParseConnectResponse(data) ==
    IF Len(data) < 2 THEN Err
    ELSE IF data[2] # 0 THEN ConnectResponseOf(data[1], data[2], RouteBack(1), <<>>)
    ELSE IF ParseHpai(From(data, 2)) = Err THEN Err
    ELSE ConnectResponseOf(data[1], data[2], ParseHpai(From(data, 2)),
                           From(data, 2 + HpaiLength))

(* ConnectionstateRequest and DisconnectRequest have one layout, as have
   the two responses. *)
SerializeChannelRequest(m) ==
    <<m.communication_channel_id, 0>> \o SerializeHpai(m.control_endpoint)
ParseChannelRequest(kind, data) ==
    IF Len(data) < 2 + HpaiLength \/ ParseHpai(From(data, 2)) = Err THEN Err
    ELSE [kind |-> kind, communication_channel_id |-> data[1],
          control_endpoint |-> ParseHpai(From(data, 2))]
SerializeChannelResponse(m) == <<m.communication_channel_id, m.status>>
ParseChannelResponse(kind, data) ==
    IF Len(data) < 2 THEN Err
    ELSE [kind |-> kind, communication_channel_id |-> data[1], status |-> data[2]]

-----------------------------------------------------------------------------
(* Tunnelling. *)
TunnellingHeaderLength == 4

SerializeTunnellingRequest(m) ==
    <<TunnellingHeaderLength, m.communication_channel_id, m.sequence_counter, 0>> \o m.raw_cemi
ParseTunnellingRequest(data) ==
    IF Len(data) < TunnellingHeaderLength \/ data[1] # TunnellingHeaderLength THEN Err
    ELSE [kind |-> "TunnellingRequest", communication_channel_id |-> data[2],
          sequence_counter |-> data[3], raw_cemi |-> From(data, TunnellingHeaderLength)]

SerializeTunnellingAck(m) ==
    <<TunnellingHeaderLength, m.communication_channel_id, m.sequence_counter, m.status_code>>
ParseTunnellingAck(data) ==
    IF Len(data) < TunnellingHeaderLength \/ data[1] # TunnellingHeaderLength THEN Err
    ELSE [kind |-> "TunnellingAck", communication_channel_id |-> data[2],
          sequence_counter |-> data[3], status_code |-> data[4]]

(* The handshake of a secure session: keys of 32 bytes, MACs of 16. *)
SerializeSessionRequest(m) == SerializeHpai(m.control_endpoint) \o m.public_key
ParseSessionRequest(data) ==
    IF Len(data) < HpaiLength + 32 \/ ParseHpai(data) = Err THEN Err
    ELSE [kind |-> "SessionRequest", control_endpoint |-> ParseHpai(data),
          public_key |-> SubSeq(data, HpaiLength + 1, HpaiLength + 32)]
SerializeSessionResponse(m) == Be16(m.session_id) \o m.public_key \o m.mac
ParseSessionResponse(data) ==
    IF Len(data) < 50 THEN Err
    ELSE [kind |-> "SessionResponse", session_id |-> WordAt(data, 1),
          public_key |-> SubSeq(data, 3, 34), mac |-> SubSeq(data, 35, 50)]
SerializeSessionAuthenticate(m) == <<0, m.user_id>> \o m.mac
ParseSessionAuthenticate(data) ==
    IF Len(data) < 18 THEN Err
    ELSE [kind |-> "SessionAuthenticate", user_id |-> data[2], mac |-> SubSeq(data, 3, 18)]
SerializeSessionStatus(m) == <<0, m.status>>
ParseSessionStatus(data) ==
    IF Len(data) < 2 THEN Err ELSE [kind |-> "SessionStatus", status |-> data[2]]

-----------------------------------------------------------------------------
Serialize(m) ==
    CASE m.kind = "ConnectRequest" -> SerializeConnectRequest(m)
      [] m.kind = "ConnectResponse" -> SerializeConnectResponse(m)
      [] m.kind \in {"ConnectionstateRequest", "DisconnectRequest"} -> SerializeChannelRequest(m)
      [] m.kind \in {"ConnectionstateResponse", "DisconnectResponse"} -> SerializeChannelResponse(m)
      [] m.kind = "TunnellingRequest" -> SerializeTunnellingRequest(m)
      [] m.kind = "TunnellingAck" -> SerializeTunnellingAck(m)
      [] m.kind = "SessionRequest" -> SerializeSessionRequest(m)
      [] m.kind = "SessionResponse" -> SerializeSessionResponse(m)
      [] m.kind = "SessionAuthenticate" -> SerializeSessionAuthenticate(m)
      [] m.kind = "SessionStatus" -> SerializeSessionStatus(m)
Parse(kind, data) ==
    CASE kind = "ConnectRequest" -> ParseConnectRequest(data)
      [] kind = "ConnectResponse" -> ParseConnectResponse(data)
      [] kind \in {"ConnectionstateRequest", "DisconnectRequest"} -> ParseChannelRequest(kind, data)
      [] kind \in {"ConnectionstateResponse", "DisconnectResponse"} -> ParseChannelResponse(kind, data)
      [] kind = "TunnellingRequest" -> ParseTunnellingRequest(data)
      [] kind = "TunnellingAck" -> ParseTunnellingAck(data)
      [] kind = "SessionRequest" -> ParseSessionRequest(data)
      [] kind = "SessionResponse" -> ParseSessionResponse(data)
      [] kind = "SessionAuthenticate" -> ParseSessionAuthenticate(data)
      [] kind = "SessionStatus" -> ParseSessionStatus(data)
=============================================================================
