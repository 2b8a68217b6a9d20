----------------------------- MODULE CemiCodec ------------------------------
(***************************************************************************)
(* Addresses (protocol/address.rs), cEMI frames (cemi.rs), the services    *)
(* they carry (apci.rs, tpci.rs, management.rs), and the conversions       *)
(* between cEMI frames and telegrams (knx.rs, server.rs, address_probe.rs).*)
(***************************************************************************)
EXTENDS Bytes

(* GroupAddress and IndividualAddress: an address is its raw value.  A text
   is its separator and the numbers between separators. *)
MaxRaw == \h7FFF
TryNewGroup(main, middle, sub) ==
    IF main > 15 \/ middle > 7 THEN Err ELSE main * 2 ^ 11 + middle * 2 ^ 8 + sub
TryFromRaw(raw) == IF raw > MaxRaw THEN Err ELSE raw
GroupParts(raw) == <<Field(raw, 11, 4), Field(raw, 8, 3), Low(raw, 8)>>

TryNewIndividual(area, line, device) ==
    IF area > 15 \/ line > 15 THEN Err ELSE area * 2 ^ 12 + line * 2 ^ 8 + device
IndividualParts(raw) == <<Field(raw, 12, 4), Field(raw, 8, 4), Low(raw, 8)>>

Group(raw) == [group |-> TRUE, raw |-> raw]
Individual(raw) == [group |-> FALSE, raw |-> raw]

Display(address) ==
    IF address.group THEN [separator |-> "/", parts |-> GroupParts(address.raw)]
    ELSE [separator |-> ".", parts |-> IndividualParts(address.raw)]

(* Address::try_from(&str): three numbers, each of which has to be a u8. *)
AddressFromStr(text) ==
    LET p == text.parts
        raw == IF Len(p) # 3 \/ \E i \in 1 .. Len(p) : p[i] > 255 THEN Err
               ELSE IF text.separator = "/" THEN TryNewGroup(p[1], p[2], p[3])
               ELSE TryNewIndividual(p[1], p[2], p[3])
    IN  IF text.separator \notin {"/", "."} \/ raw = Err THEN Err
        ELSE [group |-> text.separator = "/", raw |-> raw]

-----------------------------------------------------------------------------
MessageCodes ==
    [LDataReq |-> \h11, LDataCon |-> \h2E, LDataInd |-> \h29, LBusmonInd |-> \h2B,
     LRawReq |-> \h10, LRawInd |-> \h2D, LRawCon |-> \h2F, MPropReadReq |-> \hFC,
     MPropReadCon |-> \hFB, MPropWriteReq |-> \hF6, MPropWriteCon |-> \hF5]
CodeFromU8(value) ==
    IF \E c \in DOMAIN MessageCodes : MessageCodes[c] = value
    THEN CHOOSE c \in DOMAIN MessageCodes : MessageCodes[c] = value
    ELSE Err

(* ControlField; priority is 0 (system) to 3 (low).  On the wire, repeat and
   system_broadcast are inverted. *)
ToFlags(c) ==
    Be16(256 * (Bit(c.standard, 7) + Bit(~c.repeat, 5) + Bit(~c.system_broadcast, 4)
                + 4 * c.priority + Bit(c.ack_request, 1) + Bit(c.confirm, 0))
         + Bit(c.group, 7) + 16 * Low(c.hop_count, 3))
FromFlags(high, low) ==
    [standard |-> Set(high, 7), repeat |-> ~Set(high, 5), system_broadcast |-> ~Set(high, 4),
     priority |-> Field(high, 2, 2), ack_request |-> Set(high, 1), confirm |-> Set(high, 0),
     group |-> Set(low, 7), hop_count |-> Field(low, 4, 3)]

(* ExtendedControlField. *)
ExtendedToU8(x) == Bit(x.group, 7) + 16 * Low(x.hop_count, 3) + Low(x.extended_frame_format, 4)
ExtendedFromU8(b) ==
    [group |-> Set(b, 7), hop_count |-> Field(b, 4, 3), extended_frame_format |-> Low(b, 4)]

-----------------------------------------------------------------------------
(* CemiFrame::new. *)
NewCemi(code, source, dest, data) ==
    [message_code |-> code, additional_info |-> <<>>,
     control_field |-> [standard |-> TRUE, repeat |-> FALSE, system_broadcast |-> FALSE,
                        priority |-> 1, ack_request |-> FALSE, confirm |-> FALSE,
                        group |-> dest.group, hop_count |-> 6],
     extended_control_field |-> None, source_addr |-> source, dest_addr |-> dest,
     data_length |-> Len(data) % 256, tpci |-> 0, apci_data |-> data]

(* CemiFrame::serialize; infos[n] is the first n fields of additional
   information, one after the other. *)
SerializeCemi(frame) ==
    LET infos[n \in 0 .. Len(frame.additional_info)] ==
          IF n = 0 THEN <<>>
          ELSE LET info == frame.additional_info[n]
               IN  infos[n - 1] \o <<info.info_type, Len(info.data) % 256>> \o info.data
        information == infos[Len(frame.additional_info)]
    IN  <<MessageCodes[frame.message_code], Len(information) % 256>> \o information
          \o ToFlags(frame.control_field)
          \o (IF frame.extended_control_field = None THEN <<>>
              ELSE <<ExtendedToU8(frame.extended_control_field)>>)
          \o Be16(frame.source_addr) \o Be16(frame.dest_addr.raw) \o <<frame.data_length>>
          \o (IF frame.data_length > 0 THEN <<frame.tpci>> \o frame.apci_data ELSE <<>>)

(* The loop over the fields of additional information that end with byte
   number end; from[n] is what it collects once n bytes are behind it. *)
ParseInfo(data, end) ==
    LET from[n \in 2 .. end] ==
          IF n = end THEN <<>>
          ELSE IF n + 1 >= Len(data) \/ n + 2 + data[n + 2] > end THEN Err
          ELSE LET rest == from[n + 2 + data[n + 2]]
               IN  IF rest = Err THEN Err
                   ELSE <<[info_type |-> data[n + 1],
                           data |-> SubSeq(data, n + 3, n + 2 + data[n + 2])]>> \o rest
    IN  from[2]

(* The frame after its additional information: body is what is left. *)
ParseBody(code, infos, body) ==
    LET flags == FromFlags(body[1], body[2])
        ext == IF flags.standard THEN None ELSE ExtendedFromU8(body[3])
        control == IF ext = None THEN flags
                   ELSE [flags EXCEPT !.group = ext.group, !.hop_count = ext.hop_count]
        at == IF ext = None THEN 3 ELSE 4
        dest == IF control.group THEN TryFromRaw(WordAt(body, at + 2))
                ELSE WordAt(body, at + 2)
        length == body[at + 4]
    IN  IF \/ Len(body) < at + 4
           \/ dest = Err
           \/ length > 0 /\ Len(body) < at + 5 + length THEN Err
        ELSE [message_code |-> code, additional_info |-> infos, control_field |-> control,
              extended_control_field |-> ext, source_addr |-> WordAt(body, at),
              dest_addr |-> [group |-> control.group, raw |-> dest],
              data_length |-> length, tpci |-> IF length = 0 THEN 0 ELSE body[at + 5],
              apci_data |-> SubSeq(body, at + 6, at + 5 + length)]

(* CemiFrame::parse. *)
ParseCemi(data) ==
    IF Len(data) < 2 \/ CodeFromU8(data[1]) = Err \/ Len(data) < 2 + data[2] THEN Err
    ELSE LET end == 2 + data[2]
             infos == ParseInfo(data, end)
         IN  IF infos = Err \/ Len(data) < end + 7 THEN Err
             ELSE ParseBody(CodeFromU8(data[1]), infos, From(data, end))

-----------------------------------------------------------------------------
(* GroupValueService. *)
EncodePayload(bits, payload) ==
    IF Len(payload) <= 1 THEN <<bits + IF payload = <<>> THEN 0 ELSE Low(payload[1], 6)>>
    ELSE <<bits>> \o payload
EncodeService(s) ==
    CASE s.service = "Read" -> <<0>>
      [] s.service = "Response" -> EncodePayload(\h40, s.payload)
      [] s.service = "Write" -> EncodePayload(\h80, s.payload)

DecodePayload(apci_data) ==
    IF Len(apci_data) = 1 THEN <<Low(apci_data[1], 6)>> ELSE Tail(apci_data)
DecodeService(tpci, apci_data) ==
    IF apci_data = <<>> THEN Err
    ELSE LET service == Low(tpci, 2) * 256 + Field(apci_data[1], 6, 2) * 64
         IN  CASE service = 0 -> [service |-> "Read", payload |-> None]
               [] service = \h40 -> [service |-> "Response", payload |-> DecodePayload(apci_data)]
               [] service = \h80 -> [service |-> "Write", payload |-> DecodePayload(apci_data)]
               [] OTHER -> Err

(* build_outgoing_frame_for_connection and build_tunnelling_frame_with_code,
   up to the cEMI frame; and parse_cemi_to_telegram. *)
CemiOf(telegram, code) ==
    NewCemi(code, telegram.source, telegram.destination,
            EncodeService(IF telegram.payload = <<>> THEN [service |-> "Read"]
                          ELSE [service |-> "Write", payload |-> telegram.payload]))
ParseCemiToTelegram(data) ==
    LET frame == ParseCemi(data)
        service == DecodeService(frame.tpci, frame.apci_data)
    IN  IF frame = Err THEN Err
        ELSE [source |-> frame.source_addr, destination |-> frame.dest_addr,
              payload |-> IF service = Err \/ service.service = "Read" THEN frame.apci_data
                          ELSE service.payload,
              priority |-> frame.control_field.priority,
              telegram_type |-> IF service = Err THEN "Write" ELSE service.service]

-----------------------------------------------------------------------------
(* TpciFrame. *)
EncodeTpci(t) ==
    CASE t.tpci = "Connect" -> \h80
      [] t.tpci = "Disconnect" -> \h81
      [] t.tpci = "DataConnected" -> \h40 + 4 * Low(t.sequence, 4)
      [] t.tpci = "Ack" -> \hC2 + 4 * Low(t.sequence, 4)
      [] t.tpci = "Nak" -> \hC3 + 4 * Low(t.sequence, 4)
DecodeTpci(byte) ==
    LET sequence == Field(byte, 2, 4)
        mark == <<Field(byte, 6, 2), Low(byte, 2)>>
    IN  CASE byte = \h80 -> [tpci |-> "Connect"]
          [] byte = \h81 -> [tpci |-> "Disconnect"]
          [] mark = <<3, 2>> -> [tpci |-> "Ack", sequence |-> sequence]
          [] mark = <<3, 3>> -> [tpci |-> "Nak", sequence |-> sequence]
          [] OTHER -> [tpci |-> "DataConnected", sequence |-> sequence]

(* DeviceDescriptorRead and DeviceDescriptorResponse. *)
EncodeDescriptorRead(descriptor) == <<3, Low(descriptor, 6)>>
EncodeDescriptorResponse(descriptor, data) == <<3, \h40 + Low(descriptor, 6)>> \o data
DecodeDescriptorResponse(apci) ==
    IF Len(apci) < 2 \/ Low(apci[1], 2) # 3 \/ Field(apci[2], 6, 2) # 1 THEN Err
    ELSE [descriptor |-> Low(apci[2], 6), data |-> From(apci, 2)]

(* The probe's frames, in which the first two bits of the APCI are the last
   of the TPCI, and how it reads the frames it receives. *)
LDataReqCemi(src, dst, tpci, apci) ==
    <<MessageCodes.LDataReq, 0, \hB4, \h60>> \o Be16(src) \o Be16(dst)
      \o <<Len(apci), tpci>> \o apci
DescriptorReadCemi(src, dst) ==
    LET ddr == EncodeDescriptorRead(0)
    IN  LDataReqCemi(src, dst,
                     EncodeTpci([tpci |-> "DataConnected", sequence |-> 0]) + Low(ddr[1], 2),
                     Tail(ddr))

ParseProbeCemiPlain(raw) == ParseCemi(raw)
ParseProbeCemi(raw) ==
    LET frame == ParseCemi(raw)
        at == 2 + raw[2] + 2 + (IF frame.extended_control_field = None THEN 0 ELSE 1) + 4 + 2
    IN  IF frame = Err THEN Err
        ELSE IF frame.data_length = 0 /\ frame.tpci = 0 /\ at <= Len(raw)
        THEN [frame EXCEPT !.tpci = raw[at]]
        ELSE frame
Occupied(frame) ==
    \/ Low(frame.tpci, 2) = 3 /\ frame.apci_data # <<>> /\ Field(frame.apci_data[1], 6, 2) = 1
    \/ DecodeTpci(frame.tpci) = [tpci |-> "Disconnect"]
=============================================================================
