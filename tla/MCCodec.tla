------------------------------- MODULE MCCodec ------------------------------
(***************************************************************************)
(* Samples for Codec: the values at which a field, a flag or an exponent   *)
(* changes, and every value where there are few.                           *)
(***************************************************************************)
EXTENDS Codec

CONSTANTS A, B   \* tasks that send

MCTasks == {A, B}

Quiet == [t \in MCTasks |-> <<>>]
Of(what, values) == {[about |-> what, to_send |-> Quiet, value |-> v] : v \in values}

-----------------------------------------------------------------------------
Hpais ==
    {[host_protocol_code |-> c, ip_addr |-> ip, port |-> port] :
       c \in {1, 2}, ip \in {<<0, 0, 0, 0>>, <<192, 168, 1, 10>>, None},
       port \in {0, 255, 256, 3671, 65535}}
Key(first) == [i \in 1 .. 32 |-> first + i]
Mac(first) == [i \in 1 .. 16 |-> first + i]

Messages ==
    {[kind |-> "ConnectRequest", control_endpoint |-> c, data_endpoint |-> d,
      cri |-> TunnelCri(a)] :
       c \in Hpais, d \in {RouteBack(1), RouteBack(2)}, a \in {None, \h1101}}
    \cup {ConnectResponseOf(ch, s, h, TunnelCrd(a)) :
            ch \in {0, 1, 255}, s \in {0, \h22, \h24}, h \in Hpais,
            a \in {1, 255, 256, \h11FA, 65535}}
    \cup {[kind |-> k, communication_channel_id |-> ch, control_endpoint |-> h] :
            k \in {"ConnectionstateRequest", "DisconnectRequest"},
            ch \in {0, 1, 255}, h \in Hpais}
    \cup {[kind |-> k, communication_channel_id |-> ch, status |-> s] :
            k \in {"ConnectionstateResponse", "DisconnectResponse"},
            ch \in {0, 1, 255}, s \in {0, \h21}}
    \cup {[kind |-> "TunnellingRequest", communication_channel_id |-> ch,
           sequence_counter |-> n, raw_cemi |-> raw] :
            ch \in {1, 255}, n \in {0, 1, 255},
            raw \in {<<>>, <<17, 0, 188, 224, 17, 1, 8, 3, 1, 0, 129>>,
                     [i \in 1 .. 250 |-> i]}}
    \cup {[kind |-> "TunnellingAck", communication_channel_id |-> ch,
           sequence_counter |-> n, status_code |-> s] :
            ch \in {1, 255}, n \in {0, 1, 255}, s \in {0, \h29}}
    \cup {[kind |-> "SessionRequest", control_endpoint |-> h, public_key |-> Key(7)] :
            h \in Hpais}
    \cup {[kind |-> "SessionResponse", session_id |-> id, public_key |-> Key(7),
           mac |-> Mac(70)] : id \in {0, 1, 255, 256, 65535}}
    \cup {[kind |-> "SessionAuthenticate", user_id |-> u, mac |-> Mac(70)] : u \in {1, 127}}
    \cup {[kind |-> "SessionStatus", status |-> s] : s \in 0 .. 5}

MessageSamples ==
    Of("message", {[message |-> m, after |-> after] : m \in Messages, after \in {<<>>, <<6, 16>>}})

-----------------------------------------------------------------------------
Infos == {[info_type |-> t, data |-> d] : t \in {3, 254}, d \in {<<>>, <<1>>, <<4, 5, 6>>}}
Controls ==
    [standard : BOOLEAN, repeat : BOOLEAN, system_broadcast : BOOLEAN, priority : 0 .. 3,
     ack_request : BOOLEAN, confirm : BOOLEAN, group : BOOLEAN, hop_count : {0, 6, 7}]

(* Frames as parsing makes them: an extended frame takes its destination
   type and its hop count from the extended control byte. *)
CemiFrame(code, infos, control, format, data) ==
    [message_code |-> code, additional_info |-> infos, control_field |-> control,
     extended_control_field |->
        IF control.standard THEN None
        ELSE [group |-> control.group, hop_count |-> control.hop_count,
              extended_frame_format |-> format],
     source_addr |-> \h1101, dest_addr |-> [group |-> control.group, raw |-> \h0A03],
     data_length |-> Len(data), tpci |-> IF data = <<>> THEN 0 ELSE 3, apci_data |-> data]
CemiSamples ==
    Of("cemi",
       {CemiFrame("LDataInd", <<>>, c, 5, <<\h80, 1>>) : c \in Controls}
       \cup {CemiFrame(code, infos, c, 0, data) :
               code \in DOMAIN MessageCodes, data \in {<<>>, <<\h81>>, <<\h80, 12, 34>>},
               infos \in {<<>>} \cup {<<i>> : i \in Infos} \cup {<<i, j>> : i, j \in Infos},
               c \in {x \in Controls : /\ x.repeat /\ ~x.system_broadcast /\ x.priority = 3
                                       /\ ~x.ack_request /\ ~x.confirm /\ x.hop_count = 6}})

AddressSamples ==
    Of("address",
       {[separator |-> s, parts |-> <<a, b, c>>] :
          s \in {"/", "."}, a \in {0, 1, 15, 16, 31, 255, 256},
          b \in {0, 1, 7, 8, 15, 16, 255, 256}, c \in {0, 1, 255, 256}})

TpciSamples ==
    Of("tpci", {[tpci |-> k] : k \in {"Connect", "Disconnect"}}
               \cup {[tpci |-> k, sequence |-> n] :
                       k \in {"DataConnected", "Ack", "Nak"}, n \in 0 .. 15})

(* Frames on the bus as a probe meets them: the answer, the rejection, the
   acknowledgement, the confirmation of what it asked, a group write. *)
Indication(code, infos, standard, group, tpci, data) ==
    SerializeCemi([CemiFrame(code, infos, [standard |-> standard, repeat |-> FALSE,
                             system_broadcast |-> FALSE, priority |-> 0,
                             ack_request |-> FALSE, confirm |-> FALSE, group |-> group,
                             hop_count |-> 6], 0, data) EXCEPT !.tpci = tpci])
      \o (IF data = <<>> THEN <<tpci>> ELSE <<>>)
ProbeSamples ==
    LET answer == EncodeDescriptorResponse(0, <<7, 176>>)
        connected == EncodeTpci([tpci |-> "DataConnected", sequence |-> 0])
        all == [infos : {<<>>} \cup {<<i>> : i \in Infos}, standard : BOOLEAN]
    IN  Of("probe",
           {[raw |-> Indication("LDataInd", x.infos, x.standard, FALSE,
                                connected + answer[1], Tail(answer)),
             device |-> TRUE] : x \in all}
           \cup {[raw |-> Indication("LDataInd", x.infos, x.standard, FALSE,
                                     EncodeTpci([tpci |-> "Disconnect"]), <<>>),
                  device |-> TRUE] : x \in all}
           \cup {[raw |-> Indication("LDataInd", x.infos, x.standard, FALSE,
                                     EncodeTpci([tpci |-> "Ack", sequence |-> 0]), <<>>),
                  device |-> FALSE] : x \in all}
           \cup {[raw |-> Indication("LDataInd", x.infos, x.standard, TRUE, 0,
                                     EncodePayload(\h80, payload)),
                  device |-> FALSE] : x \in all, payload \in {<<1>>, <<63>>, <<12, 34>>}}
           \cup {[raw |-> DescriptorReadCemi(\h11FA, \h1101), device |-> FALSE]})

-----------------------------------------------------------------------------
Sample(main, sub, bytes) == [main |-> main, sub |-> sub, bytes |-> bytes]
Words == {0, 1, 127, 128, 255}
Strings ==
    {<<>>, <<72, 105>>, <<32, 72, 32, 105, 32>>, <<72, 0, 105>>, <<0, 72>>, <<71, 195, 188>>,
     <<195>>, <<188, 71>>, <<228, 71>>, <<194, 176, 67>>, [i \in 1 .. 14 |-> 64 + i],
     [i \in 1 .. 14 |-> IF i = 14 THEN 195 ELSE 65]}
DptSamples ==
    Of("dpt",
       {Sample(m, 1, <<b>>) : m \in {1, 2, 3, 5, 6, 17, 18}, b \in Byte}
       \cup {Sample(20, sub, <<b>>) : sub \in {102, 105}, b \in Byte}
       \cup {Sample(1, sub, <<b>>) : sub \in (2 .. 24) \cup {100, 1200, 1201}, b \in {0, 1}}
       \cup {Sample(2, sub, <<b>>) : sub \in 2 .. 12, b \in 0 .. 3}
       \cup {Sample(m, 10, <<b>>) : m \in {5, 6}, b \in Byte}
       \cup {Sample(m, sub, <<a, b>>) : m \in {7, 8}, sub \in {1, 5}, a \in Words, b \in Words}
       \cup {Sample(9, sub, <<a, b>>) : sub \in {1, 60000}, a \in Byte,
                                        b \in {0, 1, 99, 100, 200, 225, 255}}
       \cup {Sample(m, 1, <<a, b, c>>) :
               m \in {10, 11, 232}, a \in {0, 1, 23, 24, 31, 32, 255}, b \in {0, 12, 59, 63, 255},
               c \in {0, 58, 89, 90, 99, 100, 127, 128, 255}}
       \cup {Sample(19, 1, <<y, mo, d, h + 32 * w, mi, s, f, 192>>) :
               y \in {0, 255}, mo \in {0, 12, 255}, d \in {0, 31, 255}, w \in {0, 7},
               h \in {23, 24}, mi \in {0, 59, 60}, s \in {0, 59}, f \in {0, 255}}
       \cup {Sample(m, sub, <<a, b, 2, c>>) : m \in {12, 13, 14}, sub \in {1, 2},
                                              a \in Words, b \in Words, c \in Words}
       \cup {Sample(29, 10, <<a, b, 2, 3, 4, 5, 6, c>>) : a \in Words, b \in Words, c \in Words}
       \cup {Sample(16, sub, Padded(text)) : sub \in {0, 1}, text \in Strings}
       \cup {Sample(m, 1, <<a, 2, 3, b, 5, c>>) :
               m \in {235, 242, 251}, a \in Words, b \in Words, c \in {0, 1, 2, 3, 8, 15}}
       \cup {Sample(m, 1, <<1, 1, 1, 1, 1>>) : m \in {1, 7, 10, 12, 16, 19, 20, 29, 232, 242}})

MadeSamples ==
    LET Made(main, sub, made) == [main |-> main, sub |-> sub, made |-> made, invalid |-> {}]
        Unless(valid, fields) == IF valid THEN {} ELSE fields
        words == {<<a, b>> : a \in {0, 127, 65535}, b \in {1, 32768, 65535}}
        texts == {<<>>, <<72, 105>>, <<71, 228, 8364>>, [i \in 1 .. 14 |-> 64 + i], [i \in 1 .. 15 |-> 64]}
    IN  Of("made",
           {Made(1, 1, NewSwitch([bool |-> b])) : b \in BOOLEAN}
           \cup {Made(2, 1, NewBinaryControl([control |-> c, value |-> b])) : b, c \in BOOLEAN}
           \cup {Made(3, 7, NewControlDimming([step |-> b, step_code |-> n])) : b \in BOOLEAN, n \in 0 .. 8}
           \cup {Made(5, 1, NewScaling([unsigned |-> n])) : n \in Words}
           \cup {Made(6, 1, NewPercentV8([signed |-> n])) : n \in {-128, -1, 0, 127}}
           \cup {Made(7, 1, NewValue2ByteUnsigned([unsigned |-> n])) : n \in {0, 255, 256, 65535}}
           \cup {Made(8, 1, NewValue2ByteSigned([signed |-> n])) : n \in {-32768, -1, 255, 32767}}
           \cup {Made(m, 1, NewValue4Byte([words |-> w])) : m \in {12, 13}, w \in words}
           \cup {Made(14, 1, NewFloat([words |-> w])) : w \in words \cup {<<32640, 0>>, <<65408, 0>>}}
           \cup {Made(29, 10, NewActiveEnergy8Byte([words |-> w \o w])) : w \in words}
           \cup {Made(16, 0, NewStringAscii(t)) : t \in texts}
           \cup {Made(16, 1, NewStringLatin1(t)) : t \in texts}
           \cup {Made(20, 102, NewHVACMode(n)) : n \in 0 .. 5}
           \cup {Made(20, 105, NewHVACControllerMode(n)) : n \in 0 .. 21}
           \cup {Made(232, 600, NewColorRGB([r |-> 1, g |-> n, b |-> 3])) : n \in Words}
           \cup {[Made(235, 1, NewTariff([words |-> w, tariff |-> 7], e, t)) EXCEPT
                    !.invalid = Unless(e, {"words"}) \cup Unless(t, {"tariff"})] :
                   w \in words, e, t \in BOOLEAN}
           \cup {[Made(242, 600, NewColorXYY([x |-> 258, y |-> n, brightness |-> 7], c, b)) EXCEPT
                    !.invalid = Unless(c, {"x", "y"}) \cup Unless(b, {"brightness"})] :
                   n \in {1, 65535}, c, b \in BOOLEAN}
           \cup {[Made(251, 600, NewColorRGBW([r |-> 1, g |-> 2, b |-> 3, w |-> 4], valid)) EXCEPT
                    !.invalid = {"r", "g", "b", "w"} \ valid] : valid \in SUBSET {"r", "g", "b", "w"}})
PercentSamples ==
    Of("percent", {s * (k + d) : s \in {1, -1}, k \in {0, 50, 10000, 32767}, d \in 0 .. 2})

NumberSamples ==
    Of("number", {10 * n + d : n \in {-32769, -32768, -129, -128, -1, 0, 1, 127, 128, 255, 256,
                                      32767, 32768, 65535, 65536},
                               d \in -9 .. 9})
SynonymSamples ==
    LET Case(main, text, bytes) == [main |-> main, text |-> text, bytes |-> bytes]
    IN  Of("synonym",
           {Case(1, <<W(w)>>, <<1>>) : w \in {"true", "on", "yes"}}
           \cup {Case(1, <<W(w)>>, <<0>>) : w \in {"false", "off", "no"}}
           \cup {Case(1, <<N(n)>>, <<n>>) : n \in {0, 1}}
           \cup {Case(2, <<W("on")>>, <<3>>), Case(2, <<W("off")>>, <<2>>)}
           \cup {Case(3, <<W(w), N(n)>>, <<8 + n>>) : w \in {"increase", "up"}, n \in 0 .. 7}
           \cup {Case(3, <<W(w), N(n)>>, <<n>>) : w \in {"decrease", "down"}, n \in 0 .. 7}
           \cup {Case(3, <<N(n)>>, <<IF n >= 0 THEN 8 + n ELSE -n>>) : n \in -7 .. 7}
           \cup {Case(3, <<W(w)>>, <<0>>) : w \in {"stop", "break"}}
           \cup {Case(3, <<N(n)>>, Err) : n \in {-8, 8}}
           \cup {Case(3, <<W("up"), N(8)>>, Err), Case(3, <<W("fast")>>, Err)}
           \cup {Case(m, <<N(n)>>, IF n \in 1 .. 64 THEN <<n - 1>> ELSE Err) :
                    m \in {17, 18}, n \in 0 .. 65}
           \cup {Case(20, <<N(n)>>, IF n \in Byte THEN <<n>> ELSE Err) : n \in {0, 17, 255, 256}}
           \cup {Case(232, <<W("#"), N(1), N(128), N(255)>>, <<1, 128, 255>>),
                 Case(232, <<W("#"), N(1), N(128)>>, Err),
                 Case(232, <<N(1), W(","), N(128), W(","), N(255)>>, <<1, 128, 255>>),
                 Case(232, <<N(1), W(","), N(128), W(","), N(256)>>, Err),
                 Case(251, <<W("#"), N(1), N(128), N(255), N(7)>>, <<1, 128, 255, 7, 0, 15>>),
                 Case(10, <<N(23), W(":"), N(59), W(":"), N(0)>>, <<23, 59, 0>>),
                 Case(10, <<N(23), W(":"), N(60), W(":"), N(0)>>, Err)})

TimeSamples ==
    Of("time", {[day |-> d, hour |-> h, minute |-> m, second |-> s] :
                  d \in 0 .. 9, h \in {0, 1, 23, 24, 31, 32}, m \in {0, 59, 60, 64},
                  s \in {0, 59, 60, 255}})
DateSamples ==
    Of("date", {[day |-> d, month |-> m, year |-> y] :
                  d \in {0, 1, 31, 32}, m \in {0, 1, 12, 13}, y \in 0 .. 128})
SceneSamples == Of("scene", Byte)
DateTimeSamples ==
    LET flags == {{}, {"no_time"}, {"no_dow"}, {"no_date"}, {"no_year"}, {"suti", "fault"},
                  {"no_wd", "working_day"}, {"source_reliable"}, {"external_sync"},
                  {"no_time", "no_dow", "no_date", "no_year"}}
    IN  Of("datetime",
           {[year |-> y, month |-> mo, day |-> d, day_of_week |-> w, hour |-> h,
             minute |-> mi, second |-> s, flags |-> f] :
              y \in {0, 255}, mo \in {0, 12, 13, 255}, d \in {1, 32}, w \in {0, 7, 8},
              h \in {23, 24, 25, 32}, mi \in {0, 59, 60}, s \in {0, 60}, f \in flags})

FloatSamples == Of("float", Byte)
HundredthsSamples ==
    LET edges == {m * 2 ^ e : m \in {1, 1023, 1024, 2046, 2047}, e \in 0 .. 15}
    IN  Of("hundredths", {s * (k + d) : s \in {1, -1}, k \in edges, d \in -3 .. 3}
                         \cup {-67076096})

-----------------------------------------------------------------------------
(* What tasks send over the stream. *)
Telegram(payload) ==
    [source |-> \h11FA, destination |-> Group(\h0A04), payload |-> payload]
Foreign == [service |-> \h0299, body |-> <<8, 1>>]

Sending(a, b) ==
    [about |-> "stream", to_send |-> [t \in MCTasks |-> IF t = A THEN a ELSE b], value |-> None]
StreamSamples ==
    {Sending(<<Telegram(<<1>>)>>, <<Telegram(<<>>)>>),
     Sending(<<Telegram(<<12, 34>>), Foreign>>, <<>>),
     Sending(<<Foreign, Telegram(<<63>>)>>, <<>>)}

(* What the members of a multicast group send: telegrams, the two control
   frames, a RoutingBusy with no pause or without the field for it, a search,
   and a frame whose service the library does not know. *)
By(from, telegram) == [from |-> from, telegram |-> telegram]
Busy(body) == [from |-> "busy", body |-> body]
Lost == [from |-> "lost"]
Other(service) == [from |-> "other", service |-> service, body |-> <<8, 1>>]

GroupOf(items) == [about |-> "routing", to_send |-> Quiet, value |-> items]
RoutingSamples ==
    {GroupOf(<<By("knx", Telegram(<<1>>)), Busy(<<0, 0, 0, 50>>), By("knx", Telegram(<<12, 34>>))>>),
     GroupOf(<<By("knx", Telegram(<<>>)), By("router", Telegram(<<1>>)), Lost, Busy(<<>>)>>),
     GroupOf(<<Busy(<<0, 0, 0, 0>>), Other(\h0201), By("knx", Telegram(<<63>>))>>),
     GroupOf(<<By("knx", Telegram(<<5>>)), Other(\h0533), Lost>>)}
HeardSamples == <<{GroupOf(<<By("knx", Telegram(<<1>>)), By("router", Telegram(<<1>>))>>)}>>

(* Search responses: the blocks of a gateway, and what the gateway is. *)
Device(serial, name) ==
    <<54, 1, 2, 0, 17, 0, 0, 0, 0, 0, 0, 0>> \o serial \o <<0, 0, 0, 0, 0, 0>> \o name
Listing(families) ==
    <<2 * Len(families) + 2, 2>>
      \o [k \in 1 .. 2 * Len(families) |-> IF k % 2 = 1 THEN families[(k + 1) \div 2] ELSE 1]
SearchResponse(blocks, after) ==
    LET hpai == <<8, 1, 192, 168, 1, 10, 14, 87>>
    IN  <<6, 16, 2, 2>> \o Be16(14 + Len(blocks)) \o hpai \o blocks \o after

Serial == <<0, 1, 2, 3, 4, 5>>
NameBytes == [k \in 1 .. 30 |-> IF k < 4 THEN 65 ELSE 0]
Plain ==
    [name |-> None, device_serial |-> None,
     supported_services |-> <<"Core", "DeviceManagement", "Tunneling">>,
     supports_device_management |-> TRUE, supports_tunneling |-> TRUE,
     supports_routing |-> FALSE, max_tunneling_connections |-> 4, multicast |-> FALSE]
Router ==
    [Plain EXCEPT !.name = <<65, 65, 65>>, !.device_serial = Serial,
                  !.supported_services = <<"Core", "Routing">>,
                  !.supports_device_management = FALSE, !.supports_tunneling = FALSE,
                  !.supports_routing = TRUE, !.max_tunneling_connections = 1, !.multicast = TRUE]
Interface ==
    [Router EXCEPT !.name = None, !.supported_services = <<"Core", "Tunneling", "DeviceManagement">>,
                   !.supports_device_management = TRUE, !.supports_tunneling = TRUE,
                   !.supports_routing = FALSE, !.max_tunneling_connections = 4, !.multicast = FALSE]

Answer(addr, gateway, data) == [addr |-> addr, gateway |-> gateway, data |-> data]
RouterSays(addr) ==
    Answer(addr, Router, SearchResponse(Device(Serial, NameBytes) \o Listing(<<2, 5, 7>>), <<>>))
(* A name of 30 bytes has no NUL; an unknown block is skipped. *)
InterfaceSays(addr) ==
    Answer(addr, Interface,
          SearchResponse(<<4, 254, 9, 9>> \o Listing(<<4, 3>>)
                           \o Device(Serial, [k \in 1 .. 30 |-> 66]), <<>>))
PlainSays(addr, blocks) == Answer(addr, Plain, SearchResponse(blocks, <<>>))
CutSays(addr) == Answer(addr, None, SubSeq(SearchResponse(Listing(<<5>>), <<>>), 1, 17))
OtherSays(addr) == Answer(addr, None, <<6, 16, 2, 6, 0, 8, 1, 0>>)

SearchOf(answers) == [about |-> "discovery", to_send |-> Quiet, value |-> answers]
SearchSamples ==
    {SearchOf(<<RouterSays(1), InterfaceSays(2), CutSays(1)>>),
     SearchOf(<<PlainSays(1, <<>>), RouterSays(1), OtherSays(2)>>),
     SearchOf(<<OtherSays(1), CutSays(2)>>),
     SearchOf(<<PlainSays(1, <<1>>), PlainSays(2, <<0, 2, 5, 1>>), PlainSays(3, <<9, 2, 5, 1>>)>>),
     SearchOf(<<PlainSays(1, <<3, 2, 5>>), PlainSays(2, <<4, 1, 5, 1>>),
                PlainSays(3, Listing(<<2>>))>>)}

MCSamples ==
    <<MessageSamples, CemiSamples, AddressSamples, TpciSamples, ProbeSamples, DptSamples,
      TimeSamples, DateSamples, SceneSamples, DateTimeSamples, MadeSamples, PercentSamples, NumberSamples, SynonymSamples,
      FloatSamples, HundredthsSamples, StreamSamples, RoutingSamples, SearchSamples>>

(* The dimmer of the example send_telegrams.rs at 128 of 255. *)
DimmerSamples == <<{Sending(<<Telegram(<<128>>)>>, <<>>)}>>
=============================================================================
