-------------------------------- MODULE Codec -------------------------------
(***************************************************************************)
(* The encoders and decoders of the protocol, each on a sample that the    *)
(* initial state picks, and the stream and the multicast group that carry  *)
(* what they produce.  A sample has an about, which names what it is a     *)
(* sample of, and a value.                                                 *)
(***************************************************************************)
EXTENDS Routing, Discovery, DptText

CONSTANT Samples   \* a sequence of sets

vars == <<sample, streamVars, routingVars, discoveryVars>>

Init ==
    /\ \E i \in DOMAIN Samples : sample \in Samples[i]
    /\ StreamInit /\ RoutingInit /\ DiscoveryInit

Next ==
    /\ \/ StreamNext /\ UNCHANGED <<routingVars, discoveryVars>>
       \/ RoutingNext /\ UNCHANGED <<streamVars, discoveryVars>>
       \/ DiscoveryNext /\ UNCHANGED <<streamVars, routingVars>>
    /\ UNCHANGED sample
Spec == Init /\ [][Next]_vars
FairSpec == Spec /\ StreamFairness /\ RoutingFairness

About(what) == sample.about = what

(* What a stream or a multicast group carries comes out as it went in, and a
   search finds the gateways that answer. *)
TransportsSound == StreamSound /\ RoutingSound /\ GatewaysFound

(* In the end nothing is left behind on either of them, although the reads
   that wait are dropped again and again (recv_frame, RoutingConnection::recv),
   and the receiving task of a closed connection has ended. *)
TransportsAdvance == <>[](EverythingArrived /\ RoutingAtRest)

-----------------------------------------------------------------------------
(* What a message is read as: an endpoint that is not IPv4 becomes 0.0.0.0,
   a refusal has neither endpoint nor CRD, and the extended CRI, with which
   a client asks for an address, is one that ParseCri refuses. *)
ReadAs(m) ==
    LET V4(hpai) == IF hpai.ip_addr = None THEN [hpai EXCEPT !.ip_addr = <<0, 0, 0, 0>>]
                    ELSE hpai
    IN  CASE m.kind = "ConnectRequest" ->
               IF m.cri.individual_address # None THEN Err
               ELSE [m EXCEPT !.control_endpoint = V4(@), !.data_endpoint = V4(@)]
          [] m.kind = "ConnectResponse" ->
               IF m.status # 0 THEN ConnectResponseOf(m.channel_id, m.status, RouteBack(1), <<>>)
               ELSE [m EXCEPT !.data_endpoint = V4(@)]
          [] m.kind \in {"ConnectionstateRequest", "DisconnectRequest", "SessionRequest"} ->
               [m EXCEPT !.control_endpoint = V4(@)]
          [] OTHER -> m

(* Every KNX/IP message, put into a frame and taken out of it, is the one
   that was put in, whatever bytes follow the frame: body lengths, field
   offsets and byte orders of serialize and parse agree (knxip.rs). *)
MessagesSurvive ==
    About("message") =>
       LET m == sample.value.message
           data == SerializeFrame(Frame(m.kind, Serialize(m)))
           frame == ParseFrame(data \o sample.value.after)
       IN  /\ frame.service_type = m.kind
           /\ Parse(m.kind, frame.body) = ReadAs(m)

(* A frame that is cut short is refused, at whatever byte it is cut: neither
   parser of a frame takes a part of it for the whole, or reads past it. *)
CutFramesRefused ==
    About("message") =>
       LET m == sample.value.message
           data == SerializeFrame(Frame(m.kind, Serialize(m)))
       IN  \A n \in 0 .. Len(data) - 1 :
              /\ ParseFrame(SubSeq(data, 1, n)) = Err
              /\ TryExtractFrame(SubSeq(data, 1, n)) = 0

-----------------------------------------------------------------------------
(* Additional information, the inverted flags, the extended control byte and
   both kinds of destination survive the way through a cEMI frame. *)
CemiSurvives ==
    About("cemi") => ParseCemi(SerializeCemi(sample.value)) = sample.value

(* A text names an address exactly when it is the text of that address: the
   ranges that parsing checks are those of the fields that Display shows. *)
TextNamesAddress ==
    About("address") =>
       LET address == AddressFromStr(sample.value)
       IN  /\ address # Err => Display(address) = sample.value
           /\ address = Err <=>
                ~\E group \in BOOLEAN, high \in Byte :
                    LET raw == Word(high, sample.value.parts[3])
                    IN  /\ raw \in 0 .. (IF group THEN MaxRaw ELSE 65535)
                        /\ Display([group |-> group, raw |-> raw]) = sample.value

(* A transport control byte keeps its meaning and its sequence number, and
   no two of them share a byte (tpci.rs). *)
TpciSurvives ==
    About("tpci") => DecodeTpci(EncodeTpci(sample.value)) = sample.value

(* The probe takes an address for occupied when a device answers or rejects
   it, whatever additional information comes with the frame, and not for a
   group telegram that passes by (parse_probe_cemi, classify_cemi). *)
ProbeSeesDevice ==
    About("probe") =>
       Occupied(ParseProbeCemi(sample.value.raw)) <=> sample.value.device

(* A device's answer keeps its descriptor type and data (management.rs). *)
DescriptorSurvives ==
    About("tpci") =>
       \A descriptor \in 0 .. 63, data \in {<<>>, <<7, 176>>, <<0, 1, 255>>} :
          DecodeDescriptorResponse(EncodeDescriptorResponse(descriptor, data))
             = [descriptor |-> descriptor, data |-> data]

(* A KNX/IP frame and what it carries, the cEMI frame, its addresses, its
   transport control and a probe's answer, are read as what they were
   written as, or not at all. *)
FramesReadBack ==
    /\ MessagesSurvive /\ CutFramesRefused
    /\ CemiSurvives /\ TextNamesAddress /\ TpciSurvives
    /\ DescriptorSurvives /\ ProbeSeesDevice

-----------------------------------------------------------------------------
(* What the runtime codec decodes it can encode again, and then means the
   same: except for main 18, whose view becomes a payload without its learn
   flag that encode refuses, and for main 9 (see below). *)
DptReencodes ==
    About("dpt") =>
       LET main == sample.value.main
           view == DecodeRef(main, sample.value.bytes)
           payload == PayloadOf(main, view)
       IN  view # Err /\ main # 9 =>
              IF main = 18 THEN EncodeDpt(18, payload) = Err
              ELSE PayloadOf(main, DecodeRef(main, EncodeDpt(main, payload))) = payload

(* The typed codecs and the runtime codec of the same datapoint type write
   the same bytes for the same value, and the runtime one reads the value
   that the typed one was given. *)
CodecsAgree ==
    LET v == sample.value
        Same(main, bytes, value) ==
           bytes # Err => /\ PayloadOf(main, DecodeRef(main, bytes)) = value
                          /\ EncodeDpt(main, value) = bytes
    IN  /\ About("time") => Same(10, NewTime(v), v)
        /\ About("date") =>
              \E year \in 1990 .. 2089 :
                 year % 100 = v.year % 100 /\ Same(11, NewDate(v), [v EXCEPT !.year = year])
        /\ About("scene") => /\ Same(17, NewScene(v), [scene |-> v])
                             /\ \A learn \in BOOLEAN :
                                   NewSceneControl(v, learn)
                                     \in {Err, EncodeDpt(18, [scene |-> v, learn |-> learn])}
        /\ About("datetime") /\ v.flags = {} =>
              Same(19, NewDateTime(v),
                   [year |-> 1900 + v.year, month |-> v.month, day |-> v.day,
                    day_of_week |-> v.day_of_week, hour |-> v.hour,
                    minute |-> v.minute, second |-> v.second])

(* A DateTime that could be made is read back with the fields that are
   present and the flags, and zero in the fields that are absent, whatever
   was given for those: none of it spills into a neighbour. *)
DateTimeReadsItself ==
    About("datetime") /\ NewDateTime(sample.value) # Err =>
       LET v == sample.value
           Unless(flag, field) == IF flag \in v.flags THEN 0 ELSE field
       IN  DecodeDateTime(NewDateTime(v)) =
             [flags |-> v.flags, year |-> Unless("no_year", v.year),
              month |-> Unless("no_date", v.month), day |-> Unless("no_date", v.day),
              day_of_week |-> Unless("no_dow", v.day_of_week),
              hour |-> Unless("no_time", v.hour), minute |-> Unless("no_time", v.minute),
              second |-> Unless("no_time", v.second)]

(* Bytes that the typed decoder refuses although their number is right: bits
   that mean nothing, and values out of range.  The runtime one takes them
   all, but for those of main 235, none of which it takes. *)
OutOfRange(main, sub, b) ==
    CASE main = 1 -> b[1] > 1
      [] main = 2 -> b[1] > 3
      [] main = 10 -> Low(b[1], 5) > 23 \/ Low(b[2], 6) > 59 \/ Low(b[3], 6) > 59
      [] main = 11 -> Low(b[1], 5) = 0 \/ Low(b[2], 4) \notin 1 .. 12 \/ Low(b[3], 7) > 99
      [] main = 19 -> DecodeDateTime(b) = Err
      [] main = 20 -> b[1] \notin IF sub = 102 THEN 0 .. 4 ELSE (0 .. 17) \cup {20}
      [] OTHER -> FALSE

(* Strings that both decoders read alike: the typed one leaves out zeros and
   goes on, and takes a byte for a character. *)
PlainText(b) == \A i \in DOMAIN b : b[i] < 128 /\ (i > 1 /\ b[i] # 0 => b[i - 1] # 0)

(* Whichever of its two decoders a receiver uses, the fields it sees are the
   same, from whatever bytes the bus brings: the typed one may refuse, and
   what it keeps to send on is read by both as what it says (mod.rs). *)
TypedAgree ==
    About("dpt") =>
       LET main == sample.value.main
           sub == sample.value.sub
           b == sample.value.bytes
           typed == TypedDecode(main, sub, b)
           seen == DecodeRef(main, b)
           Year(value) == IF main \in {11, 19} THEN [value EXCEPT !.year = @ % 100] ELSE value
           Alike(value) == \A field \in DOMAIN seen \ (IF main = 17 THEN {"learn"} ELSE {}) :
                              Year(value)[field] = Year(seen)[field]
       IN  /\ typed = Err <=> Len(b) # ByteLength(main) \/ OutOfRange(main, sub, b)
           /\ seen = Err <=> Len(b) # ByteLength(main) \/ main = 235
           /\ typed # Err /\ seen # Err /\ (main = 16 => PlainText(b)) =>
                 /\ Alike(typed.value)
                 /\ (main \in {242, 251} => b[6] = IF main = 242 THEN 3 ELSE 15)
                      /\ (main = 19 => typed.value.flags = {})
                    => /\ PayloadOf(main, DecodeRef(main, typed.data)) = PayloadOf(main, seen)
                       /\ main # 9 /\ main # 18 =>
                             Alike(TypedDecode(main, sub, EncodeDpt(main, PayloadOf(main, seen))).value)

(* What a typed value is made from is what both decoders read from the bytes
   it keeps: fields that are marked as invalid are read as zero, characters
   that its alphabet has not as question marks, and a percentage of 8.010 is
   at most one hundredth nearer to zero. *)
MadeReadsBack ==
    /\ About("made") /\ sample.value.made # Err =>
          LET v == sample.value
              typed == TypedDecode(v.main, v.sub, v.made.data)
              seen == DecodeRef(v.main, v.made.data)
              Expected(field) ==
                 IF field \in v.invalid THEN 0
                 ELSE IF v.main = 16
                      THEN [i \in DOMAIN v.made.value.text |->
                              IF v.made.value.text[i] <= (IF v.sub = 0 THEN 127 ELSE 255)
                              THEN v.made.value.text[i] ELSE Question]
                 ELSE v.made.value[field]
          IN  /\ \A field \in DOMAIN v.made.value \ v.invalid :
                    typed.value[field] = Expected(field)
              /\ v.main # 235 /\ (v.main = 16 => PlainText(v.made.data)) =>
                    \A field \in DOMAIN seen : seen[field] = Expected(field)
    /\ About("percent") =>
          \A made \in NewPercentV16(sample.value) :
             /\ made = Err => sample.value \notin -32768 .. 32767
             /\ made # Err => DecodeRef(8, made.data).signed \in Casts(sample.value)

(* Every 2-byte float (here: all that start with one byte) that the typed
   codec decodes, it encodes as the same number again, in spite of the two
   roundings of f32 and the halvings. *)
Float2ByteExact ==
    About("float") =>
       \A low \in Byte :
       LET k == HundredthsAt(<<sample.value, low>>)
           magnitude == IF k < 0 THEN -k ELSE k
       IN  k # 0 => LET bytes == EncodeFloat(k < 0, Div100(magnitude))
                    IN  bytes # Err /\ HundredthsAt(bytes) = k

(* The runtime codec's 2-byte float is at most one step of its exponent
   below the value and at most a hundredth above it, whatever the cast to
   i32 and the halvings lose; at
   the lower end of the range, where -671088.64 itself is, the exponent
   becomes 16 and wraps, so that the property stops at -670760.96. *)
Float2WithinStep ==
    About("hundredths") /\ sample.value >= -67076096 =>
       \A m \in Casts(sample.value) :
          LET back == HundredthsAt(EncodeHundredths(m))
              step == 2 ^ Halved(m).exponent
          IN  back - sample.value \in -step .. 1

(* The codecs of a datapoint type agree with each other and with
   themselves, in both directions (dpt_type.rs, dpt1.rs to dpt251.rs); of
   the two encoders of the 2-byte float, the typed one is exact and the
   runtime one no more than a step away. *)
DptsAgree ==
    /\ DptReencodes /\ CodecsAgree /\ DateTimeReadsItself /\ TypedAgree /\ MadeReadsBack
    /\ Float2ByteExact /\ Float2WithinStep

-----------------------------------------------------------------------------
(* The values whose text parse refuses: those of mains 2 and 3, whose texts
   have brackets, of main 29, whose unit is not stripped, times, dates and
   modes that are none, and the largest 2-byte float, which is rounded up. *)
TextRefused(main, sub, b) ==
    CASE main \in {2, 3, 29} -> TRUE
      [] main = 9 -> b = <<127, 255>>
      [] main = 10 -> Low(b[1], 5) > 23 \/ Low(b[2], 6) > 59 \/ Low(b[3], 6) > 59
      [] main = 11 -> Low(b[1], 5) = 0 \/ Low(b[2], 4) \notin 1 .. 12
      [] main = 19 -> \/ Low(b[2], 4) \notin 1 .. 12 \/ Low(b[3], 5) = 0
                      \/ Low(b[4], 5) > 23 \/ Low(b[5], 6) > 59 \/ Low(b[6], 6) > 59
      [] main = 20 -> b[1] \notin IF sub = 102 THEN 0 .. 4 ELSE (0 .. 17) \cup {20}
      [] OTHER -> FALSE

(* What the bytes read from a text mean, compared with those it was written
   for: a 2-byte float is within half a tenth and the step of its exponent,
   but for the two lowest, whose exponent wraps and which become -10.24;
   chromaticities are within half a thousandth, a string is trimmed. *)
TextMeans(main, b, again) ==
    LET Near(m, n, distance) == m - n \in -distance .. distance
        v == DecodeRef(main, b)
        w == DecodeRef(main, again)
    IN  CASE main = 9 -> IF b \in {<<248, 0>>, <<248, 1>>} THEN w.hundredths = -1024
                         ELSE Near(w.hundredths, v.hundredths, 6 + 2 ^ Field(again[1], 3, 4))
          [] main = 16 -> w.text = Trimmed(v.text)
          [] main = 17 -> w.scene = v.scene
          [] main = 242 -> /\ Near(w.x, v.x, 33) /\ Near(w.y, v.y, 33)
                           /\ w.brightness = v.brightness
          [] OTHER -> w = v

(* parse is "the reverse of formatted" (view.rs) with these exceptions and no
   others: every other text that a user is shown, given back, is taken for
   the value it was shown for, by the runtime codec and by a typed handle. *)
TextsReadBack ==
    About("dpt") /\ sample.value.main # 14 /\ DecodeRef(sample.value.main, sample.value.bytes) # Err =>
       LET main == sample.value.main
           sub == sample.value.sub
           b == sample.value.bytes
       IN  \A text \in Formatted(main, sub, b) :
              /\ \A again \in ParseText(main, sub, text) :
                    IF TextRefused(main, sub, b) THEN again = Err
                    ELSE again # Err /\ TextMeans(main, b, again)
              /\ Err \in Resolve(main, sub, text) => TextRefused(main, sub, b)

(* A number that a user writes, with or without a fraction and the unit, is
   taken when a value of the type is at most that and another at least that,
   and then as the one towards zero: never as one that wrapped around. *)
NumbersTaken ==
    About("number") =>
       \A main \in 5 .. 8, sub \in {1, 10} :
          LET n == sample.value
              bits == IF main \in {5, 6} THEN 8 ELSE 16
              least == IF main \in {6, 8} THEN -(2 ^ (bits - 1)) ELSE 0
              token == IF n % 10 = 0 THEN N(n \div 10) ELSE [tenths |-> n]
          IN  \A again \in ParseText(main, sub, FormatNumeric(token, main, sub)) :
                 IF n \in 10 * least .. 10 * (least + 2 ^ bits - 1)
                 THEN LET v == DecodeRef(main, again)
                          value == IF main \in {6, 8} THEN v.signed ELSE v.unsigned
                      IN  IF n >= 0 THEN n - 10 * value \in 0 .. 9 ELSE 10 * value - n \in 0 .. 9
                 ELSE again = Err

(* A user who types the other forms of a value that parse knows gets it. *)
SynonymsTaken ==
    About("synonym") =>
       LET v == sample.value
       IN  ParseText(v.main, 1, v.text) = {v.bytes}

(* Texts and values stand for each other, but for the exceptions named. *)
TextSound == TextsReadBack /\ NumbersTaken /\ SynonymsTaken
=============================================================================
