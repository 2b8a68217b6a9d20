------------------------------ MODULE DptText -------------------------------
(***************************************************************************)
(* Values as texts (protocol/dpt/view.rs): DptView::formatted writes one,  *)
(* DptType::parse reads it.  A text is a sequence of tokens: numbers, and  *)
(* words and punctuation.  The case of letters is left out, since formatted *)
(* writes what parse compares without case, or in the same case; so are    *)
(* blanks, but for the one between date and time.  Main 14 is left out.    *)
(***************************************************************************)
EXTENDS DptTyped, TLC

W(word) == [word |-> word]
N(n) == [int |-> n]
IsNumber(text, range) == Len(text) = 1 /\ "int" \in DOMAIN text[1] /\ text[1].int \in range

-----------------------------------------------------------------------------
(* bool_label: the words for true and for false of the types 1.xxx. *)
LabelTable ==
      1 :> <<"on", "off">> @@ 3 :> <<"enable", "disable">>
   @@ 4 :> <<"ramp", "no ramp">> @@ 5 :> <<"alarm", "no alarm">>
   @@ 6 :> <<"high", "low">> @@ 7 :> <<"increase", "decrease">>
   @@ 8 :> <<"down", "up">> @@ 9 :> <<"open", "closed">>
   @@ 10 :> <<"start", "stop">> @@ 11 :> <<"active", "inactive">>
   @@ 12 :> <<"inverted", "not inverted">> @@ 13 :> <<"cyclically", "start/stop">>
   @@ 14 :> <<"calculated", "fixed">> @@ 15 :> <<"reset", "no action">>
   @@ 16 :> <<"acknowledge", "no action">> @@ 17 :> <<"trigger", "trigger 0">>
   @@ 18 :> <<"occupied", "not occupied">> @@ 19 :> <<"open", "closed">>
   @@ 21 :> <<"and", "or">> @@ 22 :> <<"scene b", "scene a">>
   @@ 23 :> <<"step/stop mode", "up/down mode">> @@ 24 :> <<"night", "day">>
   @@ 100 :> <<"heat", "cool">> @@ 1200 :> <<"producer", "consumer">>
   @@ 1201 :> <<"negative", "positive">>
BoolLabel(value, sub) ==
    LET labels == IF sub \in DOMAIN LabelTable THEN LabelTable[sub] ELSE <<"true", "false">>
    IN  W(labels[IF value THEN 1 ELSE 2])

(* control2_underlying: both 2.008 and 2.009 are labelled like 1.008. *)
Control2Underlying(sub) == IF sub = 9 THEN 8 ELSE IF sub \in 1 .. 12 THEN sub ELSE 2

Modes(sub) ==
    IF sub = 102 THEN 0 :> "auto" @@ 1 :> "comfort" @@ 2 :> "standby" @@ 3 :> "economy"
                      @@ 4 :> "building protection"
    ELSE 0 :> "auto" @@ 1 :> "heat" @@ 2 :> "morning warmup" @@ 3 :> "cool"
         @@ 4 :> "night purge" @@ 5 :> "precool" @@ 6 :> "off" @@ 7 :> "test"
         @@ 8 :> "emergency heat" @@ 9 :> "fan only" @@ 10 :> "free cool" @@ 11 :> "ice"
         @@ 12 :> "maximum heating mode" @@ 13 :> "economic heat/cool mode"
         @@ 14 :> "dehumidification" @@ 15 :> "calibration mode"
         @@ 16 :> "emergency cool mode" @@ 17 :> "emergency steam mode" @@ 20 :> "no demand"

Weekdays == <<"monday", "tuesday", "wednesday", "thursday", "friday", "saturday", "sunday">>

(* DptType::unit: the types of the main numbers below that have none. *)
HasUnit(main, sub) ==
    <<main, sub>> \notin {<<5, 5>>, <<5, 6>>, <<5, 10>>, <<6, 10>>, <<7, 1>>, <<7, 10>>, <<8, 1>>,
                          <<9, 60000>>, <<12, 1>>, <<13, 1>>}

-----------------------------------------------------------------------------
(* DptView::formatted, a set of texts: a half of a tenth may go either way. *)
FormatNumeric(number, main, sub) == <<number>> \o IF HasUnit(main, sub) THEN <<W("unit")>> ELSE <<>>
FormatHundredths(h) ==
    IF h % 100 = 0 THEN {N(h \div 100)}
    ELSE {[tenths |-> t] : t \in {n \in {h \div 10, h \div 10 + 1} : 10 * n - h \in -5 .. 5}}
FormatEnum(value, sub) ==
    IF value \in DOMAIN Modes(sub) THEN <<W(Modes(sub)[value])>> ELSE <<W("hvac mode"), N(value)>>
WithWeekday(base, day) == IF day = 0 THEN base ELSE base \o <<W("("), W(Weekdays[day]), W(")")>>
DateText(v) == <<N(v.year), W("-"), N(v.month), W("-"), N(v.day)>>
TimeText(v) == <<N(v.hour), W(":"), N(v.minute), W(":"), N(v.second)>>
Milli(x) == [milli |-> Nearest(x * 1000, 65535)]

Formatted(main, sub, b) ==
    LET v == DecodeRef(main, b)
    IN  CASE main = 1 -> {<<BoolLabel(v.bool, sub)>>}
          [] main = 2 -> {<<W("control("), W(IF v.control THEN "true" ELSE "false"), W(","),
                            BoolLabel(v.value, Control2Underlying(sub)), W(")")>>}
          [] main = 3 -> {<<W("control("), W(IF v.step THEN "increase" ELSE "decrease"), W(","),
                            W("step="), N(v.step_code), W(")")>>}
          [] main \in {5, 7} -> {FormatNumeric(N(v.unsigned), main, sub)}
          [] main \in {6, 8} -> {FormatNumeric(N(v.signed), main, sub)}
          [] main = 9 -> {FormatNumeric(n, 9, sub) : n \in FormatHundredths(v.hundredths)}
          [] main \in {12, 13, 29} -> {FormatNumeric(v, main, sub)}
          [] main = 16 -> {v.text}
          [] main = 10 -> {WithWeekday(TimeText(v), v.day)}
          [] main = 11 -> {DateText(v)}
          [] main = 19 -> {WithWeekday(DateText(v) \o <<W(" ")>> \o TimeText(v), v.day_of_week)}
          [] main = 17 -> {<<W("scene"), N(v.scene)>>}
          [] main = 18 -> {<<W("scene"), N(v.scene), W("("),
                             W(IF v.learn THEN "learn" ELSE "activate"), W(")")>>}
          [] main = 20 -> {FormatEnum(v.enum, sub)}
          [] main = 232 -> {<<W("rgb("), N(v.r), W(","), N(v.g), W(","), N(v.b), W(")")>>}
          [] main = 251 -> {<<W("rgbw("), N(v.r), W(","), N(v.g), W(","), N(v.b), W(","), N(v.w),
                              W(")")>>}
          [] main = 242 -> {<<W("xyy("), Milli(v.x), W(","), Milli(v.y), W(","),
                              N(v.brightness), W(")")>>}

-----------------------------------------------------------------------------
(* The parsers give a payload, or Err. *)
ParseBool(text, sub) ==
    CASE text \in {<<BoolLabel(TRUE, sub)>>} -> TRUE
      [] text \in {<<BoolLabel(FALSE, sub)>>} -> FALSE
      [] OTHER -> CASE text \in {<<W("true")>>, <<N(1)>>, <<W("on")>>, <<W("yes")>>} -> TRUE
                    [] text \in {<<W("false")>>, <<N(0)>>, <<W("off")>>, <<W("no")>>} -> FALSE
                    [] OTHER -> Err

ParseControl3(text) ==
    CASE text \in {<<W("stop")>>, <<W("break")>>} -> [step |-> FALSE, step_code |-> 0]
      [] IsNumber(text, -7 .. 7) ->
           [step |-> text[1].int >= 0,
            step_code |-> IF text[1].int >= 0 THEN text[1].int ELSE -text[1].int]
      [] Len(text) = 2 ->
           IF text[1] \in {W("increase"), W("up"), W("decrease"), W("down")}
                /\ IsNumber(Tail(text), 0 .. 7)
           THEN [step |-> text[1] \in {W("increase"), W("up")}, step_code |-> text[2].int]
           ELSE Err
      [] OTHER -> Err

(* parse_number: the unit, when it is the type's own, is stripped.  In
   tenths; a number of 32 bits is left as it is. *)
IntRange(main) ==
    CASE main = 5 -> <<0, 255>>
      [] main = 6 -> <<-128, 127>>
      [] main = 7 -> <<0, 65535>>
      [] main = 8 -> <<-32768, 32767>>
WithUnit(text, main, sub) == text
WithoutUnit(text, main, sub) ==
    IF HasUnit(main, sub) /\ text # <<>> /\ text[Len(text)] = W("unit")
    THEN SubSeq(text, 1, Len(text) - 1) ELSE text
ParseNumber(text, main, sub) ==
    LET bare == WithoutUnit(text, main, sub)
    IN  CASE Len(bare) # 1 -> Err
          [] OTHER -> CASE "int" \in DOMAIN bare[1] -> [tenths |-> 10 * bare[1].int]
                        [] DOMAIN bare[1] \in {{"tenths"}, {"words"}} -> bare[1]
                        [] OTHER -> Err
TowardsZero(n, d) == IF n >= 0 THEN n \div d ELSE -((-n) \div d)
ParseInteger(text, main, sub) ==
    LET number == ParseNumber(text, main, sub)
        integer == TowardsZero(number.tenths, 10)
    IN  CASE number = Err -> Err
          [] main \in {12, 13} -> number
          [] OTHER -> IF \/ number.tenths < 10 * IntRange(main)[1]
                         \/ number.tenths > 10 * IntRange(main)[2] THEN Err
                      ELSE IF main \in {6, 8} THEN [signed |-> integer] ELSE [unsigned |-> integer]
ParseFloat(text, sub) ==
    LET number == ParseNumber(text, 9, sub)
    IN  IF number = Err THEN Err
        ELSE IF 10 * number.tenths \notin -67108864 .. 67076096 THEN Err
        ELSE [hundredths |-> 10 * number.tenths]

(* split_weekday_suffix, and the dates and times. *)
SplitWeekday(text) ==
    LET n == Len(text)
        day == CHOOSE d \in 1 .. 7 : n > 2 /\ text[n - 1] = W(Weekdays[d])
    IN  IF /\ n > 2 /\ text[n - 2] = W("(") /\ text[n] = W(")")
           /\ \E d \in 1 .. 7 : text[n - 1] = W(Weekdays[d])
        THEN [rest |-> SubSeq(text, 1, n - 3), day |-> day] ELSE [rest |-> text, day |-> 0]
Three(text, mark) ==
    /\ Len(text) = 5 /\ text[2] = W(mark) /\ text[4] = W(mark)
    /\ \A i \in {1, 3, 5} : "int" \in DOMAIN text[i]
ParseClock(text) ==
    IF ~Three(text, ":") \/ text[1].int > 23 \/ text[3].int > 59 \/ text[5].int > 59 THEN Err
    ELSE [hour |-> text[1].int, minute |-> text[3].int, second |-> text[5].int]
ParseTime(text) ==
    LET split == SplitWeekday(text)
        clock == ParseClock(split.rest)
    IN  IF clock = Err THEN Err ELSE clock @@ [day |-> split.day]
ParseDate(text) ==
    IF ~Three(text, "-") \/ text[3].int \notin 1 .. 12 \/ text[5].int \notin 1 .. 31 THEN Err
    ELSE [year |-> text[1].int, month |-> text[3].int, day |-> text[5].int]
ParseDateTime(text) ==
    LET split == SplitWeekday(text)
        date == ParseDate(SubSeq(split.rest, 1, 5))
        clock == ParseClock(SubSeq(split.rest, 7, Len(split.rest)))
    IN  CASE Len(split.rest) < 6 -> Err
          [] OTHER -> IF split.rest[6] # W(" ") \/ date = Err \/ clock = Err THEN Err
                      ELSE date @@ clock @@ [day_of_week |-> split.day]

ParseSceneNumber(text) ==
    LET digits == IF text # <<>> /\ text[1] = W("scene") THEN Tail(text) ELSE text
    IN  IF IsNumber(digits, 1 .. 64) THEN digits[1].int ELSE Err
ParseSceneControl(text) ==
    LET n == Len(text)
        bracketed == n > 2 /\ text[n] = W(")") /\ text[n - 2] = W("(")
        scene == ParseSceneNumber(IF bracketed THEN SubSeq(text, 1, n - 3) ELSE text)
    IN  IF scene = Err THEN Err
        ELSE [scene |-> scene, learn |-> bracketed /\ text[n - 1] = W("learn")]
ParseEnum(text, sub) ==
    CASE IsNumber(text, Byte) -> text[1].int
      [] \E n \in DOMAIN Modes(sub) : text = <<W(Modes(sub)[n])>> ->
           CHOOSE n \in DOMAIN Modes(sub) : text = <<W(Modes(sub)[n])>>
      [] OTHER -> Err

(* strip_wrapper, and the n channels of a colour: hexadecimal, in pairs of
   digits, or with commas between them. *)
StripWrapper(text, prefix) ==
    IF Len(text) > 1 /\ text[1] = W(prefix) /\ text[Len(text)] = W(")")
    THEN SubSeq(text, 2, Len(text) - 1) ELSE text
Parts(text, n) ==
    IF Len(text) = 2 * n - 1 /\ \A i \in 1 .. (n - 1) : text[2 * i] = W(",")
    THEN [i \in 1 .. n |-> text[2 * i - 1]] ELSE Err
ParseChannels(text, prefix, n) ==
    LET inner == StripWrapper(text, prefix)
        hex == inner # <<>> /\ inner[1] = W("#")
        parts == IF ~hex THEN Parts(inner, n)
                 ELSE IF Len(inner) <= n THEN Err ELSE SubSeq(inner, 2, n + 1)
    IN  IF parts = Err THEN Err
        ELSE IF \E i \in 1 .. n : ~IsNumber(<<parts[i]>>, Byte) THEN Err
        ELSE [i \in 1 .. n |-> parts[i].int]
ParseRgb(text) ==
    LET c == ParseChannels(text, "rgb(", 3)
    IN  IF c = Err THEN Err ELSE [r |-> c[1], g |-> c[2], b |-> c[3]]
ParseRgbw(text) ==
    LET c == ParseChannels(text, "rgbw(", 4)
    IN  IF c = Err THEN Err ELSE [r |-> c[1], g |-> c[2], b |-> c[3], w |-> c[4]]

(* The cast of encode drops what x * 65535.0 has behind the point. *)
ParseXyy(text) ==
    LET parts == Parts(StripWrapper(text, "xyy("), 3)
        Coordinate(token) == IF "milli" \in DOMAIN token THEN (token.milli * 65535) \div 1000 ELSE Err
    IN  IF parts = Err THEN Err
        ELSE IF Coordinate(parts[1]) = Err \/ Coordinate(parts[2]) = Err
                \/ ~IsNumber(<<parts[3]>>, Byte) THEN Err
        ELSE [x |-> Coordinate(parts[1]), y |-> Coordinate(parts[2]), brightness |-> parts[3].int]

(* Blanks at the ends of a text are trimmed; a string is at most 14 bytes. *)
Blank == 32
Trimmed(chars) ==
    LET ink == {i \in DOMAIN chars : chars[i] # Blank}
    IN  IF ink = {} THEN <<>>
        ELSE SubSeq(chars, CHOOSE i \in ink : \A j \in ink : i <= j,
                           CHOOSE i \in ink : \A j \in ink : j <= i)
Field1(name, value) == IF value = Err THEN Err ELSE (name :> value)
ParsePayload(main, sub, text) ==
    CASE main = 1 -> Field1("bool", ParseBool(text, sub))
      [] main = 2 -> LET value == ParseBool(text, Control2Underlying(sub))
                     IN  IF value = Err THEN Err ELSE [control |-> TRUE, value |-> value]
      [] main = 3 -> ParseControl3(text)
      [] main \in {5, 6, 7, 8, 12, 13} -> ParseInteger(text, main, sub)
      [] main = 9 -> ParseFloat(text, sub)
      [] main = 29 -> IF Len(text) # 1 THEN Err ELSE text[1]
      [] main = 10 -> ParseTime(text)
      [] main = 11 -> ParseDate(text)
      [] main = 19 -> ParseDateTime(text)
      [] main = 16 -> LET chars == Trimmed(text)
                          bytes[n \in 0 .. Len(chars)] ==
                            IF n = 0 THEN 0 ELSE bytes[n - 1] + Len(Utf8(chars[n]))
                      IN  IF bytes[Len(chars)] > 14 THEN Err ELSE [text |-> chars]
      [] main = 17 -> Field1("scene", ParseSceneNumber(text))
      [] main = 18 -> ParseSceneControl(text)
      [] main = 20 -> Field1("enum", ParseEnum(text, sub))
      [] main = 232 -> ParseRgb(text)
      [] main = 242 -> ParseXyy(text)
      [] main = 251 -> ParseRgbw(text)

(* DptType::parse, a set of results: see Casts for main 9. *)
ParseText(main, sub, text) ==
    LET payload == ParsePayload(main, sub, text)
    IN  IF payload = Err THEN {Err}
        ELSE IF main = 9 THEN {EncodeHundredths(c) : c \in Casts(payload.hundredths)}
        ELSE {EncodeDpt(main, payload)}

(* The value that a typed handle makes of a text: parse, then decode. *)
Resolve(main, sub, text) ==
    {IF bytes = Err THEN Err ELSE TypedDecode(main, sub, bytes) : bytes \in ParseText(main, sub, text)}
=============================================================================
