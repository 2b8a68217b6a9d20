------------------------------ MODULE DptCodec ------------------------------
(***************************************************************************)
(* Conversions between values and bytes (protocol/dpt).  Most datapoint    *)
(* types have two codecs: the runtime one, DptType::encode and decode_ref, *)
(* and the typed one of the module of their main number.                   *)
(***************************************************************************)
EXTENDS Bytes

(* DptType::byte_length. *)
ByteLength(main) ==
    CASE main \in {1, 2, 3, 5, 6, 17, 18, 20} -> 1
      [] main \in {7, 8, 9} -> 2
      [] main \in {10, 11, 232} -> 3
      [] main \in {12, 13, 14} -> 4
      [] main \in {235, 242, 251} -> 6
      [] main \in {19, 29} -> 8
      [] main = 16 -> 14

(* v as i8, v as i16 of a number with n bits. *)
Signed(v, n) == IF v >= 2 ^ (n - 1) THEN v - 2 ^ n ELSE v

-----------------------------------------------------------------------------
(* What the views of DptType::decode_ref show: bits; *)
DecodedBits(main, b) ==
    CASE main = 1 -> [bool |-> Set(b[1], 0)]
      [] main = 2 -> [control |-> Set(b[1], 1), value |-> Set(b[1], 0)]
      [] main = 3 -> [step |-> Set(b[1], 3), step_code |-> Low(b[1], 3)]

(* numbers: a 2-byte float is counted in hundredths, and a number of more
   than 16 bits, or a 4-byte float, is the sequence of its 16-bit words; *)
HundredthsAt(b) ==
    LET raw == WordAt(b, 1)
        m == Low(raw, 11) - IF Set(raw, 15) THEN 2048 ELSE 0
    IN  m * 2 ^ Field(raw, 11, 4)
WordsAt(b) == [i \in 1 .. Len(b) \div 2 |-> WordAt(b, 2 * i - 1)]
DecodedNumber(main, b) ==
    CASE main = 5 -> [unsigned |-> b[1]]
      [] main = 6 -> [signed |-> Signed(b[1], 8)]
      [] main = 7 -> [unsigned |-> WordAt(b, 1)]
      [] main = 8 -> [signed |-> Signed(WordAt(b, 1), 16)]
      [] main = 9 -> [hundredths |-> HundredthsAt(b)]
      [] main \in {12, 13, 14, 29} -> [words |-> WordsAt(b)]

(* texts: StrView stops at the first zero byte, and is empty when what comes
   before it is not UTF-8.  Characters are code points below 2048, which
   take one byte or two; *)
Utf8(c) == IF c < 128 THEN <<c>> ELSE <<192 + c \div 64, 128 + (c % 64)>>
Utf8Chars(b) ==
    LET Then(c, rest) == IF rest = Err THEN Err ELSE <<c>> \o rest
        chars[i \in 1 .. Len(b) + 2] ==
          IF i > Len(b) THEN IF i = Len(b) + 1 THEN <<>> ELSE Err
          ELSE IF b[i] < 128 THEN Then(b[i], chars[i + 1])
          ELSE IF b[i] \in 194 .. 223 /\ i < Len(b)
               THEN IF b[i + 1] \in 128 .. 191
                    THEN Then(64 * (b[i] - 192) + b[i + 1] - 128, chars[i + 2]) ELSE Err
          ELSE Err
    IN  chars[1]
DecodedText(b) ==
    LET end == CHOOSE n \in 0 .. Len(b) : /\ n < Len(b) => b[n + 1] = 0
                                          /\ \A i \in 1 .. n : b[i] # 0
        chars == Utf8Chars(SubSeq(b, 1, end))
    IN  [text |-> IF chars = Err THEN <<>> ELSE chars]

(* dates and times; *)
YearAt(y) == IF y >= 90 THEN 1900 + y ELSE 2000 + y
DecodedTime(main, b) ==
    CASE main = 10 -> [day |-> Field(b[1], 5, 3), hour |-> Low(b[1], 5),
                       minute |-> Low(b[2], 6), second |-> Low(b[3], 6)]
      [] main = 11 -> [day |-> Low(b[1], 5), month |-> Low(b[2], 4),
                       year |-> YearAt(Low(b[3], 7))]
      [] main = 19 -> [year |-> 1900 + b[1], month |-> Low(b[2], 4), day |-> Low(b[3], 5),
                       day_of_week |-> Field(b[4], 5, 3), hour |-> Low(b[4], 5),
                       minute |-> Low(b[5], 6), second |-> Low(b[6], 6)]

(* scenes and modes; *)
DecodedScene(main, b) ==
    CASE main \in {17, 18} -> [scene |-> Low(b[1], 6) + 1, learn |-> Set(b[1], 7)]
      [] main = 20 -> [enum |-> b[1]]

(* colours, of which x and y stand for x / 65535 and y / 65535. *)
DecodedColour(main, b) ==
    CASE main = 232 -> [r |-> b[1], g |-> b[2], b |-> b[3]]
      [] main = 242 -> [x |-> WordAt(b, 1), y |-> WordAt(b, 3), brightness |-> b[5]]
      [] main = 251 -> [r |-> b[1], g |-> b[2], b |-> b[3], w |-> b[4]]

(* Main 235 wants 6 bytes and then 8. *)
DecodeRef(main, bytes) ==
    CASE Len(bytes) # ByteLength(main) -> Err
      [] OTHER -> CASE main \in {1, 2, 3} -> DecodedBits(main, bytes)
                    [] main \in {5, 6, 7, 8, 9, 12, 13, 14, 29} -> DecodedNumber(main, bytes)
                    [] main = 16 -> DecodedText(bytes)
                    [] main \in {10, 11, 19} -> DecodedTime(main, bytes)
                    [] main \in {17, 18, 20} -> DecodedScene(main, bytes)
                    [] main \in {232, 242, 251} -> DecodedColour(main, bytes)
                    [] main = 235 -> Err

(* DptPayload::from of a view: that of a scene loses its learn flag. *)
PayloadOf(main, view) == IF main \in {17, 18} THEN [scene |-> view.scene] ELSE view

-----------------------------------------------------------------------------
(* The 2-byte float of DptType::encode.  A value v has h hundredths; since
   v * 100.0 may fall short of h, the cast that drops the fraction gives h
   or its neighbour towards zero.  Halved(m) is the mantissa and the
   exponent the loop ends with. *)
Casts(h) == {h, IF h > 0 THEN h - 1 ELSE IF h < 0 THEN h + 1 ELSE 0}
Halved(m) ==
    LET e == CHOOSE n \in 0 .. 20 :
               /\ m \div 2 ^ n \in -2047 .. 2047
               /\ \A k \in 0 .. (n - 1) : m \div 2 ^ k \notin -2047 .. 2047
    IN  [mantissa |-> m \div 2 ^ e, exponent |-> e]
EncodeHundredths(cast) ==
    LET f == Halved(cast)
    IN  Be16(Bit(f.mantissa < 0, 15) + 2 ^ 11 * Low(f.exponent, 4) + (f.mantissa % 2 ^ 11))

(* DptType::encode of the other types.  Halves of a word are cast from what
   fits; x * 65535.0 is the x that was divided, since f32 has 24 bits.  A
   payload of another shape is an error; the one that occurs is the Scene
   that a view of main 18 becomes. *)
EncodeWords(words) ==
    LET bytes[n \in 0 .. Len(words)] == IF n = 0 THEN <<>> ELSE bytes[n - 1] \o Be16(words[n])
    IN  bytes[Len(words)]
EncodeText(chars) ==
    LET bytes[n \in 0 .. Len(chars)] == IF n = 0 THEN <<>> ELSE bytes[n - 1] \o Utf8(chars[n])
        all == bytes[Len(chars)]
    IN  [i \in 1 .. 14 |-> IF i <= Len(all) THEN all[i] ELSE 0]
EncodeDate(p) ==
    IF p.year \notin 1990 .. 2089 THEN Err
    ELSE <<Low(p.day, 5), Low(p.month, 4),
           Low(IF p.year >= 2000 THEN p.year - 2000 ELSE p.year - 1900, 7)>>
EncodeDpt(main, p) ==
    CASE main = 1 -> <<Bit(p.bool, 0)>>
      [] main = 2 -> <<Bit(p.control, 1) + Bit(p.value, 0)>>
      [] main = 3 -> <<Bit(p.step, 3) + Low(p.step_code, 3)>>
      [] main = 5 -> <<Low(p.unsigned, 8)>>
      [] main = 6 -> <<Low(p.signed, 8)>>
      [] main = 7 -> Be16(p.unsigned)
      [] main = 8 -> Be16(p.signed)
      [] main = 10 -> <<Low(p.day * 2 ^ 5, 8) + Low(p.hour, 5), Low(p.minute, 6), Low(p.second, 6)>>
      [] main = 11 -> EncodeDate(p)
      [] main \in {12, 13, 14, 29} -> EncodeWords(p.words)
      [] main = 16 -> EncodeText(p.text)
      [] main = 17 -> <<Low(IF p.scene = 0 THEN 0 ELSE p.scene - 1, 6)>>
      [] main = 18 -> IF "learn" \notin DOMAIN p THEN Err
                      ELSE <<Bit(p.learn, 7) + Low(IF p.scene = 0 THEN 0 ELSE p.scene - 1, 6)>>
      [] main = 19 -> IF p.year \notin 1900 .. 2155 THEN Err
                      ELSE <<p.year - 1900, Low(p.month, 4), Low(p.day, 5),
                             Low(p.day_of_week, 3) * 2 ^ 5 + Low(p.hour, 5),
                             Low(p.minute, 6), Low(p.second, 6), 0, 0>>
      [] main = 20 -> <<p.enum>>
      [] main = 232 -> <<p.r, p.g, p.b>>
      [] main = 242 -> Be16(p.x) \o Be16(p.y) \o <<p.brightness, 3>>
      [] main = 251 -> <<p.r, p.g, p.b, p.w, 0, 15>>

-----------------------------------------------------------------------------
(* The typed codecs: new, with its validation, and the bytes it keeps. *)
NewTime(v) ==
    IF v.day > 7 \/ v.hour > 23 \/ v.minute > 59 \/ v.second > 59 THEN Err
    ELSE <<v.day * 2 ^ 5 + v.hour, v.minute, v.second>>
NewDate(v) ==
    IF v.day \notin 1 .. 31 \/ v.month \notin 1 .. 12 \/ v.year > 99 THEN Err
    ELSE <<v.day, v.month, v.year>>
NewScene(n) == IF n \notin 1 .. 64 THEN Err ELSE <<n - 1>>
NewSceneControl(n, learn) == IF n \notin 1 .. 64 THEN Err ELSE <<n - 1 + Bit(learn, 7)>>

(* DateTime::validate, encode_data and decode; the flags are the set of
   those that are raised, in the order of their bits. *)
DateTimeFlags == <<"suti", "no_time", "no_dow", "no_date", "no_year", "no_wd",
                   "working_day", "fault", "source_reliable", "external_sync">>
FlagByte(flags, first, last, shift) ==
    LET sum[i \in (first - 1) .. last] ==
          IF i < first THEN 0
          ELSE sum[i - 1] + Bit(DateTimeFlags[i] \in flags, i - first + shift)
    IN  sum[last]
ValidDateTime(v) ==
    /\ "no_date" \in v.flags \/ (v.month \in 1 .. 12 /\ v.day \in 1 .. 31)
    /\ "no_dow" \in v.flags \/ v.day_of_week <= 7
    /\ \/ "no_time" \in v.flags
       \/ /\ v.hour <= 24 /\ v.minute <= 59 /\ v.second <= 59
          /\ v.hour = 24 => v.minute = 0 /\ v.second = 0
EncodeDateTimePlain(v) ==
    <<v.year, v.month, v.day, Low(v.day_of_week * 2 ^ 5, 8) + v.hour, v.minute, v.second,
      FlagByte(v.flags, 1, 8, 0), FlagByte(v.flags, 9, 10, 6)>>
EncodeDateTime(v) ==
    LET Unless(flag, field) == IF flag \in v.flags THEN 0 ELSE field
    IN  <<Unless("no_year", v.year), Unless("no_date", v.month), Unless("no_date", v.day),
          Unless("no_dow", v.day_of_week) * 2 ^ 5 + Unless("no_time", v.hour),
          Unless("no_time", v.minute), Unless("no_time", v.second),
          FlagByte(v.flags, 1, 8, 0), FlagByte(v.flags, 9, 10, 6)>>
NewDateTime(v) == IF ValidDateTime(v) THEN EncodeDateTime(v) ELSE Err
DecodeDateTime(b) ==
    LET v == [year |-> b[1], month |-> Low(b[2], 4), day |-> Low(b[3], 5),
              day_of_week |-> Field(b[4], 5, 3), hour |-> Low(b[4], 5),
              minute |-> Low(b[5], 6), second |-> Low(b[6], 6),
              flags |-> {DateTimeFlags[i] : i \in {j \in 1 .. 8 : Set(b[7], j - 1)}}
                        \cup {DateTimeFlags[i] : i \in {j \in 9 .. 10 : Set(b[8], j - 3)}}]
    IN  IF Len(b) = 8 /\ ValidDateTime(v) THEN v ELSE Err

-----------------------------------------------------------------------------
(* The 2-byte float of dpt9.rs, with the roundings of f32: a positive f32 is
   significand * 2^(-scale), its significand having 24 bits.  Div100(k) is
   the f32 nearest to k / 100, and Times100 of it the f32 nearest to its
   hundredfold. *)
Nearest(n, d) ==
    LET q == n \div d
        r == n % d
    IN  IF 2 * r > d \/ (2 * r = d /\ q % 2 = 1) THEN q + 1 ELSE q
Div100(k) ==
    LET scale == CHOOSE s \in 0 .. 30 :
                   2 ^ s <= 1677721599 \div k /\ k * 2 ^ s >= 838860800
    IN  [significand |-> Nearest(k * 2 ^ scale, 100), scale |-> scale]
Times100(f) ==
    LET n == f.significand * 100
        t == IF n < 2 ^ 30 THEN 6 ELSE 7
    IN  [significand |-> Nearest(n, 2 ^ t), scale |-> f.scale - t]

(* f as a quotient, rounded down, up, and to the nearest (half away). *)
Num(f) == IF f.scale < 0 THEN f.significand * 2 ^ (-f.scale) ELSE f.significand
Den(f) == IF f.scale < 0 THEN 1 ELSE 2 ^ f.scale
Ceil(f) == (Num(f) + Den(f) - 1) \div Den(f)
Round(f) == (Num(f) + Den(f) \div 2) \div Den(f)

(* encode_2byte_float_to_bytes of -v or v, the f32 v being positive. *)
Half(f, n) == [f EXCEPT !.scale = @ + n]
EncodeFloat(negative, v) ==
    LET knx_value == Times100(v)
        Fits(n) == Ceil(Half(knx_value, n)) <= IF negative THEN 2048 ELSE 2047
        exponent == IF \E n \in 0 .. 15 : Fits(n)
                    THEN CHOOSE n \in 0 .. 15 : Fits(n) /\ \A k \in 0 .. (n - 1) : ~Fits(k)
                    ELSE 15
        mantissa == (IF negative THEN -1 ELSE 1) * Round(Half(knx_value, exponent))
    IN  IF Round(knx_value) = 0 THEN <<0, 0>>
        ELSE IF ~Fits(exponent) THEN Err
        ELSE Be16(Bit(mantissa < 0, 15) + 2 ^ 11 * exponent + (mantissa % 2 ^ 11))
=============================================================================
