------------------------------ MODULE DptTyped ------------------------------
(***************************************************************************)
(* The typed codecs of the main numbers DptCodec leaves out (dpt1.rs to    *)
(* dpt251.rs).  A typed value is what its accessors say, in the shape of   *)
(* the payload that the runtime codec has for it, and the data it keeps,   *)
(* which as_bytes returns.                                                 *)
(***************************************************************************)
EXTENDS DptCodec

Typed(value, data) == [value |-> value, data |-> data]

(* The length check that every decode begins with. *)
OfLength(n, b, result) == IF Len(b) # n THEN Err ELSE result

-----------------------------------------------------------------------------
(* One and two bits: a byte with others is refused. *)
NewSwitch(v) == Typed(v, <<Bit(v.bool, 0)>>)
SwitchFromBytes(b) ==
    OfLength(1, b, IF b[1] > 1 THEN Err ELSE Typed([bool |-> Set(b[1], 0)], b))

NewBinaryControl(v) == Typed(v, <<Bit(v.control, 1) + Bit(v.value, 0)>>)
BinaryControlFromBytes(b) ==
    OfLength(1, b, IF b[1] > 3 THEN Err
                   ELSE Typed([control |-> Set(b[1], 1), value |-> Set(b[1], 0)], b))

(* Four bits; the upper ones of the byte are kept, and not looked at. *)
NewControlDimming(v) ==
    IF v.step_code > 7 THEN Err ELSE Typed(v, <<Bit(v.step, 3) + v.step_code>>)
ControlDimmingFromBytes(b) ==
    OfLength(1, b, Typed([step |-> Set(b[1], 3), step_code |-> Low(b[1], 3)], b))

-----------------------------------------------------------------------------
(* Numbers that are kept as they come.  One of more than 16 bits is the
   sequence of its 16-bit words. *)
NewScaling(v) == Typed(v, <<v.unsigned>>)
ScalingFromBytes(b) == OfLength(1, b, Typed([unsigned |-> b[1]], b))

NewPercentV8(v) == Typed(v, <<Low(v.signed, 8)>>)
PercentV8FromBytes(b) == OfLength(1, b, Typed([signed |-> Signed(b[1], 8)], b))

NewValue2ByteUnsigned(v) == Typed(v, Be16(v.unsigned))
Value2ByteUnsignedFromBytes(b) == OfLength(2, b, Typed([unsigned |-> WordAt(b, 1)], b))

NewValue2ByteSigned(v) == Typed(v, Be16(v.signed))
Value2ByteSignedFromBytes(b) ==
    OfLength(2, b, Typed([signed |-> Signed(WordAt(b, 1), 16)], b))

NewValue4Byte(v) == Typed(v, EncodeWords(v.words))
Value4ByteUnsignedFromBytes(b) == OfLength(4, b, Typed([words |-> WordsAt(b)], b))
Value4ByteSignedFromBytes(b) == OfLength(4, b, Typed([words |-> WordsAt(b)], b))

NewActiveEnergy8Byte(v) == Typed(v, EncodeWords(v.words))
ActiveEnergy8ByteFromBytes(b) ==
    OfLength(8, b, NewActiveEnergy8Byte([words |-> WordsAt(b)]))

(* 8.010 counts hundredths of a percent.  The quotient by 0.01 may fall
   short of the number it stands for. *)
NewPercentV16(hundredths) ==
    {IF raw \in -32768 .. 32767 THEN Typed([signed |-> raw], Be16(raw)) ELSE Err :
       raw \in Casts(hundredths)}

(* A 4-byte float: finite unless all the bits of its exponent are set. *)
Finite(words) == Field(words[1], 7, 8) # 255
NewFloat(v) == IF Finite(v.words) THEN NewValue4Byte(v) ELSE Err
Dpt14FloatFromBytes(b) == OfLength(4, b, Typed([words |-> WordsAt(b)], b))

-----------------------------------------------------------------------------
(* Texts: a character is its code point. *)
Question == 63
Replacement == 65533
Padded(chars) == [i \in 1 .. 14 |-> IF i <= Len(chars) THEN chars[i] ELSE 0]
NewString(chars, last) ==
    IF Len(chars) > 14 THEN Err
    ELSE Typed([text |-> chars],
               Padded([i \in DOMAIN chars |->
                         IF chars[i] <= last THEN chars[i] ELSE Question]))
NewStringAscii(chars) == NewString(chars, 127)
NewStringLatin1(chars) == NewString(chars, 255)

(* decode drops the zero bytes wherever they are. *)
NonZero(b) == SelectSeq(b, LAMBDA x : x # 0)
StringAsciiFromBytes(b) ==
    LET kept == NonZero(b)
    IN  OfLength(14, b, Typed([text |-> [i \in DOMAIN kept |->
                                 IF kept[i] < 128 THEN kept[i] ELSE Replacement]], b))
StringLatin1FromBytes(b) == OfLength(14, b, Typed([text |-> NonZero(b)], b))

-----------------------------------------------------------------------------
(* Scenes and modes: what is out of range is refused by new. *)
SceneNumberFromBytes(b) ==
    OfLength(1, b, Typed([scene |-> Low(b[1], 6) + 1], <<Low(b[1], 6)>>))
SceneControlFromBytes(b) ==
    OfLength(1, b, Typed([scene |-> Low(b[1], 6) + 1, learn |-> Set(b[1], 7)], b))

NewHVACMode(n) == IF n > 4 THEN Err ELSE Typed([enum |-> n], <<n>>)
HVACModeFromBytes(b) == OfLength(1, b, NewHVACMode(b[1]))
NewHVACControllerMode(n) == IF n > 17 /\ n # 20 THEN Err ELSE Typed([enum |-> n], <<n>>)
HVACControllerModeFromBytes(b) == OfLength(1, b, NewHVACControllerMode(b[1]))

-----------------------------------------------------------------------------
(* Colours and energies with flags for the fields that are valid.  A field
   that is not is written as zero; tariffs have the flag the other way. *)
NewColorRGB(v) == Typed(v, <<v.r, v.g, v.b>>)
ColorRGBFromBytes(b) == OfLength(3, b, NewColorRGB([r |-> b[1], g |-> b[2], b |-> b[3]]))

If(valid, n) == IF valid THEN n ELSE 0
NewTariff(v, energyValid, tariffValid) ==
    Typed(v, Be16(If(energyValid, v.words[1])) \o Be16(If(energyValid, v.words[2]))
               \o <<If(tariffValid, v.tariff), Bit(~energyValid, 1) + Bit(~tariffValid, 0)>>)
TariffFromBytes(b) ==
    OfLength(6, b, NewTariff([words |-> <<WordAt(b, 1), WordAt(b, 3)>>, tariff |-> b[5]],
                             ~Set(b[6], 1), ~Set(b[6], 0)))

NewColorXYY(v, colorValid, brightnessValid) ==
    Typed(v, Be16(If(colorValid, v.x)) \o Be16(If(colorValid, v.y))
               \o <<If(brightnessValid, v.brightness),
                    Bit(colorValid, 1) + Bit(brightnessValid, 0)>>)
ColorXYYFromBytes(b) ==
    OfLength(6, b, NewColorXYY([x |-> WordAt(b, 1), y |-> WordAt(b, 3), brightness |-> b[5]],
                               Set(b[6], 1), Set(b[6], 0)))

NewColorRGBW(v, valid) ==
    Typed(v, <<If("r" \in valid, v.r), If("g" \in valid, v.g), If("b" \in valid, v.b),
               If("w" \in valid, v.w), 0,
               Bit("r" \in valid, 3) + Bit("g" \in valid, 2) + Bit("b" \in valid, 1)
                 + Bit("w" \in valid, 0)>>)
ColorRGBWFromBytes(b) ==
    OfLength(6, b, NewColorRGBW([r |-> b[1], g |-> b[2], b |-> b[3], w |-> b[4]],
                                {<<"w", "b", "g", "r">>[i + 1] : i \in {j \in 0 .. 3 : Set(b[6], j)}}))

-----------------------------------------------------------------------------
(* A 2-byte float is kept as it comes; dates and times are made anew, and
   their years are kept without the century. *)
TemperatureFromBytes(b) == OfLength(2, b, Typed([hundredths |-> HundredthsAt(b)], b))
TimeOfDayFromBytes(b) ==
    LET v == DecodedTime(10, b)
    IN  OfLength(3, b, IF NewTime(v) = Err THEN Err ELSE Typed(v, NewTime(v)))
DateFromBytes(b) ==
    LET v == [day |-> Low(b[1], 5), month |-> Low(b[2], 4), year |-> Low(b[3], 7)]
    IN  OfLength(3, b, IF NewDate(v) = Err THEN Err ELSE Typed(v, NewDate(v)))
DateTimeFromBytes(b) ==
    LET v == DecodeDateTime(b)
    IN  IF v = Err THEN Err ELSE Typed(v, EncodeDateTime(v))

-----------------------------------------------------------------------------
(* The decoder that DptRegistry has registered for a type. *)
TypedDecode(main, sub, b) ==
    CASE main = 1 -> SwitchFromBytes(b)
      [] main = 2 -> BinaryControlFromBytes(b)
      [] main = 3 -> ControlDimmingFromBytes(b)
      [] main = 5 -> ScalingFromBytes(b)
      [] main = 6 -> PercentV8FromBytes(b)
      [] main = 7 -> Value2ByteUnsignedFromBytes(b)
      [] main = 8 -> Value2ByteSignedFromBytes(b)
      [] main = 9 -> TemperatureFromBytes(b)
      [] main = 10 -> TimeOfDayFromBytes(b)
      [] main = 11 -> DateFromBytes(b)
      [] main = 12 -> Value4ByteUnsignedFromBytes(b)
      [] main = 13 -> Value4ByteSignedFromBytes(b)
      [] main = 14 -> Dpt14FloatFromBytes(b)
      [] main = 16 -> IF sub = 0 THEN StringAsciiFromBytes(b) ELSE StringLatin1FromBytes(b)
      [] main = 17 -> SceneNumberFromBytes(b)
      [] main = 18 -> SceneControlFromBytes(b)
      [] main = 19 -> DateTimeFromBytes(b)
      [] main = 20 -> IF sub = 102 THEN HVACModeFromBytes(b) ELSE HVACControllerModeFromBytes(b)
      [] main = 29 -> ActiveEnergy8ByteFromBytes(b)
      [] main = 232 -> ColorRGBFromBytes(b)
      [] main = 235 -> TariffFromBytes(b)
      [] main = 242 -> ColorXYYFromBytes(b)
      [] main = 251 -> ColorRGBWFromBytes(b)
=============================================================================
