----------------------------- MODULE PixelFormats -----------------------------
(***************************************************************************)
(* The software picture layouts of frame_processor.c: which chromas it      *)
(* knows, how a sample is stored in each, and where a pixel's samples are.  *)
(*                                                                         *)
(* A chroma is <<name, bits per sample, byte order>>.  A plane is a grid of *)
(* units, a unit being the tuple of bytes that one step of pixel_stride     *)
(* covers; w and h are its visible part and one further row and column      *)
(* stand for the padding that the pitch adds.  Cells are <<row, column>>.   *)
(***************************************************************************)
EXTENDS Integers, Sequences

Name(c) == c[1]
Bits(c) == c[2]
LittleEndian(c) == c[3] = "L"

Planar8   == {"I420", "J420", "YV12", "I422", "I444", "YUVA"} \X {8} \X {"-"}
Planar16  == ({"I420", "I444"} \X {9, 10, 12, 16} \X {"L", "B"})
               \cup ({"I422"} \X {9, 10, 12} \X {"L", "B"})
               \cup ({"YUVA"} \X {10} \X {"L", "B"})
Semi8     == {"NV12", "NV21"} \X {8} \X {"-"}
P010      == <<"P010", 10, "L">>
Packed    == {"RGB24", "RGB32", "RGBA", "BGRA", "ARGB"} \X {8} \X {"-"}
Packable  == Planar8 \cup Planar16 \cup Semi8 \cup {P010} \cup Packed

\* Any other software chroma a decoder may hand over, GREY or I440 for one.
OtherChroma == <<"other", 8, "-">>

Planar(c) == c \in Planar8 \cup Planar16
SemiPlanar(c) == c \in Semi8 \cup {P010}
Wide(c) == c \in Planar16 \cup {P010}
HasAlphaPlane(c) == Name(c) = "YUVA"
SwapUV(c) == Name(c) \in {"YV12", "NV21"}
StepX(c) == IF Name(c) \in {"I444", "YUVA"} THEN 0 ELSE 1
StepY(c) == IF Name(c) \in {"I444", "YUVA", "I422"} THEN 0 ELSE 1
StorageShift(c) == IF c = P010 THEN 6 ELSE 0
PixelSize(c) == IF Name(c) = "RGB24" THEN 3 ELSE 4

\* The places of red, green and blue in a packed unit, counted from 1.
RGBOffsets(c) == CASE Name(c) = "RGBA" -> <<1, 2, 3>>
                   [] Name(c) = "ARGB" -> <<2, 3, 4>>
                   [] OTHER -> <<3, 2, 1>>

-----------------------------------------------------------------------------
(* Samples.                                                                 *)

Minimum(a, b) == IF a < b THEN a ELSE b
Maximum(a, b) == IF a > b THEN a ELSE b
Clamp(v, low, high) == Maximum(low, Minimum(v, high))
ClampByte(v) == Clamp(v, 0, 255)

\* 1u << n.
PowerOfTwo(n) == <<1, 2, 4, 8, 16, 32, 64, 128, 256, 512, 1024, 2048, 4096, 8192, 16384, 32768,
                   65536>>[n + 1]

SampleMask(bits) == PowerOfTwo(bits) - 1
NeutralChromaSample(bits) == PowerOfTwo(bits - 1)

\* The unit of one 16-bit word, and the word that starts at byte k of a unit.
Word16(v, c) == IF LittleEndian(c) THEN <<v % 256, v \div 256>>
                ELSE <<v \div 256, v % 256>>
ReadWord16(unit, k, c) == IF LittleEndian(c) THEN unit[k] + 256 * unit[k + 1]
                          ELSE 256 * unit[k] + unit[k + 1]

EncodeSample16(sample, c) == (sample % PowerOfTwo(Bits(c))) * PowerOfTwo(StorageShift(c))
DecodeSample16(unit, k, c) ==
  (ReadWord16(unit, k, c) \div PowerOfTwo(StorageShift(c))) % PowerOfTwo(Bits(c))

ScaleSampleToByte(sample, bits) ==
  (sample * 255 + SampleMask(bits) \div 2) \div SampleMask(bits)

\* The n-th sample of a unit as a byte, and a unit that stores given samples.
SampleByte(unit, n, c) ==
  IF Wide(c) THEN ScaleSampleToByte(DecodeSample16(unit, 2 * n - 1, c), Bits(c))
  ELSE unit[n]
OneSample(s, c) == IF Wide(c) THEN Word16(EncodeSample16(s, c), c) ELSE <<s>>

YCbCrToRGB(yuv) ==
  LET c == yuv[1] - 16
      d == yuv[2] - 128
      e == yuv[3] - 128
  IN  <<ClampByte((298 * c + 409 * e + 128) \div 256),
        ClampByte((298 * c - 100 * d - 208 * e + 128) \div 256),
        ClampByte((298 * c + 516 * d + 128) \div 256)>>

RgbToYuv(rgb) ==
  <<ClampByte((77 * rgb[1] + 150 * rgb[2] + 29 * rgb[3]) \div 256),
    ClampByte(128 + (128 * rgb[3] - 43 * rgb[1] - 85 * rgb[2]) \div 256),
    ClampByte(128 + (128 * rgb[1] - 107 * rgb[2] - 21 * rgb[3]) \div 256)>>

-----------------------------------------------------------------------------
(* Planes and pixels.                                                       *)

Y_PLANE == 1
U_PLANE == 2
V_PLANE == 3
A_PLANE == 4

\* What VLC allocates: the planes of a chroma, their visible size in units.
\* An odd width or height leaves a last chroma column or row, rounded up.
Planes(c) == CASE c \in Packed -> {Y_PLANE}
               [] SemiPlanar(c) -> {Y_PLANE, U_PLANE}
               [] HasAlphaPlane(c) -> {Y_PLANE, U_PLANE, V_PLANE, A_PLANE}
               [] OTHER -> {Y_PLANE, U_PLANE, V_PLANE}
RoundedUp(n, step) == (n + PowerOfTwo(step) - 1) \div PowerOfTwo(step)
PlaneWidth(c, p, w)  == IF p \in {U_PLANE, V_PLANE} THEN RoundedUp(w, StepX(c)) ELSE w
PlaneHeight(c, p, h) == IF p \in {U_PLANE, V_PLANE} THEN RoundedUp(h, StepY(c)) ELSE h

VisibleCells(plane) == (0 .. plane.h - 1) \X (0 .. plane.w - 1)

\* A picture that is not empty; a plane holds its visible cells and any padding.
IsPicture(pic) ==
  /\ pic = [chroma |-> pic.chroma, w |-> pic.w, h |-> pic.h,
            planes |-> [p \in Planes(pic.chroma) |->
                          [w |-> PlaneWidth(pic.chroma, p, pic.w),
                           h |-> PlaneHeight(pic.chroma, p, pic.h),
                           px |-> pic.planes[p].px]]]
  /\ pic.chroma \in Packable \cup {OtherChroma}
  /\ pic.w \in Nat \ {0} /\ pic.h \in Nat \ {0}
  /\ \A p \in Planes(pic.chroma) : VisibleCells(pic.planes[p]) \subseteq DOMAIN pic.planes[p].px

Paint(plane, cells, unit) ==
  [plane EXCEPT !.px = [cell \in DOMAIN @ |-> IF cell \in cells THEN unit ELSE @[cell]]]

\* Y, Cb and Cr of the pixel at a cell, chroma subsampled by the given steps.
YCbCrAt(pic, cell, stepX, stepY) ==
  LET c == pic.chroma
      chromaCell == <<cell[1] \div PowerOfTwo(stepY), cell[2] \div PowerOfTwo(stepX)>>
      Chroma(n) ==
        IF Planar(c) THEN SampleByte(pic.planes[n + 1].px[chromaCell], 1, c)
        ELSE SampleByte(pic.planes[U_PLANE].px[chromaCell], n, c)
  IN  <<SampleByte(pic.planes[Y_PLANE].px[cell], 1, c),
        Chroma(IF SwapUV(c) THEN 2 ELSE 1), Chroma(IF SwapUV(c) THEN 1 ELSE 2)>>

PackedRGBAt(pic, cell) ==
  [k \in 1..3 |-> pic.planes[Y_PLANE].px[cell][RGBOffsets(pic.chroma)[k]]]

RGBAt(pic, cell) ==
  IF pic.chroma \in Packed THEN PackedRGBAt(pic, cell)
  ELSE YCbCrToRGB(YCbCrAt(pic, cell, StepX(pic.chroma), StepY(pic.chroma)))

=============================================================================
