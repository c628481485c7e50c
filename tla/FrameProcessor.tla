---------------------------- MODULE FrameProcessor ----------------------------
(***************************************************************************)
(* What frame_processor.c does to one software picture: packing it to RGB   *)
(* for the detector, scoring it without a detector, masking it with one of  *)
(* the three block styles and drawing the debug panel on top, in the order  *)
(* in which ApplyDisplayOutput calls the last two.  A score and a threshold *)
(* are in thousandths, the precision at which the panel prints them.        *)
(***************************************************************************)
EXTENDS PixelFormats, FiniteSets

CONSTANTS Originals,     \* the pictures a decoder may deliver
          PanelScores,   \* <<score, threshold>> pairs of the debug panel
          Targets        \* <<width, height>> asked of pack_to_rgb, 0 for the picture's

ASSUME OriginalsAssumption == \A pic \in Originals : IsPicture(pic)
ASSUME ScoresAssumption == PanelScores \subseteq Nat \X Nat
ASSUME TargetsAssumption == Targets \subseteq Nat \X Nat

VARIABLES original,      \* the picture as it came
          picture,       \* the picture now
          style,         \* the block style applied, "none" before
          panel          \* the pair the panel shows, <<>> before

pixelVars == <<original, picture, style, panel>>

BlockStyles == {"black", "blur", "warning"}

-----------------------------------------------------------------------------
(* Packing and scoring.                                                     *)

SourceIndex(i, source, target) == (i * source) \div target

\* nsfw_fp_pack_to_rgb; <<>> when the chroma is not one it can pack.
PackToRGB(pic, target) ==
  LET w == IF target[1] > 0 THEN target[1] ELSE pic.w
      h == IF target[2] > 0 THEN target[2] ELSE pic.h
  IN  IF pic.chroma \notin Packable THEN <<>>
      ELSE [cell \in (0 .. h - 1) \X (0 .. w - 1) |->
              RGBAt(pic, <<SourceIndex(cell[1], pic.h, h), SourceIndex(cell[2], pic.w, w)>>)]

IsSkinYCbCr(yuv) == /\ yuv[1] > 80
                    /\ yuv[2] \in 85..135
                    /\ yuv[3] \in 135..180

PackedYCbCr(rgb) ==
  <<(77 * rgb[1] + 150 * rgb[2] + 29 * rgb[3]) \div 256,
    128 + ((128 * rgb[3] - 43 * rgb[1] - 85 * rgb[2]) \div 256),
    128 + ((128 * rgb[1] - 107 * rgb[2] - 21 * rgb[3]) \div 256)>>

\* Every second pixel of every second line; the planar scorer is told that
\* the chroma of YUVA is halved both ways, the packer that it is not.
HeuristicYCbCr(pic, cell) ==
  LET c == pic.chroma
      half == c = <<"YUVA", 8, "-">>
  IN  IF c \in Packed THEN PackedYCbCr(PackedRGBAt(pic, cell))
      ELSE YCbCrAt(pic, cell, IF half THEN 1 ELSE StepX(c), IF half THEN 1 ELSE StepY(c))

ScoredCells(pic) == {cell \in VisibleCells(pic.planes[Y_PLANE]) :
                       cell[1] % 2 = 0 /\ cell[2] % 2 = 0}

\* Hits among the samples inside the picture, and the number of samples.  The
\* scorer of wide planar chromas takes the visible pitch, in bytes, for the
\* number of samples: outside counts those it reads behind the visible line.
HeuristicScore(pic) ==
  IF pic.chroma \notin Packable THEN [hits |-> 0, samples |-> 0, outside |-> 0]
  ELSE LET cells == ScoredCells(pic)
           lines == {cell[1] : cell \in cells}
           outside == IF pic.chroma \in Planar16
                      THEN Cardinality({x \in pic.w .. 2 * pic.w - 1 : x % 2 = 0})
                             * Cardinality(lines)
                      ELSE 0
       IN  [hits |-> Cardinality({cell \in cells : IsSkinYCbCr(HeuristicYCbCr(pic, cell))}),
            samples |-> Cardinality(cells) + outside, outside |-> outside]

-----------------------------------------------------------------------------
(* Drawing: every shape is a union of rectangles, each cut to its plane.    *)

\* A mutant: rectangles cut one column too late.
RectCells_Unclipped(plane, x0, y0, width, height) ==
  (Maximum(y0, 0) .. Minimum(y0 + height, plane.h) - 1)
    \X (Maximum(x0, 0) .. Minimum(x0 + width, plane.w + 1) - 1)

RectCells(plane, x0, y0, width, height) ==
  (Maximum(y0, 0) .. Minimum(y0 + height, plane.h) - 1)
    \X (Maximum(x0, 0) .. Minimum(x0 + width, plane.w) - 1)

-----------------------------------------------------------------------------
(* Black.                                                                   *)

\* A mutant for the runs: neutral chroma written as 0x80 at every depth.
BlackUnit_EightBitNeutral(c, p) ==
  IF c \in Planar16 THEN OneSample(CASE p = Y_PLANE -> 0 [] p = A_PLANE -> 255 [] OTHER -> 128, c)
  ELSE IF c \in Semi8 \cup {P010} THEN IF p = Y_PLANE THEN OneSample(0, c)
                                       ELSE OneSample(128, c) \o OneSample(128, c)
  ELSE IF c \in Packed THEN <<0, 0, 0, 255>> ELSE IF p = Y_PLANE THEN <<0>> ELSE <<128>>

BlackUnit(c, p) ==
  CASE c \in Packed ->
         IF Name(c) \in {"RGB24", "RGB32"} THEN [k \in 1 .. PixelSize(c) |-> 0]
         ELSE <<0, 0, 0, 255>>
    [] c \in Semi8 -> IF p = Y_PLANE THEN <<0>> ELSE <<128, 128>>
    [] c = P010 -> LET neutral == OneSample(NeutralChromaSample(Bits(c)), c)
                   IN  IF p = Y_PLANE THEN OneSample(0, c) ELSE neutral \o neutral
    [] OTHER -> OneSample(CASE p = Y_PLANE -> 0
                            [] p = A_PLANE -> SampleMask(Bits(c))
                            [] OTHER -> NeutralChromaSample(Bits(c)), c)

Blackout(pic) ==
  [pic EXCEPT !.planes =
     [p \in DOMAIN @ |-> Paint(@[p], VisibleCells(@[p]), BlackUnit(pic.chroma, p))]]

BlackoutFrameContent(pic) == IF pic.chroma \in Packable THEN Blackout(pic) ELSE pic

-----------------------------------------------------------------------------
(* Blur: each plane is cut into blocks that repeat their first unit.        *)

FastBlurBlockSize(w, h) == Clamp(Minimum(w, h) \div 36, 8, 24)

\* A mutant: the columns of a block stepped by one too many.
PixelatePlane_OffByOne(plane, block) ==
  [plane EXCEPT !.px =
     [cell \in DOMAIN @ |->
        IF cell \in VisibleCells(plane)
        THEN @[<<cell[1] - (cell[1] % block), cell[2] - (cell[2] % (block + 1))>>]
        ELSE @[cell]]]

PixelatePlane(plane, block) ==
  [plane EXCEPT !.px =
     [cell \in DOMAIN @ |->
        IF cell \in VisibleCells(plane)
        THEN @[<<cell[1] - (cell[1] % block), cell[2] - (cell[2] % block)>>]
        ELSE @[cell]]]

FastBlurFrame(pic) ==
  IF pic.chroma \notin Packable THEN Blackout(pic)
  ELSE [pic EXCEPT !.planes =
          [p \in DOMAIN @ |-> PixelatePlane(@[p], FastBlurBlockSize(pic.w, pic.h))]]

-----------------------------------------------------------------------------
(* Warning: a triangle with an exclamation mark in the lower right corner.  *)

MarkSize(w, h) == Clamp(Minimum(w, h) \div 8, 20, 72)
MarkCorner(length, size) == Maximum(length - size - Maximum(size \div 4, 4), 0)
MarkStroke(size) == Maximum(size \div 12, 2)

\* Where a row of the triangle begins and ends.
MarkSpan(size, row) == ((size \div 2) * row) \div (size - 1)
MarkLeft(size, row) == Maximum(size \div 2 - MarkSpan(size, row), 0)
MarkRight(size, row) == Minimum(size \div 2 + MarkSpan(size, row), size - 1)

TriangleRow(plane, x0, y0, size, row) ==
  LET stroke == MarkStroke(size)
      left   == MarkLeft(size, row)
      right  == MarkRight(size, row)
  IN  RectCells(plane, x0 + left, y0 + row, stroke, 1)
        \cup RectCells(plane, x0 + right - stroke + 1, y0 + row, stroke, 1)
        \cup (IF row < size - stroke THEN {}
              ELSE RectCells(plane, x0 + left, y0 + row, right - left + 1, 1))

ExclamationMark(plane, x0, y0, size) ==
  LET symbol == Maximum(size \div 9, 2)
      left   == x0 + size \div 2 - symbol \div 2
  IN  RectCells(plane, left, y0 + size \div 3, symbol, size \div 4)
        \cup RectCells(plane, left, y0 + (size * 3) \div 4, symbol, symbol)

WatermarkCells(plane, w, h) ==
  LET size == MarkSize(w, h)
      x0   == MarkCorner(w, size)
      y0   == MarkCorner(h, size)
  IN  (UNION {TriangleRow(plane, x0, y0, size, row) : row \in 0 .. size - 1})
        \cup ExclamationMark(plane, x0, y0, size)

\* The chroma planes draw a mark sized for their own width and height.
MarkCells(pic, p) ==
  LET plane == pic.planes[p]
  IN  IF p = A_PLANE THEN {}
      ELSE IF p = Y_PLANE THEN WatermarkCells(plane, pic.w, pic.h)
      ELSE WatermarkCells(plane, plane.w, plane.h)

WarningYUV == <<76, 85, 255>>

\* A mutant: the two chroma bytes of the semi-planar chromas in one order.
WarningUnit_OneOrder(c, p) ==
  IF c \in Semi8 THEN IF p = Y_PLANE THEN <<76>> ELSE <<85, 255>>
  ELSE IF c \in Packed THEN [k \in 1 .. PixelSize(c) |-> IF k = RGBOffsets(c)[1] THEN 224 ELSE 24]
  ELSE IF c = P010 THEN IF p = Y_PLANE THEN <<0, 76>> ELSE <<0, 85, 0, 255>>
  ELSE OneSample(CASE p = Y_PLANE -> 76 [] p = IF SwapUV(c) THEN V_PLANE ELSE U_PLANE -> 85
                   [] OTHER -> 255, c)

WarningUnit(c, p) ==
  LET u == IF SwapUV(c) THEN WarningYUV[3] ELSE WarningYUV[2]
      v == IF SwapUV(c) THEN WarningYUV[2] ELSE WarningYUV[3]
  IN  CASE Name(c) = "RGB24" -> <<24, 24, 224>>
        [] Name(c) \in {"RGB32", "BGRA"} -> <<24, 24, 224, 255>>
        [] Name(c) = "RGBA" -> <<224, 24, 24, 255>>
        [] Name(c) = "ARGB" -> <<255, 224, 24, 24>>
        [] c = P010 -> IF p = Y_PLANE THEN <<0, 76>> ELSE <<0, 85, 0, 255>>
        [] c \in Semi8 -> IF p = Y_PLANE THEN <<76>> ELSE <<u, v>>
        [] OTHER -> OneSample(CASE p = Y_PLANE -> 76 [] p = U_PLANE -> u [] OTHER -> v, c)

WarningWatermarkFrame(pic) ==
  IF pic.chroma \notin Packable THEN pic
  ELSE [pic EXCEPT !.planes =
          [p \in DOMAIN @ |-> Paint(@[p], MarkCells(pic, p), WarningUnit(pic.chroma, p))]]

BlockFrame(pic, blockStyle) ==
  CASE blockStyle = "blur" -> FastBlurFrame(pic)
    [] blockStyle = "warning" -> WarningWatermarkFrame(pic)
    [] OTHER -> BlackoutFrameContent(pic)

-----------------------------------------------------------------------------
(* The debug panel: score and threshold in figures, and a bar.              *)

\* DebugScoreColor: green to amber up to 70% of the threshold, then to red.
DebugScoreColor(score, threshold) ==
  LET low    == <<40, 199, 98>>
      middle == <<255, 166, 42>>
      high   == <<229, 52, 48>>
      t == Clamp(threshold, 1, 999)
      Mix(from, to, num, den) ==
        [k \in 1..3 |-> (2 * from[k] * den + 2 * (to[k] - from[k]) * num + den) \div (2 * den)]
  IN  CASE score >= t -> high
        [] 10 * score <= 7 * t -> Mix(low, middle, 10 * score, 7 * t)
        [] OTHER -> Mix(middle, high, 10 * score - 7 * t, 3 * t)

\* Three columns by five lines each: the ten figures, the point, the slash.
Glyphs == <<<<7,5,5,5,7>>, <<2,6,2,2,7>>, <<7,1,7,4,7>>, <<7,1,7,1,7>>, <<5,5,7,1,1>>,
            <<7,4,7,1,7>>, <<7,4,7,5,7>>, <<7,1,2,2,2>>, <<7,5,7,5,7>>, <<7,5,7,1,7>>,
            <<0,0,0,0,2>>, <<1,2,2,4,4>>>>

\* The glyphs of "%.3f/%.3f".
PanelText(score, threshold) ==
  LET Figures(n) == <<n \div 1000, 10, (n \div 100) % 10, (n \div 10) % 10, n % 10>>
  IN  Figures(score) \o <<11>> \o Figures(threshold)

DrawDebugTextPlane(plane, w, h, background, foreground, score, threshold) ==
  LET text   == PanelText(score, threshold)
      base   == Clamp(Minimum(w, h) \div 160, 2, 6)
      scaleX == Maximum((base * plane.w + w \div 2) \div w, 1)
      scaleY == Maximum((base * plane.h + h \div 2) \div h, 1)
      marginX == scaleX * 3
      marginY == scaleY * 3
      barWidth  == Len(text) * scaleX * 4
      barHeight == Maximum(scaleY, 2)
      filled == IF threshold > 1
                THEN Minimum((2 * barWidth * score + threshold) \div (2 * threshold), barWidth)
                ELSE barWidth
      Dots(i) == {dot \in (0..4) \X (0..2) :
                    (Glyphs[text[i] + 1][dot[1] + 1] \div PowerOfTwo(2 - dot[2])) % 2 = 1}
      Glyph(i) == UNION {RectCells(plane, marginX * 2 + (i - 1) * scaleX * 4 + dot[2] * scaleX,
                                   marginY * 2 + dot[1] * scaleY, scaleX, scaleY) :
                           dot \in Dots(i)}
      board == RectCells(plane, marginX, marginY, barWidth + marginX * 2,
                         scaleY * 5 + marginY * 3 + barHeight)
      ink == (UNION {Glyph(i) : i \in 1 .. Len(text)})
               \cup RectCells(plane, marginX * 2, marginY * 3 + scaleY * 5, filled, barHeight)
  IN  Paint(Paint(plane, board, background), ink, foreground)

\* EncodeP010OverlayColor without a PQ transfer: BT.2020, limited range.
P010Color(rgb) ==
  LET luma == 2627 * rgb[1] + 6780 * rgb[2] + 593 * rgb[3]
      y == (64 * 425000 + 146 * luma + 212500) \div 425000
      u == 512 + (448 * (10000 * rgb[3] - luma) + 1199392) \div 2398785
      v == 512 + (448 * (10000 * rgb[1] - luma) + 940057) \div 1880115
  IN  <<Clamp(y, 64, 940), Clamp(u, 64, 960), Clamp(v, 64, 960)>>

\* The unit that shows a colour in a plane.
OverlayUnit(c, p, rgb) ==
  LET yuv == IF rgb = <<0, 0, 0>> THEN <<0, 128, 128>> ELSE RgbToYuv(rgb)
      u == IF SwapUV(c) THEN yuv[3] ELSE yuv[2]
      v == IF SwapUV(c) THEN yuv[2] ELSE yuv[3]
      ten == P010Color(rgb)
  IN  CASE Name(c) = "RGB24" -> <<rgb[3], rgb[2], rgb[1]>>
        [] Name(c) \in {"RGB32", "BGRA"} -> <<rgb[3], rgb[2], rgb[1], 255>>
        [] Name(c) = "RGBA" -> rgb \o <<255>>
        [] Name(c) = "ARGB" -> <<255>> \o rgb
        [] c = P010 -> IF p = Y_PLANE THEN OneSample(ten[1], c)
                       ELSE OneSample(ten[2], c) \o OneSample(ten[3], c)
        [] c \in Semi8 -> IF p = Y_PLANE THEN <<yuv[1]>> ELSE <<u, v>>
        [] OTHER -> OneSample(CASE p = Y_PLANE -> yuv[1] [] p = U_PLANE -> u [] OTHER -> v, c)

DebugOverlay(pic, score, threshold) ==
  LET c == pic.chroma
      colour == DebugScoreColor(score, threshold)
  IN  IF c \notin Packable THEN pic
      ELSE [pic EXCEPT !.planes =
              [p \in DOMAIN @ |->
                 IF p = A_PLANE THEN @[p]
                 ELSE DrawDebugTextPlane(@[p], pic.w, pic.h, OverlayUnit(c, p, <<0, 0, 0>>),
                                         OverlayUnit(c, p, colour), score, threshold)]]

-----------------------------------------------------------------------------
PixelInit ==
  /\ original \in Originals
  /\ picture = original
  /\ style = "none"
  /\ panel = <<>>

\* ApplyBlockedOutput on a software picture that is to be masked.
Mask(blockStyle) ==
  /\ style = "none" /\ panel = <<>>
  /\ style' = blockStyle
  /\ picture' = BlockFrame(picture, blockStyle)
  /\ UNCHANGED <<original, panel>>

\* The end of ApplyDisplayOutput, for a masked picture or a clean one.
ShowPanel(pair) ==
  /\ panel = <<>>
  /\ panel' = pair
  /\ picture' = DebugOverlay(picture, pair[1], pair[2])
  /\ UNCHANGED <<original, style>>

PixelNext ==
  \/ \E blockStyle \in BlockStyles : Mask(blockStyle)
  \/ \E pair \in PanelScores : ShowPanel(pair)

PixelSpec == PixelInit /\ [][PixelNext]_pixelVars

-----------------------------------------------------------------------------
(* Properties.                                                              *)

Shown == PackToRGB(picture, <<0, 0>>)

\* A blacked out picture of a known layout is black to whoever reads it: every
\* packing of it is 0, 0, 0 at every size asked for, none of it looks like skin
\* and its alpha plane is opaque.  It joins the colours that the blackout writes
\* to the way in which the packer decodes them (BlackoutFrameContent and
\* nsfw_fp_pack_to_rgb).  Alpha-first pictures are left out: they become blue
\* and transparent, since the last byte is taken for the alpha of them too.
BlackedOutIsBlack ==
  (style = "black" /\ panel = <<>> /\ picture.chroma \in Packable /\ Name(picture.chroma) # "ARGB")
    => /\ \A target \in Targets : LET rgb == PackToRGB(picture, target)
                                IN  \A cell \in DOMAIN rgb : rgb[cell] = <<0, 0, 0>>
       /\ HeuristicScore(picture).hits = 0
       /\ HasAlphaPlane(picture.chroma) =>
            \A cell \in VisibleCells(picture.planes[A_PLANE]) :
              SampleByte(picture.planes[A_PLANE].px[cell], 1, picture.chroma) = 255

\* A blurred picture shows one colour per block, whatever the subsampling: the
\* chroma planes are cut with the block size of the luma plane, so the blocks
\* nest only because their corners do (FastBlurFrame, PixelatePlane).
BlurKeepsOneColourPerBlock ==
  (style = "blur" /\ panel = <<>> /\ picture.chroma \in Packable) =>
    LET block == FastBlurBlockSize(picture.w, picture.h)
        rgb == Shown
    IN  \A cell \in DOMAIN rgb :
          rgb[cell] = rgb[<<cell[1] - (cell[1] % block), cell[2] - (cell[2] % block)>>]

\* Wherever the luma and the chroma mark of the warning meet, the packed picture
\* is red: the byte orders and plane orders of WarningWatermarkFrame are those
\* of the packer; and they do meet in a picture that has room for the mark.
\* Wide planar pictures are left out, whose marks are written unscaled.
WarningIsRed ==
  (style = "warning" /\ panel = <<>> /\ picture.chroma \in Packable \ Planar16) =>
    LET c == picture.chroma
        rgb == Shown
        chromaMark == IF c \in Packed THEN {} ELSE MarkCells(picture, U_PLANE)
        marked == {cell \in MarkCells(picture, Y_PLANE) :
                     c \in Packed \/ <<cell[1] \div PowerOfTwo(StepY(c)),
                                       cell[2] \div PowerOfTwo(StepX(c))>> \in chromaMark}
    IN  /\ \A cell \in marked : rgb[cell][1] >= 200 /\ rgb[cell][2] < 60 /\ rgb[cell][3] < 60
        /\ Minimum(picture.w, picture.h) >= 26 => marked # {}

\* No mask and no panel writes behind the visible part of a plane, where the
\* rectangles that leave the picture would land: a mark or a panel larger than
\* the picture, a chroma plane smaller than its mark (FillColorRect).
OnlyVisibleWritten ==
  \A p \in DOMAIN picture.planes :
    \A cell \in DOMAIN picture.planes[p].px \ VisibleCells(picture.planes[p]) :
      picture.planes[p].px[cell] = original.planes[p].px[cell]

=============================================================================
