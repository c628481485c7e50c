---------------------------- MODULE MCDisplayOutput ----------------------------
(***************************************************************************)
(* Software pictures of every chroma whose content differs from cell to     *)
(* cell: three that the panel or the mark overflows, and one with room for   *)
(* the mark.  On the GPU two textures, one of them with two slices.        *)
(***************************************************************************)
EXTENDS DisplayOutput

CONSTANT Sizes

Sample(p, cell, k) == 40 + ((71 * p + 37 * cell[1] + 23 * cell[2] + 59 * k) % 200)

Unit(c, p, cell) ==
  CASE c \in Packed -> [k \in 1 .. PixelSize(c) |-> Sample(p, cell, k)]
    [] SemiPlanar(c) /\ p = U_PLANE -> OneSample(Sample(p, cell, 1), c) \o OneSample(Sample(p, cell, 2), c)
    [] OTHER -> OneSample(Sample(p, cell, 1) * PowerOfTwo(Bits(c) - 8), c)

Plane(c, p, w, h) ==
  LET pw == PlaneWidth(c, p, w)
      ph == PlaneHeight(c, p, h)
  IN  [w |-> pw, h |-> ph, px |-> [cell \in (0..ph) \X (0..pw) |-> Unit(c, p, cell)]]

MCOriginals ==
  {[chroma |-> c, w |-> size[1], h |-> size[2],
    planes |-> [p \in Planes(c) |-> Plane(c, p, size[1], size[2])]] :
     c \in Packable \cup {OtherChroma}, size \in Sizes}

MCSizes == {<<1, 1>>, <<7, 3>>, <<27, 26>>, <<108, 10>>}
MCPanelScores == {<<420, 600>>, <<999, 1>>}
MCTargets == {<<0, 0>>, <<2, 3>>}

MCSurfaces == {<<1, 0>>, <<1, 1>>, <<2, 0>>}

=============================================================================
