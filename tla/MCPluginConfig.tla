--------------------------- MODULE MCPluginConfig ---------------------------
(***************************************************************************)
(* A small instance of PluginConfig for TLC: every option at the edges of  *)
(* its range, and a clock that makes the products wrap.                    *)
(***************************************************************************)
EXTENDS PluginConfig

MCEnv == {[value |-> 0, valid |-> FALSE], [value |-> 40, valid |-> TRUE],
          [value |-> 66, valid |-> FALSE]}

MCOptions ==
    [stride : {-1, 1, 5, 33}, padding : {0, 1, 5, 33}, frames : {0, 1, 24, 99},
     workers : {0, 4, 99}, batch : {0, 9}, gpu : BOOLEAN, oldPreset : BOOLEAN,
     bufferMs : MCEnv, bufferSeconds : MCEnv]

MCVideos   == [resolution : {0, 3}, interval : {42}]
MCSurfaces == {0, 3, 4, 7, 40}
=============================================================================
