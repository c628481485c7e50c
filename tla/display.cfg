CONSTANTS
  Originals <- MCOriginals
  Sizes <- MCSizes
  PanelScores <- MCPanelScores
  Targets <- MCTargets
  Backends = {"d3d11", "vaapi", "converter", "cpu"}
  Styles = {"black", "blur", "warning"}
  Pictures = {1, 2}
  Surfaces <- MCSurfaces
  MaxViews = 1
  Scores = {100}
SPECIFICATION Spec
INVARIANTS
  BlackedOutIsBlack
  BlurKeepsOneColourPerBlock
  WarningIsRed
  OnlyVisibleWritten
  OutputIsTheVerdict
  ReadbackIsThePicture
  SurfacesAccountedFor
  NothingLeftInBackend
CHECK_DEADLOCK FALSE
