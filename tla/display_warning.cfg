CONSTANTS
  Originals = {}
  Sizes = {}
  PanelScores = {}
  Targets = {}
  Backends = {"vaapi"}
  Styles = {"black", "blur", "warning"}
  Pictures = {1}
  Surfaces <- MCSurfaces
  MaxViews = 1
  Scores = {100}
SPECIFICATION Spec
INVARIANT BlockedIsTreated
CHECK_DEADLOCK FALSE
