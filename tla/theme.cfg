SPECIFICATION MCSpec
CONSTANTS
  wide = wide
  tall = tall
  dark = dark
  light = light
  f1 = f1
  f2 = f2
  Boxes = {wide, tall}
  Themes = {dark, light}
  Frames = {f1, f2}
  Nothing = Nothing
  MaxEntries = 1
  Widths <- MCWidths
  Edge <- MCEdge
  Narrow <- MCNarrow
  Broad <- MCBroad
INVARIANTS AnimatesAsShown PictureIsCurrent BarIsCentred
PROPERTIES SculptureMoves BarSettles
CHECK_DEADLOCK FALSE
