SPECIFICATION Spec
CONSTANTS
  k_width = 5
  k_height = 4
  k_margin = 1
  MinSide = 3
  Pictures <- Drawn
INVARIANT
  TypeOK
PROPERTIES
  ShownIsPicture
  CropIsTight
  GeometryFollows
