SPECIFICATION CurvesSpec
CHECK_DEADLOCK FALSE
CONSTANTS
  Prec = 6
  MaxExp = 8
  Floor = 10000
  FullTurn = 720
  Tolerance = 2
  MinPoints = 2
  MaxPoints = 37
  Configs <- MCConfigs
  PointCounts = {13}
  Angles = {0, 78, 80, 200, 204, 320, 360, 400}
  LiftPoints = {}
  Speed = 360
  Stroke = 2
  LawNames = {"parabolic"}
INVARIANTS
  SwitchReported
