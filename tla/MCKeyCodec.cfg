SPECIFICATION Spec
CONSTANTS
  CubeTexts <- MCCubes
  EntityNames <- MCEntities
  Profiles = {"p"}
INVARIANT ParseReversesKey
CHECK_DEADLOCK FALSE
