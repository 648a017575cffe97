SPECIFICATION Spec
CONSTANTS
  Months = {"2025M1", "2025M2"}
  Stages = {"Local", "Consolidated"}
  Origins = {"all", "Import", "Forms"}
  UserOrigins = {"Import", "Forms"}
  MaxQueries = 3
  MaxPages = 2
INVARIANT ReplacesWhatYouSee
CHECK_DEADLOCK FALSE
