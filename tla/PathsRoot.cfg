\* The shortest path that climbs back to the root has two parts.
CONSTANTS
  Name = {"a", "b"}
  Width <- MCWidth
  Path <- MCPath
  MaxParts = 2
  PATH_MAX = 9
SPECIFICATION Spec
CHECK_DEADLOCK FALSE
PROPERTIES
  CleaningKeepsMeaning
