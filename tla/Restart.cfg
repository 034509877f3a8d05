SPECIFICATION Spec
CONSTANTS
  MaxPanics = 3
  MaxFails = 2
  MaxAway = 1
INVARIANT TypeOK
PROPERTIES Covered Handover Renewed Retired Serves
\* Without another panic the system comes to rest.
CHECK_DEADLOCK FALSE
