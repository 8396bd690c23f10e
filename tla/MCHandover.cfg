SPECIFICATION FairSpec
CONSTANTS PreambleTransMax = 2
          MaxHandovers = 3
          MaxMishaps = 3
INVARIANTS NeverAborts CellsAgree
PROPERTIES EventuallySettled
CHECK_DEADLOCK FALSE
