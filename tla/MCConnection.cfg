SPECIFICATION FairSpec
CONSTANTS ConnEstFailCount = 2
          PreambleTransMax = 0
          MaxContexts = 2
          MaxBearers = 1
          MaxMishaps = 3
INVARIANTS NeverAborts NasAgrees SidesAgree
PROPERTIES Reclaimed EventuallyServed
