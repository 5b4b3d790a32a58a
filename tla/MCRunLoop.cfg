CONSTANTS
  Frame = 6
  Access = {1, 3}
  Most = 2
  Transfer = {3, 5}
  Gap = {1, 2, 4, 9}
SPECIFICATION Spec
PROPERTIES WakesAtOnce RunReturns
