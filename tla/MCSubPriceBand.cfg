CONSTANTS
  a1 = a1
  Price = {2, 3, 4, 6}
  Apply = {a1}
SPECIFICATION Spec
CHECK_DEADLOCK FALSE
PROPERTY
  DailyChangeInBand
