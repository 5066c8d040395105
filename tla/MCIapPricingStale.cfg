CONSTANTS
  us = us
  gb = gb
  s1 = s1
  a1 = a1
  Territory = {us, gb}
  Price = {2, 5}
  Sync = {s1}
  Apply = {a1}
  MaxEdits = 0
SPECIFICATION FairSpec
PROPERTIES
  UntouchedPricesStay
