CONSTANTS
  us = us
  gb = gb
  week = week
  month = month
  a1 = a1
  Territory = {us, gb}
  Config = {week, month}
  Apply = {a1}
SPECIFICATION FairSpec
PROPERTIES
  ReapplyIsNoOp
