CONSTANTS
  s1 = s1
  s2 = s2
  s3 = s3
  s4 = s4
  us = us
  gb = gb
  fr = fr
  week = week
  month = month
  a1 = a1
  Saver = {s1, s2, s3, s4}
  VERSION_INSERT_ATTEMPTS = 3
  Territory = {us, gb}
  Config = {week, month}
  Shown = {us, gb, fr}
  Vat <- MCVat
  Rates <- MCRates
  Indices <- MCIndices
  Bodies <- MCBodies
  Ladders <- MCLadders
  Starts <- MCStarts
  Typed <- MCTyped
  MaxChanges = 1
  MaxApplies = 1
SPECIFICATION MCSpec
CHECK_DEADLOCK FALSE
INVARIANTS
  OutracedByEnough
  PreviewHolds
PROPERTIES
  SavesAppend
  SyncedIsComplete
  Answers
