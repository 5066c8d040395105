CONSTANTS
  r1 = r1
  r2 = r2
  t1 = t1
  k1 = k1
  k2 = k2
  x1 = x1
  x2 = x2
  Run = {r1, r2}
  MaxActive = 1
  Territory = {t1}
  Key = {k1, k2}
  Source <- MCSource
  Scopes <- MCScopes
  ProductNames = {"a", "b"}
  MaxProducts = 2
  MaxCatalogCalls = 3
  Products = {x1, x2}
  Locales = {"th", "pt-PT", "pt-BR"}
  Lang <- MCLang
  Canon <- MCCanon
  MaxParts = 3
  MaxCalls = 2
SYMMETRY MCSymmetry
CHECK_DEADLOCK FALSE
SPECIFICATION PartsAlone
INVARIANT
  RegionsKeepTheirText
