SPECIFICATION Spec
CONSTANTS
  a1 = a1
  ann = ann
  bob = bob
  v1 = v1
  v2 = v2
  v3 = v3
  v4 = v4
  e1 = e1
  p1 = p1
  p2 = p2
  Articles = {a1}
  Addresses = {ann, bob}
  Requests = {v1, v2, v3, v4, e1, p1, p2}
  Visits = {v1, v2, v3, v4}
  Exports = {e1}
  Pages = {p1, p2}
  ArticleOf <- About
  AddressOf <- From
  LatencyOf <- Lasting
  Mixes <- Together
  Window = 2
  MaxTime = 2
  MaxFailures = 1
  MaxPages = 1
  MaxLives = 1
  MaxSize = 3
SYMMETRY Symmetry
CHECK_DEADLOCK FALSE
INVARIANTS OnlyOverlapCountsTwice SkippedHasCause OnlyExportsLoseViews
  WindowIsLatest QuantilesRight PagesAgree
