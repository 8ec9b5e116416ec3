CONSTANTS
  Run = {r1, r2}
  Receipt = {p1}
  Content = {c1, c2}
  MaxEdits = 4
  Missing = Missing
  Link = Link
  NoBytes = NoBytes
  Empty = Empty
  Unwritten = Unwritten
SYMMETRY Symmetry
SPECIFICATION Spec
INVARIANTS
  TypeOK
  RanWasReviewed
  RunOwnsItsReceipt
  ReceiptIsTrue
CHECK_DEADLOCK FALSE
