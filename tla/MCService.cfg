CONSTANTS
  NoId = NoId
  p1 = p1
  p2 = p2
  UintMod = 16
  MaxArrivals = 3
  Datagrams <- MCDatagrams
SPECIFICATION Spec
INVARIANTS
  TypeOK
  AnswersCorrelate
  OutcomeTellsCopies
  CopiesAreOneAnswer
