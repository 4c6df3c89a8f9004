CONSTANTS
  Requests = {r1}
  Names = {c1}
  Inodes = {i1, i2}
  Proofs <- BoundaryProofs
  MaxRunes = 2
  None = None
SPECIFICATION Spec
SYMMETRY Symmetry
INVARIANTS TypeOK AnswersOneMoment ServedBytesWereThere ReadingInv
