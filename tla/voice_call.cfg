SPECIFICATION Spec
CONSTANTS
  EventIds = {e1, e2, e3, e4, e5, e6}
  Turns = {t1, t2, t3}
  MaxSeq = 5
  None = None
SYMMETRY MCSymmetry
INVARIANTS TurnsOnceInOrder OneVoice InterruptionsTold
