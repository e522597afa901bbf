SPECIFICATION Spec
CONSTANTS
  w1 = w1
  w2 = w2
  m1 = m1
  m2 = m2
  p1 = p1
  p2 = p2
  None = None
  Blank = Blank
  Workers <- TwoWorkers
  Mails <- TwoMails
  Passwds <- TwoPasswds
  Faults <- AllFaults
SYMMETRY Symmetry
INVARIANTS TypeOK    IndexWraps
PROPERTY BookSpec
