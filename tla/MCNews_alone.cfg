SPECIFICATION Spec
CONSTANTS
  a = a
  b = b
  c = c
  w1 = w1
  w2 = w2
  Updater = Updater
  Urls <- ThreeUrls
  HashLen = 2
  Hash <- SomeCollide
  BatchMax = 1
  Workers <- NoWorkers
  PageMax = 3
  UpdateMax = 3
  Calendar <- FourDays
  RestartMax = 0
  Blacklist <- Blacklisted
  SigPipe = FALSE
INVARIANTS TypeOK NoLeak IndexIsFile
CHECK_DEADLOCK FALSE
