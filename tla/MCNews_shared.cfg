SPECIFICATION FairSpec
CONSTANTS
  a = a
  b = b
  c = c
  w1 = w1
  w2 = w2
  Updater = Updater
  Urls <- TwoUrls
  HashLen = 1
  Hash <- AllCollide
  BatchMax = 2
  Workers <- OneWorker
  PageMax = 2
  UpdateMax = 2
  Calendar <- OneDay
  RestartMax = 1
  Blacklist <- NoBlacklist
  SigPipe = TRUE
INVARIANTS ChainsSound 
 
CHECK_DEADLOCK FALSE
