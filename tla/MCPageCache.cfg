SPECIFICATION Spec
CONSTANTS
  w1 = w1
  w2 = w2
  w3 = w3
  page = page
  picture = picture
  Workers <- ThreeWorkers
  Pages <- OnePage
  Pictures <- OnePicture
  FilesMax = 1
  FileLen = 3
  BlockLen = 2
  Faults <- AllFaults
SYMMETRY Symmetry
INVARIANTS TypeOK CachedOnce NothingLost RepliesSound  
