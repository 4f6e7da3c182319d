SPECIFICATION Spec
CONSTANTS
  R = 5
  K = 3
  Files <- RepresentativeFiles
  NoFile = NoFile
  JobSizes = {2, 3, 4, 5, 16, 17}
  FullDim <- SomeFaces
INVARIANTS FacesPartition BatchesCounted Complete
PROPERTIES Progress
