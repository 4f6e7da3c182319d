SPECIFICATION FairSpec
CONSTANTS
  Value <- Number
  List <- Lists
  Args <- Arguments
  JobSize = 2
  Process <- list_manipulation_example_process
INVARIANTS TasksPartition TasksCounted Complete
PROPERTIES Termination
