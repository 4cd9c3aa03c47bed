SPECIFICATION FairSpec
CONSTANTS
  Programs <- AllPrograms
  FirstConstant = 24
  MaxAnswers = 7
INVARIANTS DoesWhatItMeans HeightIsFixed
PROPERTY ComesToAnEnd
CHECK_DEADLOCK FALSE
