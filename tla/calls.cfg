CONSTANTS
  ada = ada
  tobi = tobi
  a = a
  t = t
  None = None
  Users <- AdaAndTobi
  Peer <- Friends
  Calls <- BothCall
  Caller <- WhoCalls
  Trickling <- OnlyTheCaller
  MaxTimes <- Losing
  MaxOutside = 1
SPECIFICATION Spec
INVARIANTS NoInvisibleCapture ScreenFollowsTheCall
CHECK_DEADLOCK FALSE
