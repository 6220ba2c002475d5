CONSTANTS
  ada = ada
  tobi = tobi
  a = a
  t = t
  None = None
  Users <- AdaAndTobi
  Peer <- Friends
  Calls <- OneCall
  Caller <- WhoCalls
  Trickling <- OnlyTheCaller
  MaxTimes <- Anything
  MaxOutside = 1
SPECIFICATION FairSpec
INVARIANTS NoInvisibleCapture ParkedCandidatesAreFlushed
PROPERTIES CallingEnds NobodyTalksAlone
CHECK_DEADLOCK FALSE
