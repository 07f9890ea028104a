CONSTANTS
  Contender = {"contender"}
  Answering = {"storage"}
  Collectors <- MCCollectors
  Names <- MCNames
  Prefix <- MCPrefix
  Answers <- MCAnswers
  Links <- MCLinks
  MaxFailures = 1
SPECIFICATION Spec
INVARIANTS TypeOK EdgesAreOfOneReading
PROPERTY EdgesFindTheirTarget
