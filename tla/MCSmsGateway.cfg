CONSTANTS
  m1 = m1
  c1 = c1
  l1 = l1
  l2 = l2
  h1 = h1
  h2 = h2
  Messages <- OneMessage
  Commands <- OneCommand
  Runnable <- OneCommand
  Loops <- TwoLoops
  Handlers <- TwoHandlers
  MaxRetries = 1
  MaxToggles = 1
  MaxFaults = 1
SPECIFICATION FairSpec
INVARIANTS
  SentOncePerRequest
  RunAgainOnlyIfForgotten
  ReportedIsDone
PROPERTIES
  CommandsAnswered
  MessagesReported
