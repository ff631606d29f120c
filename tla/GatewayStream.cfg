CONSTANTS
  r1 = r1
  r2 = r2
  c1 = c1
  t1 = t1
  t2 = t2
  NoConn = NoConn
  NoRun = NoRun
  Runs = {r1, r2}
  Conns = {k1, k2}
  Conversation <- MCConversation
  Answer <- MCAnswer
  EventKeys = {"runId", "sessionKey"}
  Replies = {"ack", "refused", "answer"}
  Broadcast = {}
  Cumulative = {r1}
  AssumeDone = TRUE
SPECIFICATION Spec
INVARIANTS
  TypeOK
  OwnAnswer
  OverlapNeedsLeaver
  MisledOnlyByAbandoned
PROPERTIES
  StreamEnds
CHECK_DEADLOCK FALSE
