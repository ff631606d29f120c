CONSTANTS
  r1 = r1
  r2 = r2
  r3 = r3
  r4 = r4
  c1 = c1
  c2 = c2
  c3 = c3
  a1 = a1
  u1 = u1
  None = None
  Runs = {r1, r2, r3, r4}
  Conversations = {c1, c2, c3}
  Agents = {a1}
  Users = {u1}
  ConversationOf <- MCConversationOf
  AgentOf <- MCAgentOf
  UserOf <- MCUserOf
  Stoppable = {r1, r3}
  PerConversation = 2
  PerAgent = 1
  PerUser = 2
  GlobalChat = 0
SPECIFICATION Spec
INVARIANTS
  TypeOK
  PermitsConserved
  LimitsKept
  NoIdlePermit
  Reachable
  ShutdownDrains
PROPERTIES
  ImplementsDispatch
CHECK_DEADLOCK FALSE
