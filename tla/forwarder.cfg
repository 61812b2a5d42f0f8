\* A local DNS forwarder whose proxy goes away and comes back.
CONSTANTS
  q1 = q1  q2 = q2  q3 = q3
  c1 = c1  c2 = c2
  i1 = i1  i2 = i2
  Queries <- MCQueries
  ClientOf <- MCClientOf
  IdOf <- MCIdOf
  None = None
  Relay = Relay
  Stranger = Stranger
  MaxSessions = 2
  CleanupEvery = 2
  Copies = 2
  Repeated <- MCRepeated
  RecvErrors = {"listen", "session", "reply"}
SPECIFICATION Spec
INVARIANTS
  OnlyToAskers
  NoMoreAnswersThanQuestions
  LiveSessionHasReader
PROPERTY NoSilentLoss
CHECK_DEADLOCK FALSE
