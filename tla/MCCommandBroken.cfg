SPECIFICATION ThreeMeet
CONSTANTS
  c1 = c1
  c2 = c2
  k1 = k1
  a1 = a1
  n1 = n1
  q1 = q1
  q2 = q2
  q3 = q3
  q4 = q4
  None = None
  Requests = {q1, q2, q3, q4}
  Commands = {c1, c2}
  Publishes = {c1}
  Keys = {k1}
  Nonces = {n1}
  CmdOf <- PublishCmdOf
  KeyOf <- PublishKeyOf
  NonceOf <- OneNonce
  Prompt = FALSE
  Unreliable = TRUE
INVARIANTS
  PublishOnce
  AnswersAreTrue
  DoneMeansReplayable
PROPERTIES
  ReservationsEnd
