\* Two calls, one with a deadline, and a request of each kind.
SPECIFICATION FairSpec
CONSTANTS
  c1 = c1
  c2 = c2
  approval = approval
  question = question
  Calls = {c1, c2}
  Timed = {c1}
  Gated = {approval}
  Others = {question}
  MaxNotes = 1
  MaxOnTheWay = 3
  Unsettled = Unsettled
  Failed = Failed
PROPERTY CallsImplemented
PROPERTY CallReturns
PROPERTY RequestsAnswered
INVARIANT TypeOK
INVARIANT NoChannelLeaks
INVARIANT AnswerAfterEarlier
INVARIANT DecisionIsTheServers
\* The calls are made and the connection ends.
CHECK_DEADLOCK FALSE
