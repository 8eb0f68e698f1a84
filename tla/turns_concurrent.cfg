SPECIFICATION Spec
CONSTANTS
  FlowName <- MCFlowName
  Key <- MCKey
  NoLead = NoLead
  NoSweeper = NoSweeper
  Conv = {c1, c2}
  Lead = {l1, l2, l3, l4}
  Worker = {w1, w2}
  Sweeper = {}
  Configs <- OneBot
  Inbound <- FlowMessages
  Hour = 1
  OwnerOps = {"delete"}
  MaxInbound = 5
  MaxOwner = 1
  MaxFail = 1
  MaxTurnTicks = 0
SYMMETRY Symmetry
INVARIANT LeadPointerSound
INVARIANT AnswersMatchStep
PROPERTY CompletionIsFull
