SPECIFICATION Spec
CONSTANTS
  FlowName <- MCFlowName
  Key <- MCKey
  NoLead = NoLead
  NoSweeper = NoSweeper
  Conv = {c1}
  Lead = {l1, l2, l3}
  Worker = {w1}
  Sweeper = {}
  Configs <- EditedBots
  Inbound <- SerialMessages
  Hour = 1
  OwnerOps = {"status", "reply", "lead_status", "delete", "save_bot"}
  MaxInbound = 5
  MaxOwner = 1
  MaxFail = 1
  MaxTurnTicks = 0
SYMMETRY Symmetry
INVARIANT TypeOK
INVARIANT FreshStartAfterClose
PROPERTY CompletedLeadKeepsAnswers
