SPECIFICATION Spec
CONSTANTS
  FlowName <- MCFlowName
  Key <- MCKey
  NoLead = NoLead
  NoSweeper = NoSweeper
  Conv = {c1}
  Lead = {l1, l2, l3}
  Worker = {w1}
  Sweeper = {}
  Configs <- OneBot
  Inbound <- FlowMessages
  Hour = 1
  OwnerOps = {"status"}
  MaxInbound = 4
  MaxOwner = 1
  MaxFail = 0
  MaxTurnTicks = 0
SYMMETRY Symmetry
PROPERTY TakeoverSurvivesTurn
