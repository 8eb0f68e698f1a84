SPECIFICATION FairSpec
CONSTANTS
  FlowName <- MCFlowName
  Key <- MCKey
  NoLead = NoLead
  NoSweeper = NoSweeper
  Conv = {c1}
  Lead = {l1, l2, l3}
  Worker = {w1}
  Sweeper = {s1}
  Configs <- OneBot
  Inbound <- HandoffMessages
  Hour = 1
  OwnerOps = {}
  MaxInbound = 4
  MaxOwner = 0
  MaxFail = 1
  MaxTurnTicks = 0
PROPERTY LeadsSettle
PROPERTY HandoffsSettle
INVARIANT HandoffHasLead
