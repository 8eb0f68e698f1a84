SPECIFICATION Spec
CONSTANTS
  MaxFlows = 2
  MaxSteps = 2
  MaxOptions = 3
  FirstBots <- MCBots
  MaxBotEdits = 2
  MaxBotSaves = 2
  FirstSettings <- MCSettings
  FirstDetails <- MCDetails
  FirstNumbers <- MCNumbers
  MaxNumbers = 2
  MaxRanges = 2
  FirstServices <- MCServices
  MaxServices = 3
  MaxEdits = 3
  MaxSaves = 3
  MaxImages = 3
  FirstGalleries <- MCGalleries
  MaxGalleryCalls = 2
  Offer <- MCOffer
  MaxPicks = 4
  MaxSubmits = 2
  FirstChats <- MCChats
  MaxListCalls = 3
  MaxMessages = 2
  MaxPolls = 1
  Outcomes = {"deal"}
  FirstLeads <- MCLeads
  FirstBookings <- MCBookings
  MaxListSteps = 3
  MaxTurns = 4
  CrmStages = {"new", "won"}
  MaxCrmCalls = 2
INVARIANT PromptIsForActiveTab
INVARIANT ServicesSettle
INVARIANT GallerySettles
INVARIANT TimeBelongsToChoice
INVARIANT CustomerIsTold
INVARIANT ConversationsFollow
INVARIANT BubbleStays
INVARIANT OutcomeRecorded
INVARIANT ListsFollow
INVARIANT InStep
INVARIANT BackofficeFollows
PROPERTY BuilderKeepsItsWord
PROPERTY FormsKeepTheirWord
CHECK_DEADLOCK FALSE
