CONSTANTS
  t1 = t1
  bot = bot
  Tabs <- MCTabs
  Listeners <- MCListeners
  ringSize = 2
  subscriberBuffer = 1
  eventsBacklog = 2
  maxEvents = 2
  MaxHubs = 2
  MaxEvents = 3
SPECIFICATION Spec
INVARIANT OnlyRepeatsAreSkipped
