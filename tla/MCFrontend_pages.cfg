SPECIFICATION FairSpec
CONSTANTS
  link = link
  title = title
  motto = motto
  update = update
  config = config
  config2 = config2
  Topics <- AllTopics
  NoTopic = NoTopic
  Calls = {update, config, config2}
  TopicOf <- Mixed
  Nothing = Nothing
  Faults = {"broker", "store", "frontend"}
  MaxRestarts = 1
  FriendTopic <- FriendUpdateTopic
  RevalidateTopic <- RevalidateUpdateTopic
  Links = {link}
  Keys = {title, motto}
  Creates = {}
  Updates = {update}
  Configs = {config, config2}
  WritesOf <- Writes
  Initially = Initially
  Dropped = Dropped
  Visits = {visit}
  visit = visit
CHECK_DEADLOCK FALSE
INVARIANTS OnlyOverlapMisroutes AtMostOnce PageFollowsData
PROPERTIES EventuallyFollows
