SPECIFICATION ServicesSpec
CONSTANTS
  prompt = prompt
  queued = queued
  plain = plain
  answer = answer
  late = late
  b1 = b1
  b2 = b2
  NoBody = NoBody
  Commands = {prompt, queued, late}
  Bodies = {b1}
  Prompts = {prompt, queued}
  Saved = {prompt}
  Answers = {}
  Late = {late}
  Phones = {p1}
  NoPhone = NoPhone
  Pollers = {app}
  MaxPairings = 2
  MaxRevoked = 1
  MaxLost = 1
PROPERTIES
  SavedPromptSettles
  ApprovalSettles
  SignInRecovers
CHECK_DEADLOCK FALSE
