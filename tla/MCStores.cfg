SPECIFICATION StoresSpec
CONSTANTS
  prompt = prompt
  queued = queued
  plain = plain
  answer = answer
  late = late
  b1 = b1
  b2 = b2
  NoBody = NoBody
  Commands = {prompt, plain, answer}
  Bodies = {b1, b2}
  Prompts = {prompt}
  Saved = {prompt}
  Answers = {answer}
  Late = {}
  worker = worker
  daemon = daemon
  peer = peer
  Nobody = Nobody
  Writers = {worker, daemon, peer}
  Managers = {daemon, peer}
  MaxLines = 2
  MaxDeaths = 1
  PageLimit = 1
  MaxChanges = 2
  Phones = {p1, p2}
  NoPhone = NoPhone
  Pollers = {app}
  MaxPairings = 2
  MaxRevoked = 2
  MaxLost = 1
SYMMETRY Exchange
INVARIANTS
  JournalInv
  OneRequestPerId
  TruthfulReceipts
  AppliedInOrder
  AnsweredChangesStay
  CurrentCopiesAgree
PROPERTIES
  
  ImplementsLog
  TrustIsKept
CHECK_DEADLOCK FALSE
