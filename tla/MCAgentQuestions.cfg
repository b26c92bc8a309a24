SPECIFICATION QuestionsSpec
CONSTANTS
  approval = approval
  async = async
  Requests = {approval}
  Asyncs = {async}
  MaxIncidents = 3
INVARIANTS ReceiptIsTrue AnswersReachOnce ReceivedIsTrue
PROPERTIES SubmissionIsDue ExecutionSettles 
CHECK_DEADLOCK FALSE
