SPECIFICATION Spec
CONSTANTS
  Calls <- MCCalls
  Replies <- MCReplies
  NameOf <- MCNameOf
  RecvMax = 12
INVARIANTS
  FirstReadIsCallOrDefaults
  ReplyIsCut
  ReadsBack
PROPERTY WholeIsAnswered
CHECK_DEADLOCK FALSE
