SPECIFICATION Spec
CONSTANTS
  ada = ada
  ben = ben
  q1 = q1
  q2 = q2
  Authors <- MCAuthors
  Founder = ada
  Requests <- MCRequests
  Rules <- MCRules
  Threshold = 2
  MaxChanges = 2
  MaxEvents = 1
INVARIANT RulesTakeEffect
CHECK_DEADLOCK FALSE
