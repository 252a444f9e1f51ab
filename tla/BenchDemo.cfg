CONSTANTS
  Board = {b1}
  MaxSession = 5
SPECIFICATION FairDemoSpec
INVARIANTS DemoTypeOK OneScriptAtATime BoxesOfOneClick
PROPERTY ClickReturns
CHECK_DEADLOCK FALSE
