SPECIFICATION EsFairSpec
CONSTANTS
  e1 = e1
  e2 = e2
  Session = {e1, e2}
  Topic = {"block", "own"}
  Subscribed = {"block"}
PROPERTIES
  UpdatesArrive
CHECK_DEADLOCK FALSE
