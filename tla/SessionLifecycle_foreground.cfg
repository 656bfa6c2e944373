SPECIFICATION LifeSpec
CONSTANTS MaxOutput = 1
PROPERTIES ForegroundReturns
CHECK_DEADLOCK FALSE
