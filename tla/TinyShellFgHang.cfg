CONSTANTS MAXJOBS = 1
          MaxForks = 1
          MaxKeys = 0
          Builtins = {"fg"}
          ExtSignals = {}
SPECIFICATION Spec
PROPERTY WaitfgReturns
CHECK_DEADLOCK FALSE
