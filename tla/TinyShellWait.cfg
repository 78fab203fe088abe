CONSTANTS MAXJOBS = 2
          MaxForks = 2
          MaxKeys = 2
          Builtins = {"bg"}
          ExtSignals = {"KILL", "CONT"}
SPECIFICATION Spec
INVARIANTS ForegroundDiscipline StoppedJobIsST
PROPERTIES WaitfgReturns ZombiesAreReaped
CHECK_DEADLOCK FALSE
