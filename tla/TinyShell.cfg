CONSTANTS MAXJOBS = 2
          MaxForks = 3
          MaxKeys = 1
          Builtins = {"jobs", "bg", "fg"}
          ExtSignals = {"KILL"}
SPECIFICATION Spec
INVARIANTS ShellConsistent
PROPERTIES KillsMissOnlyReaped
CHECK_DEADLOCK FALSE
