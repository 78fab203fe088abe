CONSTANTS MAXJOBS = 3
          MaxPid = 5
SPECIFICATION Spec
INVARIANTS SlotsCoherent PidsUnique JidFindsJobBeforeWrap
CHECK_DEADLOCK FALSE
