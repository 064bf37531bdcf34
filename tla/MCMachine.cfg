SPECIFICATION MachineSpec
CONSTANTS
  MAX_PID = 2
  Freqs = {1024}
  MAX_NEST = 2
  Discipline = {"paced", "slow_rtc"}
  BootDiscipline = {"slow_pit"}
INVARIANTS MachineTypeOK NoLineBlocked DividerKept NoCrash
PROPERTIES ReadWaits ReadReturns GetsToShell
CHECK_DEADLOCK FALSE
