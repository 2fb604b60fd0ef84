SPECIFICATION Spec
CONSTANTS
  PemFiles = {"env", "a"}
  Services <- MCServices
  Jobs <- MCJobs
  ProgramOf <- MCProgramOf
  Starts <- MCStarts
  NoJob = NoJob
  NoCfg = NoCfg
  NoReg = NoReg
  NoAddr = NoAddr
  AddrsWithPort <- MCAddrs
  Names <- MCNames
  MaxFails = 1
  MaxLosses = 2
INVARIANTS LastSourceWins AddressFixed AnnouncedServed CheckAnswered
PROPERTIES StaysRegistered
CHECK_DEADLOCK FALSE
