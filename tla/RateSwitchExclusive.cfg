SPECIFICATION Spec
CONSTANTS
  RESET_HOLD_CYCLES = 1
  TX_QUIESCE_TIMEOUT = 1
  DRP_TIMEOUT_CYCLES = 1
  LOCK_TIMEOUT_CYCLES = 1
  VERIFY_SETTLE_CYCLES = 1
  MMCM_TABLE_LEN = 3
  FbEntry = 0
  OutEntry = 1
  BusyRequestIds = {}
INVARIANTS
  VerifiedMmcmTable
  CurrentRateSupported
