SPECIFICATION Spec
CONSTANTS
  batt_list = batt_list  modules = modules
  End = 19
  PageSize = 4
  FillSize = 16
  Key <- MCKey
  idOf <- MCidOf
  Data <- MCData
  Crc <- MCCrc
  FailInErase = FALSE
INVARIANT FirstAvailableBlock
