SPECIFICATION StoreSpec
PROPERTIES
  IsAtomic
  EveryCallEnds
CONSTANTS
  open1 = open1
  voucher1 = voucher1
  close1 = close1
  voucher2 = voucher2
  c1 = c1
  c2 = c2
  Free = Free
  Updates <- MCUpdates
  Creating <- MCCreating
  Keys <- MCKeys
  KeyOf <- MCKeyOf
CHECK_DEADLOCK FALSE
