\* Two disks; MAX_LUNS just above the length of the list, as in the code.
CONSTANTS
  Luns = {"sda", "sdb"}
  BlkDevFile = "sda"
  SwapList <- MCSwapList
  Layouts <- MCLayouts
  Unresolved <- MCUnresolved
  PtnLists <- MCPtnLists
  MAX_LUNS = 9
SPECIFICATION DevicesSpec
INVARIANTS LookupExact SecondaryAsAsked NothingLost
