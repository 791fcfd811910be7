CONSTANTS
  Turns <- MCTurns
  Slots <- MCSlots
  ChoiceSlots <- OneChoice
  MaxEvents = 4
  MaxFaults = 1
SPECIFICATION FairSpec
CHECK_DEADLOCK FALSE
INVARIANTS
  TypeOK
  Delivered
  StoredBeforeEnd
  
PROPERTIES
  StreamHoldsBack
  ChunksPassOn
