CONSTANTS
  StackLimit = 18
  MaxCode = 9
  slotA = slotA
  slotB = slotB
SPECIFICATION MCSpec
INVARIANTS AccessInBounds MemorySound RefundsSound ClassesSound ProcessingSound
PROPERTIES FramesSound
