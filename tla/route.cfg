CONSTANTS
  Net <- ChainNet
  Pin <- ChainPin
  Inst <- ChainInst
  InstOf <- ChainInstOf
  Buffer <- ChainBuffer
  Place <- ChainPlace
  InitNets <- ChainNet
  InitNetOf <- ChainNetOf
  InitPlace <- ChainPlaces
  NoNet = NoNet
  Fixed = {"driver"}
  NoUndo = NoUndo
  MaxEdits = 3
SPECIFICATION Spec
INVARIANTS CleanRoutesHold ListenerSeesNets UsageAccounted GuidesHold
\* The bound on edits is reached, or a null pointer was used.
CHECK_DEADLOCK FALSE
