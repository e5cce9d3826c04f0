\* A write whose emit raised, and the calls after it.
SPECIFICATION RefusedThenFlushedSpec
CONSTANTS
  durable = durable  reference = reference  scratch = scratch
  Regions = {durable, reference, scratch}
  Keys = {"key"}
  Unset = Unset
  Policy <- Presets
  Sizes = {1, 2}
  MaxRecords = 3
  MaxFailing = 0
INVARIANT ReplayIsLive
CHECK_DEADLOCK FALSE
