SPECIFICATION MergeSpec
CONSTANTS
    Sources = {"rf", "usb"}
    Kinds <- AllDevices
    Strays <- StrayHats
INVARIANTS MergedButtons MergedAxes
CHECK_DEADLOCK FALSE
