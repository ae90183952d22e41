---------------------------- MODULE MCReportMerge ----------------------------
EXTENDS ReportMerge

AllDevices == Devices
StrayHats == {{}, {"dpadLeft"}}
=============================================================================
