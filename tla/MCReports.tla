------------------------------ MODULE MCReports ------------------------------
EXTENDS Reports

AllOfThem == AllKinds
ShortDebounce == [k \in AllKinds |-> CASE k = "keyboard" -> 3
                                        [] k = "ghl" -> 1 [] OTHER -> 2]
=============================================================================
