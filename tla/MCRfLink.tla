------------------------------ MODULE MCRfLink ------------------------------
EXTENDS RfLink

OwnTypes == [d \in Transmitters |-> IF d = 1 THEN "ored" ELSE "copied"]
Held1 == {1}
=============================================================================
