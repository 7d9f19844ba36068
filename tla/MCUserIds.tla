------------------------------ MODULE MCUserIds ------------------------------
(* Model-checking instance of UserIds: three ids, one extra domain string.    *)
EXTENDS UserIds

CONSTANTS i1, i2, i3
MCIds == {i1, i2, i3}
MCOtherKeys == {"tapad"}
=============================================================================
