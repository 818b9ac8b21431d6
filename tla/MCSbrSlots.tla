---------------------------- MODULE MCSbrSlots -----------------------------
EXTENDS SbrSlots

Header(b) == [bands |-> b, tuning |-> 1]
StreamConfigs == {Header(1), Header(2), Header(3)}
BadConfigs == {Header(3)}
=============================================================================
