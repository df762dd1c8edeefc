--------------------------- MODULE MCGuestWindows ---------------------------
EXTENDS GuestWindows
MCSizes == {640, 800}
=============================================================================
