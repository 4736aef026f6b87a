--------------------------- MODULE MCUringSocket ----------------------------
(* The rings of a socket, with bytes numbered by their position.  Two      *)
(* tasks have the socket at a time: the roles that meet at one ring.       *)
EXTENDS UringSocket

CONSTANTS r1, r2, w1, w2, c1

MCByte == 0..Wrap - 1

MCGroups == {{r1, r2}, {r1, c1}, {w1, w2}, {w1, c1}}
=============================================================================
