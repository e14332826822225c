------------------------------ MODULE MCUpload ------------------------------
\* Connections c1 and c2 are of u1, c3 of u2 and c4 of u3.
EXTENDS UploadManager

CONSTANTS c1, c2, c3, c4, u1, u2, u3

MCUserOf == [c \in Conns |-> IF c \in {c1, c2} THEN u1 ELSE IF c = c3 THEN u2 ELSE u3]

\* No hook grants a slot.
MCNoGrants == [u \in Users |-> {"none"}]
\* The hooks know u2: he gets a slot, a slot for one file, or is rejected.
MCFileGrants == [u \in Users |-> IF u = u2 THEN {"user", "file", "reject"} ELSE {"none"}]
\* u2 is a favourite user with an automatic slot.
MCUserGrants == [u \in Users |-> IF u = u2 THEN {"none", "user"} ELSE {"none"}]
=============================================================================
