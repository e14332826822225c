--------------------------- MODULE MCSearchQueue ---------------------------
\* Three searches, two of one owner and an anonymous one, of two priorities.
EXTENDS SearchQueue

CONSTANTS s1, s2, s3, o1

MCOwner == [s \in Searches |-> IF s = s3 THEN NoOwner ELSE o1]
MCPriority == [s \in Searches |-> IF s = s1 THEN 3 ELSE 5]
=============================================================================
