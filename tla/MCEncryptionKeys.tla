--------------------------- MODULE MCEncryptionKeys ---------------------------
\* TLC instance of EncryptionKeys: two requests at a time, two passwords, one share.
EXTENDS EncryptionKeys, TLC

CONSTANTS c1, c2, p1, p2

MCRequests == {c1, c2}
MCPasswords == {p1, p2}

\* Requests are interchangeable, and so are passwords.
MCSymmetry == Permutations(MCRequests) \cup Permutations(MCPasswords)
==============================================================================
