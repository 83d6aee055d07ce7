----------------------------- MODULE MC_Download -----------------------------
\* A right patch, encrypted, that expires at the end of time, and one that
\* expires before and gives a wrong image.
EXTENDS Download

CONSTANTS right, wrong

McVerdict == [s \in Streams |-> IF s = right THEN "ok" ELSE "image"]
McExpires == [s \in Streams |-> IF s = right THEN LastTime ELSE 1]
=============================================================================
