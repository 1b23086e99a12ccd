----------------------- MODULE MCRoundRobinScheduler -----------------------
EXTENDS RoundRobinScheduler

\* Handle 3 is the only LE connection.
MCConnectionType == [h \in Handles |-> IF h = 3 THEN "LE" ELSE "CLASSIC"]
MCOneEach == [t \in Types |-> 1]
MCCredits == [t \in Types |-> IF t = "LE" THEN 1 ELSE 2]
=============================================================================
