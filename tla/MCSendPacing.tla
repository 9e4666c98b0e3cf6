---------------------------- MODULE MCSendPacing ----------------------------
\* Instance of SendPacing: three threads, two transports and room for one; three
\* processes on one durable transport.
EXTENDS SendPacing

CONSTANTS t1, t2, t3, k1, k2, o1, o2, o3, o4, p, q, r

MCThreads == {t1, t2, t3}
MCKeys == {k1, k2}
MCObjects == {o1, o2, o3, o4}
MCMaxRounds == [t \in MCThreads |-> 2]
MCProcesses == {p, q, r}
=============================================================================
