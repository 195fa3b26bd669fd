---------------------------- MODULE MCLwipTimers ----------------------------
EXTENDS LwipTimers

\* 8, 12 and 20 ms stand for 250 ms, 1 s and 5 s; a tick is 2 ms where the code's is 5.
MCInterval == [h \in Timers |-> CASE h = "tcp" -> 8 [] h = "ip" -> 12 [] h = "arp" -> 20]
=============================================================================
