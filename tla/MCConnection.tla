----------------------------- MODULE MCConnection -----------------------------
EXTENDS Connection

Setup(t, w, i) == [transport |-> t, workload |-> w, idle |-> i]

MCSetups == {Setup("ws", "bubbletea", FALSE), Setup("wt", "bubbletea", FALSE),
             Setup("ws", "command", TRUE)}
=============================================================================
