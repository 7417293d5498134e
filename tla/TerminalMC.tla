----------------------------- MODULE TerminalMC -----------------------------
\* An instance of Terminal.
EXTENDS Terminal

\* All the editing on the keyboard; output, echo and delays on the UART.
MCKeys == [b \in Backends |->
             IF b = "kbd" THEN {0, 4, 10, 35, 64, 92} ELSE {3, 10}]
MCTyped == [b \in Backends |-> IF b = "kbd" THEN 4 ELSE 2]
MCCalls == [b \in Backends |-> IF b = "kbd" THEN 2 ELSE 3]

MCModes == {[raw |-> TRUE, delay |-> TRUE]}
MCTexts == {<<98, 10>>}
=============================================================================
