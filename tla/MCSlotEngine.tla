--------------------------- MODULE MCSlotEngine ---------------------------
(* Small instances of SlotEngine.  Conversation A has two turns, C and D   *)
(* one; "x" is the client's echo of A's first reply in the cold render.    *)
EXTENDS SlotEngine

Convos == [A1 |-> << "a" >>, A2 |-> << "a", "b" >>, C1 |-> << "c" >>, D1 |-> << "d" >>]
Prompts == [A1 |-> << "a" >>, A2 |-> << "a", "x", "b" >>,
            C1 |-> << "c", "c" >>, D1 |-> << "d", "d" >>]
Suffixes == [A1 |-> << >>, A2 |-> << "b" >>, C1 |-> << >>, D1 |-> << >>]
Limits == [A1 |-> 2, A2 |-> 2, C1 |-> 1, D1 |-> 2]

MCConvo == [q \in Requests |-> Convos[q]]
MCPrompt == [q \in Requests |-> Prompts[q]]
MCContinuation == [q \in Requests |-> Suffixes[q]]
MCMaxTokens == [q \in Requests |-> Limits[q]]

\* A and D start with one token each and decode side by side.
MCPromptSideBySide == [MCPrompt EXCEPT !["D1"] = << "d" >>]
MCMaxTokensSideBySide == [MCMaxTokens EXCEPT !["A2"] = 1, !["D1"] = 3]
=============================================================================
