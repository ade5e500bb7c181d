--------------------------- MODULE MCCodexSession ---------------------------
EXTENDS CodexSession, TLC
CONSTANTS t1, c1, d1, x1

Symmetry == Permutations(Sessions) \cup Permutations(Turns) \cup Permutations(Scopes)

Budget(callers, scopes, calls, sends, crashes) ==
    [callers |-> callers, scopes |-> scopes, calls |-> calls, sends |-> sends, crashes |-> crashes]

RestoreBudgets == {Budget(Turns \cup Closers, Scopes, 3, 0, 0)}

(* Liveness is checked without symmetry: a turn, a close, live input and a *)
(* kill from outside, together and by twos with a second turn; two turns   *)
(* that wait for each other; a turn that replaces another scope's session. *)
LivenessBudgets == {Budget({t1, c1, d1}, {x1}, 1, 1, 1),
                    Budget({t1, c1}, {x1}, 2, 0, 1),
                    Budget({t1, d1}, {x1}, 2, 1, 0),
                    Budget(Turns, {x1}, 2, 0, 0),
                    Budget({t1}, Scopes, 2, 0, 1)}
=============================================================================
