---------------------------- MODULE MCTerminals ----------------------------
(***************************************************************************)
(* The input broker and the retained terminals of Codex and of Claude Code *)
(* and Cursor, side by side: a behaviour follows one of the three, so that *)
(* their states add up instead of multiplying.                             *)
(***************************************************************************)
EXTENDS InputBrokerProofs, TLC

CONSTANTS Components, Objects, Turns, Closers, Senders, Scopes, CodexBudgets, RetainedBudgets

VARIABLES component,
    registry, name, mu, scope, failed, lease, codexGate, proc, projected, codexPc, at, want, relaunched, budget,
    retAdapter, retRegistry, retName, retSession, terminal, retWork, retBudget

codexVars == <<registry, name, mu, scope, failed, lease, codexGate, proc, projected, codexPc, at, want,
               relaunched, budget>>
retainedVars == <<retAdapter, retRegistry, retName, retSession, terminal, retWork, retBudget>>

Codex == INSTANCE CodexSessionProofs WITH
    Sessions <- Objects, Budgets <- CodexBudgets, gate <- codexGate, pc <- codexPc
Retained == INSTANCE RetainedSessionProofs WITH
    Sessions <- Objects, Settings <- Scopes, Budgets <- RetainedBudgets,
    adapter <- retAdapter, registry <- retRegistry, name <- retName, session <- retSession,
    work <- retWork, budget <- retBudget

(* The hypothesis of the theorems about the retained sessions: their module *)
(* is instantiated here and so states it as an operator.                   *)
ASSUME RetainedAssumption == Retained!ConstantsFit

OneTerminal == [r \in Requests |-> CHOOSE s \in Sessions : TRUE]

(* Codex: two turns of different launches with a close and a kill from     *)
(* outside, and with live input; one turn with all of them.                *)
Calls(callers, scopes, times, sends, crashes) ==
    [callers |-> callers, scopes |-> scopes, calls |-> times, sends |-> sends, crashes |-> crashes]
CodexSafetyBudgets == {Calls(Turns \cup Closers, Scopes, 2, 0, 1),
                       Calls(Turns \cup Senders, Scopes, 2, 1, 0)}
                 \cup {Calls(Turns \cup Closers \cup Senders, {x}, 1, 1, 1) : x \in Scopes}

(* Claude Code and Cursor: None is the scope, or the settings, of calls    *)
(* that do not differ.                                                     *)
Retains(callers, scopes, settings, times, sends, crashes) ==
    [callers |-> callers, scopes |-> scopes, settings |-> settings,
     calls |-> times, sends |-> sends, crashes |-> crashes]
RetainedSafetyBudgets == {Retains(Turns \cup Closers, Scopes, {None}, 2, 0, 1),
                          Retains(Turns \cup Senders, {None}, Scopes, 2, 1, 0),
                          Retains(Turns \cup Closers \cup Senders, {None}, {None}, 1, 1, 1)}

(* A component that is not followed has one initial state.                 *)
TerminalsInit == /\ component \in Components
                 /\ Init /\ Codex!Init /\ Retained!Init
                 /\ component # "codex" => budget = CHOOSE b \in CodexBudgets : TRUE
                 /\ component # "retained" => /\ retAdapter = "claude"
                                             /\ retBudget = CHOOSE b \in RetainedBudgets : TRUE

TerminalsNext ==
    \/ component = "broker" /\ Next /\ UNCHANGED <<component, codexVars, retainedVars>>
    \/ component = "codex" /\ Codex!Next /\ UNCHANGED <<component, vars, retainedVars>>
    \/ component = "retained" /\ Retained!Next /\ UNCHANGED <<component, vars, codexVars>>

TerminalsSpec == TerminalsInit /\ [][TerminalsNext]_<<component, vars, codexVars, retainedVars>>

(* The three share model values, so that one symmetry serves all: some of  *)
(* the broker's requests are named like objects, its workers like turns.   *)
Symmetry == Permutations(Objects) \cup Permutations(Turns) \cup Permutations(Scopes)

-----------------------------------------------------------------------------
(* The broker's properties are checked under their own names, those of the *)
(* retained sessions as parts of their inductive invariants.               *)

(* The inductive invariant of the component that is followed, with its     *)
(* type invariant and explained in the module of the component's proofs.   *)
Invariants == /\ component = "broker" => IInv
              /\ component = "codex" => Codex!IInv
              /\ component = "retained" => Retained!IInv
=============================================================================
