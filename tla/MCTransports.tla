---------------------------- MODULE MCTransports ----------------------------
(***************************************************************************)
(* The safety of the transports over pipes: RPC sessions (Codex app-server *)
(* and Pi), Agent SDK sessions, agy on ACP and muse on MSP.  They do not   *)
(* touch each other: a behaviour follows one of them, so that their states *)
(* add up instead of multiplying.                                          *)
(***************************************************************************)
EXTENDS RpcSession, AcpSession, SdkSession, MspSession, TLC

CONSTANTS Components, MaxSwings, MaxEvents

VARIABLE component

(* One SDK session with outside events, and two without.                   *)
SdkBudgets == {[launches |-> 1, swings |-> MaxSwings, events |-> MaxEvents],
               [launches |-> 2, swings |-> 1, events |-> 0]}

(* The component that is not followed has one initial state.               *)
TransportsInit == /\ component \in Components
                  /\ Init /\ SdkInit /\ AcpInit /\ MspInit
                  /\ component # "rpc" => adapter = "codex"
                  /\ component # "sdk" => budget = CHOOSE b \in Budgets : TRUE

Only(c) == component = c /\ UNCHANGED component

(* RPC sessions are followed with closes and without live input, and with  *)
(* live input and without closes.                                          *)
Unsteered == \A d \in Senders : At(d, "idle")
Unclosed == counts.closes = 0

TransportsNext ==
    \/ Only("rpc") /\ Next /\ Unsteered' /\ UNCHANGED <<sdkVars, acpVars, mspVars>>
    \/ Only("steer") /\ Next /\ Unclosed' /\ UNCHANGED <<sdkVars, acpVars, mspVars>>
    \/ Only("sdk") /\ SdkNext /\ UNCHANGED <<vars, acpVars, mspVars>>
    \/ Only("acp") /\ AcpNext /\ UNCHANGED <<vars, sdkVars, mspVars>>
    \/ Only("msp") /\ MspNext /\ UNCHANGED <<vars, sdkVars, acpVars>>

TransportsSpec == TransportsInit /\ [][TransportsNext]_<<component, vars, sdkVars, acpVars, mspVars>>

Symmetry == Permutations(Calls) \cup Permutations(Scopes)

(* The properties are checked under the names they have in their modules.  *)
=============================================================================
