------------------------------- MODULE MCLive -------------------------------
(***************************************************************************)
(* What must eventually happen in the transports over pipes, side by side: *)
(* a behaviour follows one of them and its fairness, so that their states  *)
(* add up instead of multiplying.                                          *)
(***************************************************************************)
EXTENDS Naturals, Nothing

CONSTANTS Components,
    Sessions, Procs, Calls, Closers, Callbacks, Senders, Scopes, MaxCalls, MaxCloses, MaxTurns,
    Sdks, Turns, MaxLines, MaxSwings, MaxEvents,
    Acps, Prompts, Enders, Prints, MaxChunks,
    Chats, Sends, Natives, Host, MaxWakes, MaxAsks

VARIABLES component,
    adapter, registry, session, process, work, counts,
    kept, active, sdk, bridge, turns, closer, shown, budget,
    slot, acp, prompt, ender, said, overwritten,
    msp, chat, send, native, posted

rpcVars == <<adapter, registry, session, process, work, counts>>
sdkVars == <<kept, active, sdk, bridge, turns, closer, shown, budget>>
acpVars == <<slot, acp, prompt, ender, said, overwritten>>
mspVars == <<msp, chat, send, native, posted>>

Budgets == {[launches |-> 1, swings |-> MaxSwings, events |-> MaxEvents]}

Rpc == INSTANCE RpcSession
Sdk == INSTANCE SdkSession
Acp == INSTANCE AcpSession
Msp == INSTANCE MspSession

(* Muse either runs turns on its own or asks something: both at once is    *)
(* too much for two calls.                                                 *)
Woken == INSTANCE MspSession WITH MaxAsks <- 0
Asking == INSTANCE MspSession WITH MaxWakes <- 0

(* A component that is not followed has one initial state.                 *)
Init == /\ component \in Components
        /\ Rpc!Init /\ Sdk!SdkInit /\ Acp!AcpInit /\ Msp!MspInit
        /\ component # "rpc" => adapter = "codex"

Only(c) == component = c /\ UNCHANGED component

Next == \/ Only("rpc") /\ Rpc!Next /\ UNCHANGED <<sdkVars, acpVars, mspVars>>
        \/ Only("sdk") /\ Sdk!SdkNext /\ UNCHANGED <<rpcVars, acpVars, mspVars>>
        \/ Only("acp") /\ Acp!AcpNext /\ UNCHANGED <<rpcVars, sdkVars, mspVars>>
        \/ Only("msp wakes") /\ Woken!MspNext /\ UNCHANGED <<rpcVars, sdkVars, acpVars>>
        \/ Only("msp asks") /\ Asking!MspNext /\ UNCHANGED <<rpcVars, sdkVars, acpVars>>

Spec == Init /\ [][Next]_<<component, rpcVars, sdkVars, acpVars, mspVars>>

(* What is fair in a component is disabled while another one is followed.  *)
FairSpec == Spec /\ Rpc!Fairness /\ Sdk!SdkFairness /\ Acp!AcpFairness /\ Msp!MspFairness

-----------------------------------------------------------------------------
(* The properties of the four INSTANCEs, each explained there.             *)

(* The owner's registry empties and every call and close returns.          *)
ComesToRest == Rpc!ComesToRest
(* Every bridge process ends.                                              *)
BridgesEnd == Sdk!BridgesEnd
(* A prompt to agy that was cancelled returns.                             *)
StoppedTurnsEnd == Acp!StoppedTurnsEnd
(* Turns of muse see their end, and calls behind them their turn.          *)
TurnsReturn == Msp!TurnsReturn
=============================================================================
