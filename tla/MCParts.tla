------------------------------ MODULE MCParts ------------------------------
(***************************************************************************)
(* The parts with proofs, side by side: the job service, the idle lease,   *)
(* drafts, the owners of native replies and projected files.  They do not  *)
(* touch each other: a behaviour follows one of them, so that their states *)
(* add up instead of multiplying.                                          *)
(***************************************************************************)
EXTENDS PartsProofs, TLC

CONSTANT Components

VARIABLE component

(* A component that is not followed has one initial state.                 *)
PartsInit == /\ component \in Components
             /\ Init /\ LeaseInit /\ DraftInit /\ ReplyInit /\ ProjectInit
             /\ component # "project" => ~file.text /\ rules = "none"

Only(c) == component = c /\ UNCHANGED component

PartsNext ==
    \/ Only("job")     /\ Next        /\ UNCHANGED <<leaseVars, draftVars, replyVars, projectVars>>
    \/ Only("lease")   /\ LeaseNext   /\ UNCHANGED <<vars, draftVars, replyVars, projectVars>>
    \/ Only("draft")   /\ DraftNext   /\ UNCHANGED <<vars, leaseVars, replyVars, projectVars>>
    \/ Only("replies") /\ ReplyNext   /\ UNCHANGED <<vars, leaseVars, draftVars, projectVars>>
    \/ Only("project") /\ ProjectNext /\ UNCHANGED <<vars, leaseVars, draftVars, replyVars>>

PartsSpec == PartsInit /\ [][PartsNext]_<<component, vars, leaseVars, draftVars, replyVars, projectVars>>

(* The properties of the parts are checked under their own names.          *)
Symmetry == Permutations(Clients)
=============================================================================
