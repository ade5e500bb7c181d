---------------------------- MODULE ProjectFile ----------------------------
(***************************************************************************)
(* The instruction files that sessions put into a project folder           *)
(* (pkg/projectfile/projectfile.go): a marked block in a file they share   *)
(* with the user (AGENTS.md), and a file they own while they run (Cursor's *)
(* rules and hooks).  Holds are counted in the memory of each process, and *)
(* several processes (worker commands) may use the folder.  A call is one  *)
(* action: it holds the process's mutex, and another process or the user   *)
(* writing between its read and its write is not modelled.                 *)
(***************************************************************************)
EXTENDS Naturals, FiniteSets

CONSTANTS
    Workers,    \* processes that run sessions in the folder
    MaxHolds,   \* bound: holds of one process on one file
    MaxEdits,   \* bound: edits of the user
    MaxDeaths   \* bound: processes that die

VARIABLES
    file,      \* the shared file: exists, text (the user's), block, and the
               \*   block's created flag
    rules,     \* the owned file: "none", "user" or "session" content
    held,      \* per process: holders[path].count
    owned,     \* per process: the owned hold, count and prior content
    user,      \* history: text and rules as the user left them
    strayed,   \* history: an owned hold died, or overlapped another process's
    edits, deaths

projectVars == <<file, rules, held, owned, user, strayed, edits, deaths>>

NoFile == [exists |-> FALSE, text |-> FALSE, block |-> FALSE, created |-> FALSE]
NoHold == [count |-> 0, prior |-> "none"]

ProjectInit == /\ \E text \in BOOLEAN, content \in {"none", "user"} :
                   /\ file = [NoFile EXCEPT !.exists = text, !.text = text]
                   /\ rules = content
                   /\ user = [text |-> text, rules |-> content]
               /\ held = [w \in Workers |-> 0]
               /\ owned = [w \in Workers |-> NoHold]
               /\ strayed = FALSE
               /\ edits = 0 /\ deaths = 0

-----------------------------------------------------------------------------
(* The block in the shared file.                                           *)

(* A block that is already there tells whether the file was ours.          *)
WriteBlock(f, first) ==
    [exists |-> TRUE, text |-> f.text, block |-> TRUE,
     created |-> \/ ~f.exists
                 \/ f.block /\ f.created /\ ~f.text
                 \/ ~f.block /\ ~first /\ ~f.text]

(* Variants named Faulty... put one bug into the definition that follows:  *)
(* they show that a property notices it, and nothing else uses them.       *)
FaultyStripBlock(f) == IF f.block /\ f.created THEN NoFile
                       ELSE [f EXCEPT !.block = FALSE, !.created = FALSE]

StripBlock(f) == IF f.block /\ f.created /\ ~f.text THEN NoFile
                 ELSE [f EXCEPT !.block = FALSE, !.created = FALSE]

Acquire(w) ==
    /\ held[w] < MaxHolds
    /\ file' = WriteBlock(file, held[w] = 0)
    /\ held' = [held EXCEPT ![w] = @ + 1]
    /\ UNCHANGED <<rules, owned, user, strayed, edits, deaths>>

Release(w) ==
    /\ held[w] > 0
    /\ held' = [held EXCEPT ![w] = @ - 1]
    /\ file' = IF held[w] = 1 THEN StripBlock(file) ELSE file
    /\ UNCHANGED <<rules, owned, user, strayed, edits, deaths>>

StripStale(w) ==
    /\ held[w] = 0 /\ file.block
    /\ file' = StripBlock(file)
    /\ UNCHANGED <<rules, held, owned, user, strayed, edits, deaths>>

-----------------------------------------------------------------------------
(* The owned file.                                                         *)

AcquireOwned(w) ==
    /\ owned[w].count < MaxHolds
    /\ owned' = [owned EXCEPT ![w] = [count |-> @.count + 1, prior |-> IF @.count = 0 THEN rules ELSE @.prior]]
    /\ rules' = "session"
    /\ strayed' = (strayed \/ \E v \in Workers \ {w} : owned[v].count > 0)
    /\ UNCHANGED <<file, held, user, edits, deaths>>

ReleaseOwned(w) ==
    /\ owned[w].count > 0
    /\ owned' = [owned EXCEPT ![w] = IF @.count = 1 THEN NoHold ELSE [count |-> @.count - 1, prior |-> @.prior]]
    /\ rules' = IF owned[w].count = 1 THEN owned[w].prior ELSE rules
    /\ UNCHANGED <<file, held, user, strayed, edits, deaths>>

-----------------------------------------------------------------------------
(* What else happens in the folder.                                        *)

Dies(w) ==
    /\ deaths < MaxDeaths /\ deaths' = deaths + 1
    /\ held' = [held EXCEPT ![w] = 0]
    /\ owned' = [owned EXCEPT ![w] = NoHold]
    /\ strayed' = (strayed \/ owned[w].count > 0)
    /\ UNCHANGED <<file, rules, user, edits>>

(* The user writes or erases text, cuts the block out, deletes the file.   *)
UserEdits ==
    /\ edits < MaxEdits /\ edits' = edits + 1
    /\ \/ file' = [file EXCEPT !.exists = TRUE, !.text = TRUE]
       \/ file' = [file EXCEPT !.text = FALSE]
       \/ file' = [file EXCEPT !.block = FALSE, !.created = FALSE]
       \/ file' = NoFile
    /\ user' = [user EXCEPT !.text = file'.text]
    /\ UNCHANGED <<rules, held, owned, strayed, deaths>>

ProjectNext == \/ \E w \in Workers : \/ Acquire(w) \/ Release(w) \/ StripStale(w)
                                     \/ AcquireOwned(w) \/ ReleaseOwned(w) \/ Dies(w)
               \/ UserEdits

ProjectSpec == ProjectInit /\ [][ProjectNext]_projectVars

-----------------------------------------------------------------------------
(* Sessions write "without destroying what the project already has there". *)
(* The user's text outlives every order of sessions, crashes and edits;    *)
(* when the last session is done the block is gone unless a process died,  *)
(* and the owned file is the user's again unless its holder died or two    *)
(* processes held it: each then takes the other's content for the user's.  *)
Unheld(count) == \A w \in Workers : count[w] = 0
OwnedCounts == [w \in Workers |-> owned[w].count]
UsersContentStays ==
    /\ file.text = user.text
    /\ Unheld(held) /\ deaths = 0 => ~file.block
    /\ Unheld(OwnedCounts) /\ ~strayed => rules = user.rules
=============================================================================
