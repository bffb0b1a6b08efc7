---------------------------- MODULE CommandLedger ----------------------------
(***************************************************************************)
(* What LabManager promises to the callers of one laboratory, whatever     *)
(* interleaves, fails or crashes: a command is decided at most once, while *)
(* its caller waits; the decision is never undone; and the caller is told  *)
(* "ok" or "rejected" only of the decision that was made, and "error" only *)
(* if none was and none ever will be.  A caller cut off by a crash learns  *)
(* nothing.  A query (a tick, a read) decides nothing.                     *)
(***************************************************************************)
CONSTANT Requests

VARIABLES
    commands,   \* the requests sent so far that are commands
    decision,   \* per request: "none", "applied" or "rejected"
    reply       \* per request: "unsent", "pending" or what its caller was told

vars == <<commands, decision, reply>>

Init ==
    /\ commands = {}
    /\ decision = [r \in Requests |-> "none"]
    /\ reply = [r \in Requests |-> "unsent"]

Send(r) ==
    /\ reply[r] = "unsent"
    /\ reply' = [reply EXCEPT ![r] = "pending"]
    /\ commands' \in {commands, commands \cup {r}}
    /\ UNCHANGED decision

Decide(r) ==
    /\ r \in commands /\ reply[r] = "pending" /\ decision[r] = "none"
    /\ \E d \in {"applied", "rejected"} : decision' = [decision EXCEPT ![r] = d]
    /\ UNCHANGED <<commands, reply>>

Outcomes(r) ==
    CASE decision[r] = "applied"  -> {"ok"}
      [] decision[r] = "rejected" -> {"rejected"}
      [] decision[r] = "none"     -> IF r \in commands THEN {"error"}
                                     ELSE {"ok", "error"}

Reply(r) ==
    /\ reply[r] = "pending"
    /\ \E told \in Outcomes(r) : reply' = [reply EXCEPT ![r] = told]
    /\ UNCHANGED <<commands, decision>>

Crash ==
    /\ reply' = [r \in Requests |-> IF reply[r] = "pending" THEN "lost" ELSE reply[r]]
    /\ UNCHANGED <<commands, decision>>

Next == Crash \/ \E r \in Requests : Send(r) \/ Decide(r) \/ Reply(r)

Spec == Init /\ [][Next]_vars

=============================================================================
