---------------------------- MODULE MCTaskQueue -----------------------------
(***************************************************************************)
(* Four runs of one user: two of one conversation and agent, two of other  *)
(* conversations without an agent.  The user's limit is two and the        *)
(* process's one, so a run that waits for the process owns a permit that   *)
(* a third waits for: when one leaves, its permits wake two at once, and a *)
(* fourth that comes before they run finds free permits it cannot take.    *)
(***************************************************************************)
EXTENDS TaskQueue

CONSTANTS r1, r2, r3, r4, c1, c2, c3, a1, u1

MCConversationOf == (r1 :> c1) @@ (r2 :> c1) @@ (r3 :> c2) @@ (r4 :> c3)
MCAgentOf == (r1 :> a1) @@ (r2 :> a1) @@ (r3 :> None) @@ (r4 :> None)
MCUserOf == [r \in Runs |-> u1]

=============================================================================
