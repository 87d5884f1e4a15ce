--------------------------- MODULE RequestResponse --------------------------
(***************************************************************************)
(* What a correlated request with a timeout promises the one who waits: it *)
(* ends, exactly once; it ends with an answer only if the peer gave one;   *)
(* and an answer that comes too late changes nothing.                      *)
(***************************************************************************)
CONSTANT Requests

VARIABLES
    status,     \* "new", "open", "answered" or "failed"
    replies     \* requests the peer has replied to, in time or not

vars == <<status, replies>>

Init ==
    /\ status = [r \in Requests |-> "new"]
    /\ replies = {}

Open(r) ==
    /\ status[r] = "new"
    /\ status' = [status EXCEPT ![r] = "open"]
    /\ UNCHANGED replies

Reply(r) ==
    /\ status[r] # "new"
    /\ replies' = replies \cup {r}
    /\ UNCHANGED status

Answer(r) ==
    /\ status[r] = "open"
    /\ r \in replies
    /\ status' = [status EXCEPT ![r] = "answered"]
    /\ UNCHANGED replies

Fail(r) ==
    /\ status[r] = "open"
    /\ status' = [status EXCEPT ![r] = "failed"]
    /\ UNCHANGED replies

Next == \E r \in Requests : Open(r) \/ Reply(r) \/ Answer(r) \/ Fail(r)

Spec ==
    /\ Init
    /\ [][Next]_vars
    /\ \A r \in Requests : WF_vars(Answer(r) \/ Fail(r))
=============================================================================
