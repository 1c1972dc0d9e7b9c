---------------------------- MODULE RequestFate ----------------------------
(***************************************************************************)
(* What a client is promised for its requests, whatever happens on the way *)
(* to the session actor and back: a request has one answer, the answer is  *)
(* written at most once, and only a connection that has ended takes        *)
(* requests or answers with it.                                            *)
(***************************************************************************)

CONSTANTS Requests, Conns

VARIABLES
    fate,    \* what became of each request
    there    \* connections that have not ended

Unsent == [at |-> "unsent"]
Delivered == [at |-> "delivered"]
Dropped == [at |-> "dropped"]
Underway == [at : {"open", "answered"}, conn : Conns]

Fates == {Unsent, Delivered, Dropped} \cup Underway

\* The steps a request may take while the session works.
Answered(old, new) == old.at = "open" /\ new = [old EXCEPT !.at = "answered"]
Written(old, new) == old.at = "answered" /\ old.conn \in there /\ new = Delivered
Lost(old, new) == old \in Underway /\ old.conn \notin there' /\ new = Dropped

Init == fate = [r \in Requests |-> Unsent] /\ there = Conns

Send(r, c) ==
    /\ fate[r] = Unsent
    /\ fate' = [fate EXCEPT ![r] = [at |-> "open", conn |-> c]]
    /\ UNCHANGED there

\* One event of the session may settle several requests.
Work ==
    /\ there' \subseteq there
    /\ fate' \in [Requests -> Fates]
    /\ \A r \in Requests :
           \/ fate'[r] = fate[r]
           \/ Answered(fate[r], fate'[r])
           \/ Written(fate[r], fate'[r])
           \/ Lost(fate[r], fate'[r])

Next == Work \/ \E r \in Requests, c \in Conns : Send(r, c)

Spec == Init /\ [][Next]_<<fate, there>>
=============================================================================
