--------------------------- MODULE PublishContract ---------------------------
(***************************************************************************)
(* What publish() promises its caller, with no connection, channel or      *)
(* retry in sight: a call is open, the broker may take at most two copies  *)
(* of its message, before or after the call ends, and the call may return  *)
(* normally only once a copy is safely with the broker.  Producer is shown *)
(* to implement this.                                                      *)
(***************************************************************************)
EXTENDS Integers

CONSTANTS
    Messages,    \* one publish() call each
    Transient    \* messages the application lets be lost with a node

VARIABLES
    result,      \* how each call came back
    accepted     \* copies the broker took

contractVars == <<result, accepted>>

Skipped == {"skipped", "typeerror"}

Init ==
    /\ result = [m \in Messages |-> "new"]
    /\ accepted = {}

\* The call starts, or the decorated function gave nothing to publish
Begin(m) ==
    /\ result[m] = "new"
    /\ result' = [result EXCEPT ![m] = "pending"]
    /\ UNCHANGED accepted

Skip(m) ==
    /\ result[m] = "new"
    /\ \E outcome \in Skipped : result' = [result EXCEPT ![m] = outcome]
    /\ UNCHANGED accepted

\* The broker takes a copy sent by a call that was made
Accept(m) ==
    /\ result[m] \notin Skipped \cup {"new"}
    /\ \E n \in 1..2 : accepted' = accepted \cup {[msg |-> m, try |-> n]}
    /\ UNCHANGED result

Return(m) ==
    /\ result[m] = "pending"
    /\ m \in Transient \/ \E copy \in accepted : copy.msg = m
    /\ result' = [result EXCEPT ![m] = "ok"]
    /\ UNCHANGED accepted

Raise(m) ==
    /\ result[m] = "pending"
    /\ result' = [result EXCEPT ![m] = "raised"]
    /\ UNCHANGED accepted

\* A node goes down with transient messages
NodeLoss ==
    /\ accepted' = {copy \in accepted : copy.msg \notin Transient}
    /\ UNCHANGED result

Next ==
    \/ \E m \in Messages : Begin(m) \/ Skip(m) \/ Accept(m) \/ Return(m) \/ Raise(m)
    \/ NodeLoss

Spec == Init /\ [][Next]_contractVars

=============================================================================
