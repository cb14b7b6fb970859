---------------------------- MODULE ApprovalGate ----------------------------
(***************************************************************************)
(* What the execution-approval gate of the agent OS promises, without      *)
(* channels, timeouts or maps: an operation goes ahead unasked only when   *)
(* none is required for it at that moment, a human answers a request at    *)
(* most once, and an operation a human was asked about goes ahead on the   *)
(* answer "Approved" to that very request and on nothing else.             *)
(***************************************************************************)
CONSTANTS
    Requests,       \* operations submitted to the gate
    Decisions       \* what a human may answer

VARIABLES
    required,       \* operations that require a human's approval at present
    answer,         \* answer[r]: the answer a human gave to r, or "none"
    verdict         \* verdict[r]: "open" before the gate, "asked" when the
                    \* gate asked for approval, then "granted" or "refused"

vars == <<required, answer, verdict>>

\* An operation may reach the gate as a request for approval.
Init ==
    /\ required \subseteq Requests
    /\ answer = [r \in Requests |-> "none"]
    /\ verdict \in [Requests -> {"open", "asked"}]

Move(r, from, to) ==
    /\ verdict[r] = from
    /\ verdict' = [verdict EXCEPT ![r] = to]
    /\ UNCHANGED <<required, answer>>

\* The operation goes ahead because no approval is required for it.
Exempt(r) == r \notin required /\ Move(r, "open", "granted")

\* A human is asked.  From here on only an answer lets the operation go ahead.
Ask(r) == Move(r, "open", "asked")

\* A human answers a request that was asked and has no answer yet.  The answer
\* may come too late to matter: the request may be refused already.
Answer(r, d) ==
    /\ verdict[r] \in {"asked", "refused"}
    /\ answer[r] = "none"
    /\ answer' = [answer EXCEPT ![r] = d]
    /\ UNCHANGED <<required, verdict>>

\* The operation goes ahead on the human's answer.
Grant(r) == answer[r] = "Approved" /\ Move(r, "asked", "granted")

\* The operation is refused: denied, timed out, over the limit or abandoned.
Refuse(r) == Move(r, "asked", "refused")

\* What requires approval is somebody else's to change.
PolicyChanges ==
    /\ required' \subseteq Requests
    /\ UNCHANGED <<answer, verdict>>

Next ==
    \/ \E r \in Requests :
          \/ Exempt(r)
          \/ Ask(r)
          \/ \E d \in Decisions : Answer(r, d)
          \/ Grant(r)
          \/ Refuse(r)
    \/ PolicyChanges

Spec == Init /\ [][Next]_vars

=============================================================================
