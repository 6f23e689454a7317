---------------------------- MODULE DispatchLedger ----------------------------
(***************************************************************************)
(* What command dispatch promises per idempotency key: work on a key       *)
(* begins only while the key is open, ending it closes the key for good.   *)
(* Several submissions may work on an open key at once.  CommandDispatch   *)
(* implements this.                                                        *)
(***************************************************************************)

CONSTANTS Keys, Submissions

VARIABLES
  working,    \* working[k]: submissions the executor is dealing with
  closed      \* keys with an outcome

Init == working = [k \in Keys |-> {}] /\ closed = {}

Begin(s, k) ==
  /\ k \notin closed
  /\ \A j \in Keys : s \notin working[j]
  /\ working' = [working EXCEPT ![k] = @ \union {s}]
  /\ UNCHANGED closed

End(s, k) ==
  /\ s \in working[k]
  /\ working' = [working EXCEPT ![k] = @ \ {s}]
  /\ closed' = closed \union {k}

Next == \E s \in Submissions, k \in Keys : Begin(s, k) \/ End(s, k)

Safety == Init /\ [][Next]_<<working, closed>>

\* Work that has begun ends.
Spec ==
  /\ Safety
  /\ \A s \in Submissions, k \in Keys : WF_<<working, closed>>(End(s, k))

==============================================================================
