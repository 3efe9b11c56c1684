-------------------------- MODULE DeploymentLedger --------------------------
(***************************************************************************)
(* What POST /deployments promises: a deployment enters the ledger and its *)
(* job enters the queue in one step or not at all, at most once per        *)
(* request, and "created" is answered only to a request that entered.  An  *)
(* error answer promises nothing: the request may still enter later.       *)
(***************************************************************************)
CONSTANTS Workers,      \* goroutines serving requests
          Ids,          \* deployment identifiers
          Apps, Images, \* what a request deploys
          User, None    \* the authenticated user, nobody

VARIABLES ledger,       \* deployments accepted
          jobs,         \* jobs handed to the queue
          pending,      \* requests that may still be accepted
          issued,       \* identifiers given out
          req,          \* req[w]: the request w serves or served last
          status        \* "none", "open", or the answer

vars == <<ledger, jobs, pending, issued, req, status>>

Requests == [id : Ids, app : Apps, image : Images, user : {User}]

Init ==
  /\ ledger = {} /\ jobs = {} /\ pending = {} /\ issued = {}
  /\ req \in [Workers -> Requests]
  /\ status = [w \in Workers |-> "none"]

(* A client asks; a request that is not well formed is refused at once.    *)
Ask(w) ==
  /\ status[w] # "open"
  /\ \/ /\ \E r \in Requests :
             /\ r.id \notin issued
             /\ issued' = issued \cup {r.id}
             /\ pending' = pending \cup {r}
             /\ req' = [req EXCEPT ![w] = r]
        /\ status' = [status EXCEPT ![w] = "open"]
     \/ /\ \E why \in {"bad_request", "failed"} : status' = [status EXCEPT ![w] = why]
        /\ UNCHANGED <<pending, issued, req>>
  /\ UNCHANGED <<ledger, jobs>>

(* The deployment and its job enter together.                              *)
Accept(r) ==
  /\ r \in pending
  /\ pending' = pending \ {r}
  /\ ledger' = ledger \cup {r}
  /\ jobs' = jobs \cup {r}

Drop(r) ==
  /\ r \in pending
  /\ pending' = pending \ {r}
  /\ UNCHANGED <<ledger, jobs>>

Answer(w) ==
  /\ status[w] = "open"
  /\ Accept(req[w]) \/ Drop(req[w]) \/ UNCHANGED <<ledger, jobs, pending>>
  /\ \E answer \in {"created", "failed", "none"} :
       /\ answer = "created" => (req[w] \in ledger' /\ req[w] \in jobs')
       /\ status' = [status EXCEPT ![w] = answer]
  /\ UNCHANGED <<issued, req>>

(* A request is decided after its client was given up on.                  *)
Late(r) == (Accept(r) \/ Drop(r)) /\ UNCHANGED <<issued, req, status>>

(* The user is deleted; what it triggered stays, triggered by nobody.      *)
Detach ==
  /\ ledger' = {[r EXCEPT !.user = None] : r \in ledger}
  /\ UNCHANGED <<jobs, pending, issued, req, status>>

Next ==
  \/ \E w \in Workers : Ask(w) \/ Answer(w)
  \/ \E r \in Requests : Late(r)
  \/ Detach

Spec == Init /\ [][Next]_vars
=============================================================================
