------------------------------ MODULE MCClassroom ------------------------------
(* Two requests, two courses or recipients, an administrator and another   *)
(* account, which may be a former administrator.  Of the second request    *)
(* only what the first can notice: other credentials, another state in the *)
(* cache, the rows of google_auth.                                         *)
EXTENDS ClassroomCredentials

CONSTANTS Second, Course

Disturbs ==
  /\ requests'[Second].kind \in {None, "callback", "live"}
  /\ requests'[Second].listed \subseteq {Course}
  /\ \A r \in Requests :
       requests[r].pc = "answered" => requests' = [requests EXCEPT ![r] = Fresh]
================================================================================
