------------------------------- MODULE McpSession -------------------------------
(***************************************************************************)
(* What a transport with sessions promises: a session is opened once and   *)
(* ended once; a message is accepted only by a session that is live then,  *)
(* and runs at most once, under the identity it should have - that of its  *)
(* own HTTP request, or that of the request which opened the session.      *)
(***************************************************************************)
CONSTANTS Sessions, Messages, None,
          PerMessage   \* whose identity a message has: its own or the opener's

VARIABLES
  phase,    \* phase[s]: "none", "live" or "over"
  opener,   \* opener[s]: the message that opened session s
  accepted, \* accepted[m]: the session that took message m
  ranAs     \* ranAs[m]: the message whose identity the handlers of m had

vars == <<phase, opener, accepted, ranAs>>

Init == /\ phase = [s \in Sessions |-> "none"]
        /\ opener = [s \in Sessions |-> None]
        /\ accepted = [m \in Messages |-> None]
        /\ ranAs = [m \in Messages |-> None]

Open(s, m) ==
  /\ phase[s] = "none"
  /\ phase' = [phase EXCEPT ![s] = "live"]
  /\ opener' = [opener EXCEPT ![s] = m]
  /\ UNCHANGED <<accepted, ranAs>>

End(s) ==
  /\ phase[s] = "live"
  /\ phase' = [phase EXCEPT ![s] = "over"]
  /\ UNCHANGED <<opener, accepted, ranAs>>

Accept(m, s) ==
  /\ accepted[m] = None /\ phase[s] = "live"
  /\ accepted' = [accepted EXCEPT ![m] = s]
  /\ UNCHANGED <<phase, opener, ranAs>>

Run(m) ==
  /\ accepted[m] # None /\ ranAs[m] = None
  /\ ranAs' = [ranAs EXCEPT ![m] = IF PerMessage THEN m ELSE opener[accepted[m]]]
  /\ UNCHANGED <<phase, opener, accepted>>

Next == \/ \E s \in Sessions, m \in Messages \cup {None} : Open(s, m)
        \/ \E s \in Sessions : End(s)
        \/ \E m \in Messages, s \in Sessions : Accept(m, s)
        \/ \E m \in Messages : Run(m)

Spec == Init /\ [][Next]_vars
=================================================================================
