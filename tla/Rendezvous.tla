----------------------------- MODULE Rendezvous ------------------------------
(***************************************************************************)
(* What a gab channel promises, without locks, epochs or polling: calls    *)
(* offer values one at a time, an offered value is received once or        *)
(* withdrawn, and how a call ends agrees with what became of its value.    *)
(***************************************************************************)
CONSTANTS
  Call,     \* calls of put and take
  Relaxed   \* the calls of VM puts, which go on once the channel is closed

VARIABLES
  stage,    \* stage[c]: what became of the values of call c
  ended,    \* ended[c]: how call c ended, "unused" and "open" before that
  shut      \* the channel is closed

abstractVars == <<stage, ended, shut>>

Start ==
  /\ stage = [c \in Call |-> "absent"]
  /\ ended = [c \in Call |-> "unused"]
  /\ shut = FALSE

Open(c) ==
  /\ ended[c] = "unused"
  /\ ended' = [ended EXCEPT ![c] = "open"]
  /\ UNCHANGED <<stage, shut>>

(* Only one value is on offer at a time. *)
Offer(c) ==
  /\ ended[c] = "open"
  /\ stage[c] = "absent"
  /\ \A d \in Call : stage[d] # "offered"
  /\ stage' = [stage EXCEPT ![c] = "offered"]
  /\ UNCHANGED <<ended, shut>>

Withdraw(c) ==
  /\ ended[c] = "open"
  /\ stage[c] = "offered"
  /\ stage' = [stage EXCEPT ![c] = "absent"]
  /\ UNCHANGED <<ended, shut>>

(* The take t receives the values of the put c and is over. *)
Receive(c, t) ==
  /\ stage[c] = "offered"
  /\ ended[t] = "open"
  /\ stage' = [stage EXCEPT ![c] = "received"]
  /\ ended' = [ended EXCEPT ![t] = "taken"]
  /\ UNCHANGED shut

(* Success is reported for received values, a timeout for values that      *)
(* nobody can receive any more; an interrupted call (closed channel,       *)
(* termination) says nothing about its values.                             *)
End(c, how) ==
  /\ ended[c] = "open"
  /\ how = "valid"   => stage[c] = "received" \/ (shut /\ c \in Relaxed)
  /\ how = "timeout" => stage[c] = "absent"
  /\ ended' = [ended EXCEPT ![c] = how]
  /\ UNCHANGED <<stage, shut>>

Shut ==
  /\ shut' = TRUE
  /\ UNCHANGED <<stage, ended>>

Step ==
  \/ \E c \in Call :
       \/ Open(c) \/ Offer(c) \/ Withdraw(c)
       \/ \E t \in Call : Receive(c, t)
       \/ \E how \in {"valid", "timeout", "undefined", "invalid", "terminated"} :
             End(c, how)
  \/ Shut

Spec == Start /\ [][Step]_abstractVars
==============================================================================
