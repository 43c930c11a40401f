------------------------------ MODULE HostCall ------------------------------
(***************************************************************************)
(* What the L1 gRPC client promises each of its callers, however many call *)
(* at once: a call asks one host after another, none of them twice; it is  *)
(* answered with all that one host had to send, and with nothing of        *)
(* another's, or it fails after every host refused.  A host may have less  *)
(* than was asked for: the caller is not told.  There is no cursor,        *)
(* connection, stream or order of hosts here.                              *)
(***************************************************************************)
EXTENDS Naturals, Sequences

CONSTANTS Callers, Hosts, Sizes   \* Sizes: numbers of messages an answer may have

VARIABLES
  stage, refused, result,
  offered   \* {<<h, n>>} once host h is asked, and has n messages to send

callVars == <<stage, refused, offered, result>>

Init ==
  /\ stage = [c \in Callers |-> "idle"]
  /\ refused = [c \in Callers |-> {}]
  /\ offered = [c \in Callers |-> {}]
  /\ result = [c \in Callers |-> <<>>]

Ask(c) ==
  /\ stage[c] = "idle"
  /\ stage' = [stage EXCEPT ![c] = "asking"]
  /\ UNCHANGED <<refused, offered, result>>

\* A host is asked: one that has not refused, and one at a time.
Offer(c) ==
  /\ stage[c] = "asking"
  /\ offered[c] = {}
  /\ \E h \in Hosts \ refused[c], n \in Sizes : offered' = [offered EXCEPT ![c] = {<<h, n>>}]
  /\ UNCHANGED <<stage, refused, result>>

\* The host that was asked, or one that could not be, is left behind.
Refuse(c) ==
  /\ stage[c] = "asking"
  /\ \E h \in Hosts \ refused[c] :
       /\ offered[c] \subseteq {h} \X Sizes
       /\ refused' = [refused EXCEPT ![c] = @ \cup {h}]
       /\ stage' = IF refused[c] \cup {h} = Hosts THEN [stage EXCEPT ![c] = "failed"] ELSE stage
  /\ offered' = [offered EXCEPT ![c] = {}]
  /\ UNCHANGED result

Answer(c) ==
  /\ stage[c] = "asking"
  /\ stage' = [stage EXCEPT ![c] = "answered"]
  /\ \E h \in Hosts, n \in Sizes :
       /\ offered[c] = {<<h, n>>}
       /\ result' = [result EXCEPT ![c] = [i \in 1..n |-> h]]
  /\ UNCHANGED <<refused, offered>>

Return(c) ==
  /\ stage[c] \in {"answered", "failed"}
  /\ stage' = [stage EXCEPT ![c] = "idle"]
  /\ refused' = [refused EXCEPT ![c] = {}]
  /\ offered' = [offered EXCEPT ![c] = {}]
  /\ result' = [result EXCEPT ![c] = <<>>]

Next == \E c \in Callers : Ask(c) \/ Offer(c) \/ Refuse(c) \/ Answer(c) \/ Return(c)

Spec == Init /\ [][Next]_callVars

=============================================================================
