------------------------ MODULE FailoverClient_proofs ------------------------
(***************************************************************************)
(* FailoverClient's types, FailureIsTotal, and that it implements          *)
(* HostCall, for any number of hosts and callers.                          *)
(*                                                                         *)
(* Everything rests on one fact about the order in which a call tries the  *)
(* hosts: NumHosts attempts that start anywhere and wrap around reach each *)
(* host once (EachOnce, AllReached).                                       *)
(***************************************************************************)
EXTENDS FailoverClient, TLAPS

\* Wrapping around is one subtraction at most.
LEMMA Wrap ==
  ASSUME NEW s \in Hosts, NEW k \in Hosts
  PROVE  (s + k) % NumHosts = IF s + k < NumHosts THEN s + k ELSE s + k - NumHosts
<1>1. NumHosts \in Nat \ {0}
  BY FailoverAssumption
<1>2. CASE s + k < NumHosts
  BY <1>1, <1>2 DEF Hosts
<1>3. CASE s + k >= NumHosts
  <2>1. s + k - NumHosts \in Hosts
    BY <1>1, <1>3 DEF Hosts
  <2>2. (s + k - NumHosts) % NumHosts = s + k - NumHosts
    BY <1>1, <2>1 DEF Hosts
  <2>3. (s + k) % NumHosts = (s + k - NumHosts) % NumHosts
    BY <1>1, <1>3, <2>1 DEF Hosts
  <2> QED
    BY <2>2, <2>3, <1>3, <1>1 DEF Hosts
<1> QED
  BY <1>1, <1>2, <1>3 DEF Hosts

LEMMA IsHost ==
  ASSUME NEW s \in Hosts, NEW k \in Hosts
  PROVE  (s + k) % NumHosts \in Hosts
BY Wrap, FailoverAssumption DEF Hosts

\* No two of the first NumHosts attempts try the same host.
LEMMA EachOnce ==
  ASSUME NEW s \in Hosts, NEW j \in Hosts, NEW k \in Hosts,
         (s + j) % NumHosts = (s + k) % NumHosts
  PROVE  j = k
<1>1. (s + j) % NumHosts = IF s + j < NumHosts THEN s + j ELSE s + j - NumHosts
  BY Wrap
<1>2. (s + k) % NumHosts = IF s + k < NumHosts THEN s + k ELSE s + k - NumHosts
  BY Wrap
<1> QED
  BY <1>1, <1>2, FailoverAssumption DEF Hosts

\* The first NumHosts attempts reach every host.
LEMMA AllReached ==
  ASSUME NEW s \in Hosts, NEW h \in Hosts
  PROVE  \E k \in Hosts : (s + k) % NumHosts = h
<1> DEFINE k == IF h >= s THEN h - s ELSE h + NumHosts - s
<1>1. k \in Hosts
  BY FailoverAssumption DEF Hosts
<1>2. s + k = IF h >= s THEN h ELSE h + NumHosts
  BY FailoverAssumption DEF Hosts
<1>3. (s + k) % NumHosts = IF s + k < NumHosts THEN s + k ELSE s + k - NumHosts
  BY <1>1, Wrap
<1>4. (s + k) % NumHosts = h
  BY <1>2, <1>3, FailoverAssumption DEF Hosts
<1> QED
  BY <1>1, <1>4

-----------------------------------------------------------------------------
(***************************************************************************)
(* What holds of one call, in state s, with the hosts st up ever since it  *)
(* began: it has attempts left until it fails, the hosts it left behind    *)
(* are not in st, and what it has received is from the current host alone, *)
(* no more than that host has to send, and all of it once the call is kept.*)
(***************************************************************************)
Tried(s) == {(s.start + k) % NumHosts : k \in 0..(s.attempt - 1)}

Now(s) == (s.start + s.attempt) % NumHosts

InBounds(s) ==
  /\ s.pc \in {"dial", "recv", "next", "keep", "answered"} => s.attempt \in Hosts
  /\ s.pc = "failed" => s.attempt = NumHosts
  /\ s.pc = "idle" => s = NoCall

LeftBehind(s, st) ==
  /\ Tried(s) \cap st = {}
  /\ s.pc = "next" => Now(s) \notin st

OneSource(s) ==
  /\ s.pc \in {"idle", "dial", "failed"} => s.offer = {}
  /\ s.pc \in {"recv", "keep", "answered"} =>
       \E n \in Sizes :
         /\ s.offer = {n}
         /\ Len(s.resp) <= n
         /\ s.pc \in {"keep", "answered"} => Len(s.resp) = n
         /\ \A i \in 1..Len(s.resp) : s.resp[i] = Now(s)

CallOK(s, st) == InBounds(s) /\ LeftBehind(s, st) /\ OneSource(s)

FailoverInv ==
  /\ TypeOK
  /\ \A h \in BadTargets : health[h] = "down"
  /\ \A c \in Callers : steady[c] \subseteq Up /\ CallOK(call[c], steady[c])

-----------------------------------------------------------------------------
(* The steps of one call *)

\* A call that has not begun, or has just begun, has tried nothing.
LEMMA NothingTried ==
  ASSUME NEW s, s.attempt = 0
  PROVE  Tried(s) = {}
BY DEF Tried

\* One attempt more is one host more.
LEMMA TriedGrows ==
  ASSUME NEW s \in CallState, NEW t \in CallState,
         t.start = s.start, t.attempt = s.attempt + 1
  PROVE  Tried(t) = Tried(s) \cup {Now(s)}
<1>1. s.attempt \in Nat /\ t.attempt \in Nat
  BY DEF CallState
<1>2. 0..(t.attempt - 1) = (0..(s.attempt - 1)) \cup {s.attempt}
  BY <1>1
<1> QED
  BY <1>2 DEF Tried, Now

LEMMA SameTried ==
  ASSUME NEW s, NEW t, t.start = s.start, t.attempt = s.attempt
  PROVE  Tried(t) = Tried(s) /\ Now(t) = Now(s)
BY DEF Tried, Now

\* A host that stops being up makes no claim about a call false.
LEMMA CallStaysOK ==
  ASSUME NEW s, NEW st, NEW less, less \subseteq st, CallOK(s, st)
  PROVE  CallOK(s, less)
BY DEF CallOK, LeftBehind

\* What a step of caller c leaves alone, and what it must keep for c.
Own(c) ==
  /\ health' = health
  /\ current' \in Hosts
  /\ conns' \subseteq Hosts \ BadTargets
  /\ changes' = changes
  /\ call' = [call EXCEPT ![c] = call'[c]]
  /\ steady' = [steady EXCEPT ![c] = steady'[c]]
  /\ call'[c] \in CallState
  /\ steady'[c] \subseteq Up
  /\ CallOK(call'[c], steady'[c])

LEMMA InitOK == Init => FailoverInv
<1> SUFFICES ASSUME Init PROVE FailoverInv
  OBVIOUS
<1> USE FailoverAssumption
<1>1. 0 \in Hosts
  BY DEF Hosts
<1>2. NoCall \in CallState
  BY <1>1 DEF NoCall, CallState
<1>3. TypeOK
  BY <1>1, <1>2 DEF Init, TypeOK
<1>4. \A h \in BadTargets : health[h] = "down"
  BY DEF Init, Up
<1>5. CallOK(NoCall, {})
  BY DEF CallOK, InBounds, LeftBehind, OneSource, NoCall
<1> QED
  BY <1>3, <1>4, <1>5 DEF Init, FailoverInv

LEMMA BeginOwn ==
  ASSUME FailoverInv, NEW c \in Callers, Begin(c)
  PROVE  Own(c)
<1> DEFINE t == call'[c]
<1>1. 0 \in Hosts
  BY FailoverAssumption DEF Hosts
<1>2. NoCall \in CallState /\ NoCall.attempt = 0 /\ NoCall.offer = {}
  BY <1>1 DEF NoCall, CallState
<1>3. t = [NoCall EXCEPT !.pc = "dial", !.start = current]
  BY DEF Begin, FailoverInv, TypeOK
<1>4. t \in CallState /\ t.pc = "dial" /\ t.attempt = 0 /\ t.offer = {}
  BY <1>2, <1>3 DEF FailoverInv, TypeOK, CallState
<1>5. call' = [call EXCEPT ![c] = t] /\ steady' = [steady EXCEPT ![c] = Up] /\ steady'[c] = Up
  BY DEF Begin, FailoverInv, TypeOK
<1>6. Tried(t) = {}
  BY <1>4, NothingTried
<1>7. CallOK(t, Up)
  BY <1>1, <1>4, <1>6 DEF CallOK, InBounds, LeftBehind, OneSource
<1> HIDE DEF t
<1> QED
  BY <1>4, <1>5, <1>7 DEF Own, Begin, FailoverInv, TypeOK, t

\* What Dial does to its call: the host is asked, or cannot be.
LEMMA DialShape ==
  ASSUME FailoverInv, NEW c \in Callers, Dial(c)
  PROVE  /\ call'[c] \in CallState
         /\ call'[c].start = call[c].start /\ call'[c].attempt = call[c].attempt
         /\ call' = [call EXCEPT ![c] = call'[c]]
         /\ conns' \subseteq Hosts \ BadTargets
         /\ \/ /\ Now(call[c]) \in BadTargets
               /\ call'[c].pc = "next" /\ call'[c].offer = {}
            \/ /\ call'[c].pc = "recv" /\ call'[c].resp = <<>>
               /\ \E n \in Sizes : call'[c].offer = {n}
<1> DEFINE s == call[c]
<1>1. s \in CallState /\ s.pc = "dial" /\ s.offer = {} /\ s.attempt \in Hosts
  BY DEF FailoverInv, TypeOK, Dial, DialWith, CallOK, InBounds, OneSource
<1>2. Target(c) = Now(s) /\ Now(s) \in Hosts
  BY <1>1, IsHost DEF Target, Now, CallState
<1>3. CASE Target(c) \in BadTargets
  <2>1. call' = [call EXCEPT ![c].pc = "next"] /\ conns' = conns
    BY <1>3 DEF Dial, DialWith
  <2>2. call'[c] = [s EXCEPT !.pc = "next"] /\ call' = [call EXCEPT ![c] = call'[c]]
    BY <2>1 DEF FailoverInv, TypeOK
  <2>3. /\ call'[c] \in CallState /\ call'[c].pc = "next" /\ call'[c].offer = {}
        /\ call'[c].start = s.start /\ call'[c].attempt = s.attempt
    BY <1>1, <2>2 DEF CallState
  <2> QED
    BY <1>2, <1>3, <2>1, <2>2, <2>3 DEF FailoverInv, TypeOK
<1>4. CASE Target(c) \notin BadTargets
  <2>1. PICK n \in Sizes :
          call' = [call EXCEPT ![c].pc = "recv", ![c].offer = {n}, ![c].resp = <<>>]
    <3>1. \E n \in Sizes :
            call' = [call EXCEPT ![c].pc = "recv", ![c].offer = {n}, ![c].resp = <<>>]
      BY <1>4, Zenon DEF Dial, DialWith
    <3> QED
      BY <3>1, Zenon
  <2>2. call'[c] = [s EXCEPT !.pc = "recv", !.offer = {n}, !.resp = <<>>]
    BY <2>1 DEF FailoverInv, TypeOK
  <2>3. /\ call'[c] \in CallState
        /\ call'[c].pc = "recv" /\ call'[c].resp = <<>> /\ call'[c].offer = {n}
        /\ call'[c].start = s.start /\ call'[c].attempt = s.attempt
    <3>1. {n} \in SUBSET Sizes /\ <<>> \in Seq(Hosts)
      OBVIOUS
    <3>2. s = [pc |-> s.pc, start |-> s.start, attempt |-> s.attempt, offer |-> s.offer, resp |-> s.resp]
      BY <1>1 DEF CallState
    <3>3. call'[c] = [pc |-> "recv", start |-> s.start, attempt |-> s.attempt, offer |-> {n}, resp |-> <<>>]
      BY <2>2, <3>2
    <3> QED
      BY <1>1, <3>1, <3>3 DEF CallState
  <2>4. call' = [call EXCEPT ![c] = call'[c]]
    BY <2>1 DEF FailoverInv, TypeOK
  <2>5. conns' \subseteq Hosts \ BadTargets
    BY <1>2, <1>4 DEF Dial, DialWith, FailoverInv, TypeOK
  <2> QED
    BY <2>3, <2>4, <2>5
<1> QED
  BY <1>3, <1>4

LEMMA DialOwn ==
  ASSUME FailoverInv, NEW c \in Callers, Dial(c)
  PROVE  Own(c)
<1> DEFINE s == call[c]
           t == call'[c]
<1>1. s \in CallState /\ s.pc = "dial" /\ CallOK(s, steady[c]) /\ steady[c] \subseteq Up
  BY DEF FailoverInv, TypeOK, Dial, DialWith
<1>2. /\ t \in CallState
      /\ t.start = s.start /\ t.attempt = s.attempt
      /\ call' = [call EXCEPT ![c] = t]
      /\ conns' \subseteq Hosts \ BadTargets
      /\ \/ Now(s) \in BadTargets /\ t.pc = "next" /\ t.offer = {}
         \/ t.pc = "recv" /\ t.resp = <<>> /\ \E n \in Sizes : t.offer = {n}
  BY DialShape
<1>3. Tried(t) = Tried(s) /\ Now(t) = Now(s)
  BY <1>2, SameTried
<1>4. InBounds(t)
  BY <1>1, <1>2 DEF CallOK, InBounds
<1>5. LeftBehind(t, steady[c])
  <2>1. Now(s) \in BadTargets => Now(s) \notin Up
    BY DEF FailoverInv, Up
  <2> QED
    BY <1>1, <1>2, <1>3, <2>1 DEF CallOK, LeftBehind
<1>6. OneSource(t)
  <2>1. t.pc = "recv" => Len(t.resp) = 0
    BY <1>2
  <2> QED
    BY <1>2, <2>1, FailoverAssumption DEF OneSource
<1> HIDE DEF s, t
<1>7. CallOK(t, steady[c])
  BY <1>4, <1>5, <1>6 DEF CallOK
<1> QED
  BY <1>1, <1>2, <1>7 DEF Own, Dial, DialWith, FailoverInv, TypeOK, t

LEMMA ReceiveOwn ==
  ASSUME FailoverInv, NEW c \in Callers, Receive(c)
  PROVE  Own(c)
<1> DEFINE s == call[c]
           t == call'[c]
<1>1. s \in CallState /\ s.pc = "recv" /\ CallOK(s, steady[c]) /\ steady[c] \subseteq Up
  BY DEF FailoverInv, TypeOK, Receive
<1>2. Target(c) = Now(s) /\ Now(s) \in Hosts
  BY <1>1, IsHost DEF Target, Now, CallOK, InBounds, CallState
<1>3. call' = [call EXCEPT ![c] = t]
  BY DEF FailoverInv, TypeOK, Receive
<1>n. PICK n \in Sizes : /\ s.offer = {n} /\ Len(s.resp) <= n
                         /\ \A i \in 1..Len(s.resp) : s.resp[i] = Now(s)
  BY <1>1 DEF CallOK, OneSource
<1>4. CASE Len(s.resp) < n
  <2>0. t = [s EXCEPT !.resp = Append(s.resp, Now(s))]
    BY <1>n, <1>2, <1>4 DEF FailoverInv, TypeOK, Receive
  <2>1. /\ t \in CallState
        /\ t.start = s.start /\ t.attempt = s.attempt /\ t.pc = "recv" /\ t.offer = {n}
        /\ t.resp = Append(s.resp, Now(s))
    <3>1. Append(s.resp, Now(s)) \in Seq(Hosts)
      BY <1>1, <1>2 DEF CallState
    <3> QED
      BY <1>1, <1>n, <2>0, <3>1 DEF CallState
  <2>2. Tried(t) = Tried(s) /\ Now(t) = Now(s)
    BY <2>1, SameTried
  <2>3. OneSource(t)
    <3>1. s.resp \in Seq(Hosts)
      BY <1>1 DEF CallState
    <3>2. Len(t.resp) = Len(s.resp) + 1 /\ Len(s.resp) \in Nat
      BY <2>1, <3>1
    <3>3. \A i \in 1..Len(t.resp) : t.resp[i] = Now(s)
      BY <1>n, <2>1, <3>1, <3>2
    <3>4. Len(t.resp) <= n
      BY <1>4, <3>2, FailoverAssumption
    <3> QED
      BY <2>1, <2>2, <3>3, <3>4 DEF OneSource
  <2>4. CallOK(t, steady[c])
    BY <1>1, <2>1, <2>2, <2>3 DEF CallOK, InBounds, LeftBehind
  <2> QED
    BY <1>1, <1>3, <2>1, <2>4 DEF Own, Receive, FailoverInv, TypeOK
<1>5. CASE ~(Len(s.resp) < n)
  <2>1. /\ t \in CallState
        /\ t.start = s.start /\ t.attempt = s.attempt /\ t.pc = "keep"
        /\ t.resp = s.resp /\ t.offer = {n}
    BY <1>1, <1>n, <1>2, <1>5 DEF FailoverInv, TypeOK, Receive, CallState
  <2>2. Tried(t) = Tried(s) /\ Now(t) = Now(s)
    BY <2>1, SameTried
  <2>3. Len(t.resp) = n
    <3>1. Len(s.resp) \in Nat /\ n \in Nat
      BY <1>1, FailoverAssumption DEF CallState
    <3> QED
      BY <1>n, <1>5, <2>1, <3>1
  <2>4. OneSource(t)
    BY <1>n, <2>1, <2>2, <2>3 DEF OneSource
  <2>5. CallOK(t, steady[c])
    BY <1>1, <2>1, <2>2, <2>4 DEF CallOK, InBounds, LeftBehind
  <2> QED
    BY <1>1, <1>3, <2>1, <2>5 DEF Own, Receive, FailoverInv, TypeOK
<1> QED
  BY <1>4, <1>5

LEMMA ReceiveFailsOwn ==
  ASSUME FailoverInv, NEW c \in Callers, ReceiveFails(c)
  PROVE  Own(c)
<1> DEFINE s == call[c]
           t == call'[c]
<1>1. s \in CallState /\ s.pc = "recv" /\ CallOK(s, steady[c]) /\ steady[c] \subseteq Up
  BY DEF FailoverInv, TypeOK, ReceiveFails
<1>2. Target(c) = Now(s)
  BY DEF Target, Now
<1>3. /\ call' = [call EXCEPT ![c] = t]
      /\ t \in CallState
      /\ t.start = s.start /\ t.attempt = s.attempt /\ t.pc = "next"
  BY <1>1 DEF FailoverInv, TypeOK, ReceiveFails, CallState
<1>4. Tried(t) = Tried(s) /\ Now(t) = Now(s)
  BY <1>3, SameTried
<1>5. Now(s) \notin Up
  BY <1>2 DEF ReceiveFails, Up
<1>6. CallOK(t, steady[c])
  BY <1>1, <1>3, <1>4, <1>5 DEF CallOK, InBounds, LeftBehind, OneSource
<1> QED
  BY <1>1, <1>3, <1>6 DEF Own, ReceiveFails, FailoverInv, TypeOK

LEMMA AdvanceOwn ==
  ASSUME FailoverInv, NEW c \in Callers, Advance(c)
  PROVE  Own(c)
<1> DEFINE s == call[c]
           t == call'[c]
<1>1. s \in CallState /\ s.pc = "next" /\ CallOK(s, steady[c]) /\ steady[c] \subseteq Up
  BY DEF FailoverInv, TypeOK, Advance
<1>2. Target(c) = Now(s) /\ Now(s) \in Hosts /\ s.attempt \in Hosts
  BY <1>1, IsHost DEF Target, Now, CallOK, InBounds, CallState
<1>3. /\ call' = [call EXCEPT ![c] = t]
      /\ t \in CallState
      /\ t.start = s.start /\ t.attempt = s.attempt + 1 /\ t.offer = {}
      /\ t.pc = IF s.attempt + 1 < NumHosts THEN "dial" ELSE "failed"
  BY <1>1 DEF FailoverInv, TypeOK, Advance, CallState
<1>4. Tried(t) = Tried(s) \cup {Now(s)}
  BY <1>1, <1>3, TriedGrows
<1>5. InBounds(t)
  BY <1>2, <1>3, FailoverAssumption DEF InBounds, Hosts
<1>6. LeftBehind(t, steady[c]) /\ OneSource(t)
  BY <1>1, <1>3, <1>4 DEF CallOK, LeftBehind, OneSource
<1>7. current' \in Hosts
  <2>1. current' = (Now(s) + 1) % NumHosts
    BY <1>2 DEF Advance
  <2> QED
    BY <1>2, <2>1, FailoverAssumption DEF Hosts
<1> QED
  BY <1>1, <1>3, <1>5, <1>6, <1>7 DEF Own, CallOK, Advance, FailoverInv, TypeOK

LEMMA KeepOwn ==
  ASSUME FailoverInv, NEW c \in Callers, Keep(c)
  PROVE  Own(c)
<1> DEFINE s == call[c]
           t == call'[c]
<1>1. s \in CallState /\ s.pc = "keep" /\ CallOK(s, steady[c]) /\ steady[c] \subseteq Up
  BY DEF FailoverInv, TypeOK, Keep
<1>2. Target(c) \in Hosts
  BY <1>1, IsHost DEF Target, CallOK, InBounds, CallState
<1>3. /\ call' = [call EXCEPT ![c] = t]
      /\ t \in CallState
      /\ t.start = s.start /\ t.attempt = s.attempt /\ t.offer = s.offer
      /\ t.resp = s.resp /\ t.pc = "answered"
  BY <1>1 DEF FailoverInv, TypeOK, Keep, CallState
<1>4. Tried(t) = Tried(s) /\ Now(t) = Now(s)
  BY <1>3, SameTried
<1>5. CallOK(t, steady[c])
  BY <1>1, <1>3, <1>4 DEF CallOK, InBounds, LeftBehind, OneSource
<1> QED
  BY <1>1, <1>2, <1>3, <1>5 DEF Own, Keep, FailoverInv, TypeOK

LEMMA ReturnOwn ==
  ASSUME FailoverInv, NEW c \in Callers, Return(c)
  PROVE  Own(c)
<1>1. 0 \in Hosts
  BY FailoverAssumption DEF Hosts
<1>2. NoCall \in CallState
  BY <1>1 DEF NoCall, CallState
<1>3. CallOK(NoCall, {})
  BY DEF CallOK, InBounds, LeftBehind, OneSource, NoCall
<1>4. call'[c] = NoCall /\ steady'[c] = {}
  BY DEF Return, FailoverInv, TypeOK
<1> HIDE DEF NoCall
<1> QED
  BY <1>2, <1>3, <1>4 DEF Own, Return, FailoverInv, TypeOK

LEMMA StepOwn ==
  ASSUME FailoverInv, NEW c \in Callers, Step(c)
  PROVE  Own(c)
BY BeginOwn, DialOwn, ReceiveOwn, ReceiveFailsOwn, AdvanceOwn, KeepOwn, ReturnOwn DEF Step

LEMMA OwnKeepsInv ==
  ASSUME FailoverInv, NEW c \in Callers, Own(c)
  PROVE  FailoverInv'
<1>1. call \in [Callers -> CallState] /\ steady \in [Callers -> SUBSET Hosts]
  BY DEF FailoverInv, TypeOK
<1>2. Up' = Up
  BY DEF Own, Up
<1>3. TypeOK'
  BY <1>1 DEF Own, TypeOK, FailoverInv, Up
<1>4. \A d \in Callers : d # c => call'[d] = call[d] /\ steady'[d] = steady[d]
  BY <1>1 DEF Own
<1>5. ASSUME NEW d \in Callers
      PROVE  steady'[d] \subseteq Up' /\ CallOK(call'[d], steady'[d])
  BY <1>2, <1>4 DEF Own, FailoverInv
<1> QED
  BY <1>3, <1>5 DEF FailoverInv, Own

LEMMA EnvironmentOK ==
  ASSUME FailoverInv, Environment
  PROVE  FailoverInv'
<1>1. PICK h \in Hosts, to \in {"up", "down", "hung"} :
        /\ health' = [health EXCEPT ![h] = to]
        /\ h \notin BadTargets
        /\ \/ to = "up" /\ steady' = steady
           \/ to # "up" /\ steady' = [c \in Callers |-> steady[c] \ {h}]
           \/ health[h] = "hung" /\ steady' = steady
  <2>1. CASE \E h \in Hosts : Recover(h)
    BY <2>1 DEF Recover, FailoverInv
  <2>2. CASE \E h \in Hosts, to \in {"up", "down", "hung"} : Change(h, to)
    <3>1. PICK h \in Hosts, to \in {"up", "down", "hung"} : Change(h, to)
      BY <2>2
    <3>2. CASE to = "up"
      <4>1. steady' = steady
        BY <3>1, <3>2 DEF Change, FailoverInv, TypeOK
      <4> QED
        BY <3>1, <3>2, <4>1 DEF Change
    <3>3. CASE to # "up"
      BY <3>1, <3>3 DEF Change
    <3> QED
      BY <3>2, <3>3
  <2> QED
    BY <2>1, <2>2 DEF Environment
<1>2. \A c \in Callers : steady'[c] \subseteq steady[c]
  BY <1>1 DEF FailoverInv, TypeOK
<1>3. UNCHANGED <<current, conns, call>> /\ changes' \in Nat
  BY DEF Environment, Recover, Change, FailoverInv, TypeOK
<1>4. TypeOK'
  BY <1>1, <1>3 DEF FailoverInv, TypeOK
<1>5. \A b \in BadTargets : health'[b] = "down"
  BY <1>1, FailoverAssumption DEF FailoverInv, TypeOK
<1>6. \A c \in Callers : steady'[c] \subseteq Up'
  BY <1>1 DEF FailoverInv, TypeOK, Up
<1>7. \A c \in Callers : CallOK(call'[c], steady'[c])
  BY <1>2, <1>3, CallStaysOK DEF FailoverInv
<1> QED
  BY <1>4, <1>5, <1>6, <1>7 DEF FailoverInv

LEMMA NextOK == FailoverInv /\ [Next]_vars => FailoverInv'
<1> SUFFICES ASSUME FailoverInv, [Next]_vars PROVE FailoverInv'
  OBVIOUS
<1>1. ASSUME NEW c \in Callers, Step(c) PROVE FailoverInv'
  BY <1>1, StepOwn, OwnKeepsInv
<1>2. CASE Close
  BY <1>2 DEF Close, FailoverInv, TypeOK, Up
<1>3. CASE Environment
  BY <1>3, EnvironmentOK
<1>4. CASE UNCHANGED vars
  BY <1>4 DEF vars, FailoverInv, TypeOK, Up
<1> QED
  BY <1>1, <1>2, <1>3, <1>4 DEF Next

\* The inductive invariant holds of every behaviour.
LEMMA FailoverInvHolds == Spec => []FailoverInv
<1> QED
  BY InitOK, NextOK, PTL DEF Spec

\* The cursor, the connections and every call's state have their types, in
\* particular the cursor is always the index of a host (nextIndex).
THEOREM TypeCorrect == Spec => []TypeOK
<1>1. FailoverInv => TypeOK
  BY DEF FailoverInv
<1> QED
  BY <1>1, FailoverInvHolds, PTL

\* A call fails only when no host was up all through it (withFailover), for any
\* number of hosts and of calls at once.
THEOREM FailuresAreTotal == Spec => []FailureIsTotal
<1>1. FailoverInv => FailureIsTotal
  <2> SUFFICES ASSUME FailoverInv, NEW c \in Callers, call[c].pc = "failed"
               PROVE  steady[c] = {}
    BY DEF FailureIsTotal
  <2>1. call[c] \in CallState /\ steady[c] \subseteq Hosts
    BY DEF FailoverInv, TypeOK
  <2>2. call[c].attempt = NumHosts /\ Tried(call[c]) \cap steady[c] = {}
    BY DEF FailoverInv, CallOK, InBounds, LeftBehind
  <2>3. Tried(call[c]) = {(call[c].start + k) % NumHosts : k \in Hosts}
    BY <2>2 DEF Tried, Hosts
  <2>4. Hosts \subseteq Tried(call[c])
    BY <2>1, <2>3, AllReached DEF CallState
  <2> QED
    BY <2>1, <2>2, <2>4
<1> QED
  BY <1>1, FailoverInvHolds, PTL

-----------------------------------------------------------------------------
(* FailoverClient implements HostCall *)

\* What HostCall sees of the host a call asks now.
Offers(s) == {<<Now(s), n>> : n \in s.offer}

\* What a step of c shows of its call, and that it shows nothing of the others.
LEMMA Shown ==
  ASSUME FailoverInv, NEW c \in Callers, Own(c)
  PROVE  /\ Stage' = [Stage EXCEPT ![c] = IF call'[c].pc \in {"idle", "answered", "failed"}
                                             THEN call'[c].pc ELSE "asking"]
         /\ Refused' = [Refused EXCEPT ![c] = Tried(call'[c])]
         /\ Offered' = [Offered EXCEPT ![c] = Offers(call'[c])]
         /\ Result' = [Result EXCEPT ![c] = IF call'[c].pc = "answered" THEN call'[c].resp ELSE <<>>]
<1>1. \A d \in Callers : d # c => call'[d] = call[d]
  BY DEF Own, FailoverInv, TypeOK
<1>2. \A d \in Callers : Refused[d] = Tried(call[d]) /\ Refused'[d] = Tried(call'[d])
  BY DEF Refused, Tried
<1>3. Refused = [d \in Callers |-> Tried(call[d])] /\ Refused' = [d \in Callers |-> Tried(call'[d])]
  BY DEF Refused, Tried
<1>4. Refused' = [Refused EXCEPT ![c] = Tried(call'[c])]
  BY <1>1, <1>3
<1>5. Offered = [d \in Callers |-> Offers(call[d])] /\ Offered' = [d \in Callers |-> Offers(call'[d])]
  BY DEF Offered, Offers, Target, Now
<1>6. Offered' = [Offered EXCEPT ![c] = Offers(call'[c])]
  BY <1>1, <1>5
<1> QED
  BY <1>1, <1>4, <1>6 DEF Stage, Result

LEMMA CallSeen ==
  ASSUME FailoverInv, NEW c \in Callers
  PROVE  /\ call[c] \in CallState /\ CallOK(call[c], steady[c])
         /\ Stage[c] = IF call[c].pc \in {"idle", "answered", "failed"} THEN call[c].pc ELSE "asking"
         /\ Refused[c] = Tried(call[c])
         /\ Offered[c] = Offers(call[c])
         /\ Result[c] = IF call[c].pc = "answered" THEN call[c].resp ELSE <<>>
BY DEF FailoverInv, TypeOK, Stage, Refused, Offered, Result, Tried, Offers, Target, Now

\* A call with no host asked offers nothing.
LEMMA NothingOffered ==
  ASSUME NEW s, s.offer = {}
  PROVE  Offers(s) = {}
BY DEF Offers

\* A step that changes neither the stage of its call, nor its attempt, nor what the
\* host offers is not seen.
LEMMA Unseen ==
  ASSUME FailoverInv, NEW c \in Callers, Own(c),
         call[c].pc \in {"dial", "recv"},
         call'[c].pc \in {"dial", "recv", "next", "keep"},
         call'[c].start = call[c].start, call'[c].attempt = call[c].attempt,
         call'[c].offer = call[c].offer
  PROVE  UNCHANGED <<Stage, Refused, Offered, Result>>
<1>1. Tried(call'[c]) = Tried(call[c]) /\ Offers(call'[c]) = Offers(call[c])
  BY SameTried DEF Offers
<1>2. Stage' = [Stage EXCEPT ![c] = Stage[c]]
  BY CallSeen, Shown
<1>3. Refused' = [Refused EXCEPT ![c] = Refused[c]] /\ Offered' = [Offered EXCEPT ![c] = Offered[c]]
  BY <1>1, CallSeen, Shown
<1>4. Result' = [Result EXCEPT ![c] = Result[c]]
  BY CallSeen, Shown
<1> QED
  BY <1>2, <1>3, <1>4 DEF Stage, Refused, Offered, Result

\* The host about to be tried has not been tried.
LEMMA NowIsNew ==
  ASSUME NEW s \in CallState, s.attempt \in Hosts
  PROVE  Now(s) \in Hosts \ Tried(s)
<1>1. \A k \in 0..(s.attempt - 1) : k \in Hosts /\ k # s.attempt
  BY FailoverAssumption DEF Hosts
<1>2. \A k \in 0..(s.attempt - 1) : (s.start + k) % NumHosts # (s.start + s.attempt) % NumHosts
  BY <1>1, EachOnce DEF CallState
<1> QED
  BY <1>2, IsHost DEF CallState, Now, Tried

LEMMA BeginMaps ==
  ASSUME FailoverInv, NEW c \in Callers, Begin(c)
  PROVE  Promise!Ask(c)
<1> DEFINE s == call[c]
           t == call'[c]
<1>1. Own(c)
  BY BeginOwn
<1>2. s.pc = "idle" /\ s.attempt = 0 /\ s.offer = {}
  BY DEF Begin, FailoverInv, CallOK, InBounds, NoCall
<1>3. t.pc = "dial" /\ t.attempt = 0 /\ t.offer = {}
  <2>1. NoCall.attempt = 0 /\ NoCall.offer = {}
    BY DEF NoCall
  <2>2. t = [NoCall EXCEPT !.pc = "dial", !.start = current]
    BY DEF Begin, FailoverInv, TypeOK
  <2> QED
    BY <2>1, <2>2 DEF NoCall
<1>4. Tried(s) = {} /\ Tried(t) = {} /\ Offers(s) = {} /\ Offers(t) = {}
  BY <1>2, <1>3, NothingTried, NothingOffered
<1>5. Refused' = Refused /\ Offered' = Offered /\ Result' = Result
  <2>1. Refused' = [Refused EXCEPT ![c] = Refused[c]] /\ Offered' = [Offered EXCEPT ![c] = Offered[c]]
    BY <1>1, <1>4, CallSeen, Shown
  <2>2. Result[c] = <<>> /\ Result' = [Result EXCEPT ![c] = <<>>]
    BY <1>1, <1>2, <1>3, CallSeen, Shown
  <2> QED
    BY <2>1, <2>2 DEF Refused, Offered, Result
<1>6. Stage[c] = "idle" /\ Stage' = [Stage EXCEPT ![c] = "asking"]
  BY <1>1, <1>2, <1>3, CallSeen, Shown
<1> QED
  BY <1>5, <1>6 DEF Promise!Ask

LEMMA DialMaps ==
  ASSUME FailoverInv, NEW c \in Callers, Dial(c)
  PROVE  Promise!Offer(c) \/ UNCHANGED <<Stage, Refused, Offered, Result>>
<1> DEFINE s == call[c]
           t == call'[c]
<1>1. Own(c)
  BY DialOwn
<1>2. s \in CallState /\ s.pc = "dial" /\ s.attempt \in Hosts /\ s.offer = {}
  BY DEF Dial, DialWith, FailoverInv, TypeOK, CallOK, InBounds, OneSource
<1>3. t.start = s.start /\ t.attempt = s.attempt
  BY DialShape
<1>4. CASE t.pc = "next" /\ t.offer = {}
  BY <1>1, <1>2, <1>3, <1>4, Unseen
<1>5. CASE t.pc = "recv" /\ \E n \in Sizes : t.offer = {n}
  <2>1. PICK n \in Sizes : t.offer = {n}
    BY <1>5
  <2>2. Tried(t) = Tried(s) /\ Now(t) = Now(s)
    BY <1>3, SameTried
  <2>3. Now(s) \in Hosts \ Refused[c]
    BY <1>2, NowIsNew, CallSeen
  <2>4. Offered[c] = {} /\ Offered' = [Offered EXCEPT ![c] = {<<Now(s), n>>}]
    <3>1. Offers(t) = {<<Now(s), n>>}
      BY <2>1, <2>2 DEF Offers
    <3> QED
      BY <1>1, <1>2, <3>1, NothingOffered, CallSeen, Shown
  <2>5. Stage[c] = "asking" /\ Stage' = Stage /\ Refused' = Refused /\ Result' = Result
    <3>1. /\ Stage[c] = "asking" /\ Stage' = [Stage EXCEPT ![c] = Stage[c]]
          /\ Refused' = [Refused EXCEPT ![c] = Refused[c]]
          /\ Result' = [Result EXCEPT ![c] = Result[c]]
      BY <1>1, <1>2, <1>5, <2>2, CallSeen, Shown
    <3> QED
      BY <3>1 DEF Stage, Refused, Result
  <2> QED
    BY <2>1, <2>3, <2>4, <2>5 DEF Promise!Offer
<1> QED
  BY <1>4, <1>5, DialShape

LEMMA AdvanceMaps ==
  ASSUME FailoverInv, NEW c \in Callers, Advance(c)
  PROVE  Promise!Refuse(c)
<1> DEFINE s == call[c]
           t == call'[c]
<1>1. Own(c)
  BY AdvanceOwn
<1>2. s \in CallState /\ s.pc = "next" /\ s.attempt \in Hosts
  BY DEF Advance, FailoverInv, TypeOK, CallOK, InBounds
<1>3. /\ t \in CallState
      /\ t.start = s.start /\ t.attempt = s.attempt + 1 /\ t.offer = {}
      /\ t.pc = IF s.attempt + 1 < NumHosts THEN "dial" ELSE "failed"
  BY <1>1, <1>2 DEF Own, FailoverInv, TypeOK, Advance, CallState
<1>4. Tried(t) = Tried(s) \cup {Now(s)}
  BY <1>2, <1>3, TriedGrows
<1>5. Now(s) \in Hosts \ Refused[c]
  BY <1>2, NowIsNew, CallSeen
<1>6. Refused' = [Refused EXCEPT ![c] = Refused[c] \cup {Now(s)}]
  BY <1>1, <1>4, CallSeen, Shown
<1>o. Offered[c] \subseteq {Now(s)} \X Sizes /\ Offered' = [Offered EXCEPT ![c] = {}]
  <2>1. Offers(s) \subseteq {Now(s)} \X Sizes
    BY <1>2 DEF Offers, CallState
  <2> QED
    BY <1>1, <1>3, <2>1, NothingOffered, CallSeen, Shown
<1>7. Stage[c] = "asking" /\ Result' = Result
  <2>1. Stage[c] = "asking" /\ Result' = [Result EXCEPT ![c] = Result[c]]
    BY <1>1, <1>2, <1>3, CallSeen, Shown
  <2> QED
    BY <2>1 DEF Result
<1>8. CASE s.attempt + 1 < NumHosts
  <2>1. Stage' = [Stage EXCEPT ![c] = Stage[c]]
    BY <1>1, <1>3, <1>7, <1>8, Shown
  <2>2. Stage' = Stage
    BY <2>1 DEF Stage
  <2>3. Refused[c] \cup {Now(s)} # Hosts
    <3>1. s.attempt + 1 \in Hosts /\ t.attempt \in Hosts
      BY <1>2, <1>3, <1>8, FailoverAssumption DEF Hosts
    <3>2. Now(t) \in Hosts \ Tried(t)
      BY <1>3, <3>1, NowIsNew
    <3> QED
      BY <1>4, <3>2, CallSeen
  <2> QED
    BY <1>5, <1>6, <1>7, <1>o, <2>2, <2>3 DEF Promise!Refuse
<1>9. CASE ~(s.attempt + 1 < NumHosts)
  <2>1. t.attempt = NumHosts
    BY <1>2, <1>3, <1>9, FailoverAssumption DEF Hosts
  <2>2. Hosts \subseteq Tried(t)
    <3>1. Tried(t) = {(t.start + k) % NumHosts : k \in Hosts}
      BY <2>1 DEF Tried, Hosts
    <3> QED
      BY <1>3, <3>1, AllReached DEF CallState
  <2>3. Tried(s) \cup {Now(s)} \subseteq Hosts
    <3>1. \A k \in 0..(s.attempt - 1) : k \in Hosts
      BY <1>2, FailoverAssumption DEF Hosts
    <3> QED
      BY <1>2, <1>5, <3>1, IsHost DEF Tried, CallState
  <2>4. Refused[c] \cup {Now(s)} = Hosts
    BY <1>4, <2>2, <2>3, CallSeen
  <2>5. Stage' = [Stage EXCEPT ![c] = "failed"]
    BY <1>1, <1>3, <1>9, Shown
  <2> QED
    BY <1>5, <1>6, <1>7, <1>o, <2>4, <2>5 DEF Promise!Refuse
<1> QED
  BY <1>8, <1>9

LEMMA KeepMaps ==
  ASSUME FailoverInv, NEW c \in Callers, Keep(c)
  PROVE  Promise!Answer(c)
<1> DEFINE s == call[c]
           t == call'[c]
<1>1. Own(c)
  BY KeepOwn
<1>2. s \in CallState /\ s.pc = "keep" /\ s.attempt \in Hosts /\ OneSource(s)
  BY DEF Keep, FailoverInv, TypeOK, CallOK, InBounds
<1>3. /\ t.start = s.start /\ t.attempt = s.attempt /\ t.offer = s.offer
      /\ t.resp = s.resp /\ t.pc = "answered"
  BY <1>2 DEF FailoverInv, TypeOK, Keep, CallState
<1>4. Now(s) \in Hosts \ Refused[c]
  BY <1>2, NowIsNew, CallSeen
<1>n. PICK n \in Sizes : /\ s.offer = {n} /\ Len(s.resp) = n
                         /\ \A i \in 1..Len(s.resp) : s.resp[i] = Now(s)
  BY <1>2 DEF OneSource
<1>5. s.resp = [i \in 1..n |-> Now(s)]
  <2>1. s.resp \in Seq(Hosts)
    BY <1>2 DEF CallState
  <2> QED
    BY <1>n, <2>1
<1>6. Result' = [Result EXCEPT ![c] = [i \in 1..n |-> Now(s)]]
  BY <1>1, <1>3, <1>5, Shown
<1>7. Refused' = Refused /\ Offered' = Offered
  <2>1. Tried(t) = Tried(s) /\ Offers(t) = Offers(s)
    BY <1>3, SameTried DEF Offers
  <2>2. Refused' = [Refused EXCEPT ![c] = Refused[c]] /\ Offered' = [Offered EXCEPT ![c] = Offered[c]]
    BY <1>1, <2>1, CallSeen, Shown
  <2> QED
    BY <2>2 DEF Refused, Offered
<1>o. Offered[c] = {<<Now(s), n>>}
  BY <1>n, CallSeen DEF Offers
<1>8. Stage[c] = "asking" /\ Stage' = [Stage EXCEPT ![c] = "answered"]
  BY <1>1, <1>2, <1>3, CallSeen, Shown
<1> QED
  BY <1>4, <1>n, <1>o, <1>6, <1>7, <1>8 DEF Promise!Answer

LEMMA ReturnMaps ==
  ASSUME FailoverInv, NEW c \in Callers, Return(c)
  PROVE  Promise!Return(c)
<1>1. Own(c)
  BY ReturnOwn
<1>2. call[c].pc \in {"answered", "failed"} /\ call'[c] = NoCall
  BY DEF Return, FailoverInv, TypeOK
<1>3. call'[c].pc = "idle" /\ call'[c].attempt = 0 /\ call'[c].offer = {}
  BY <1>2 DEF NoCall
<1>4. Tried(call'[c]) = {} /\ Offers(call'[c]) = {}
  BY <1>3, NothingTried, NothingOffered
<1> QED
  BY <1>1, <1>2, <1>3, <1>4, CallSeen, Shown DEF Promise!Return

LEMMA StepMaps ==
  ASSUME FailoverInv, NEW c \in Callers, Step(c)
  PROVE  Promise!Next \/ UNCHANGED <<Stage, Refused, Offered, Result>>
<1>0. Own(c)
  BY StepOwn
<1>1. CASE Begin(c)
  BY <1>1, BeginMaps DEF Promise!Next
<1>d. CASE Dial(c)
  BY <1>d, DialMaps DEF Promise!Next
<1>2. CASE Receive(c) \/ ReceiveFails(c)
  <2>1. call[c].pc = "recv" /\ call[c] \in CallState /\ call \in [Callers -> CallState]
    BY <1>2 DEF Receive, ReceiveFails, FailoverInv, TypeOK
  <2>2. \/ call' = [call EXCEPT ![c].resp = Append(@, Target(c))]
        \/ call' = [call EXCEPT ![c].pc = "keep"]
        \/ call' = [call EXCEPT ![c].pc = "next"]
    BY <1>2 DEF Receive, ReceiveFails
  <2>3. /\ call'[c].pc \in {"dial", "recv", "next", "keep"}
        /\ call'[c].start = call[c].start /\ call'[c].attempt = call[c].attempt
        /\ call'[c].offer = call[c].offer
    BY <2>1, <2>2 DEF CallState
  <2> QED
    BY <1>0, <2>1, <2>3, Unseen
<1>3. CASE Advance(c)
  BY <1>3, AdvanceMaps DEF Promise!Next
<1>4. CASE Keep(c)
  BY <1>4, KeepMaps DEF Promise!Next
<1>5. CASE Return(c)
  BY <1>5, ReturnMaps DEF Promise!Next
<1> QED
  BY <1>1, <1>d, <1>2, <1>3, <1>4, <1>5 DEF Step

\* The client implements HostCall: every call, of any number at once, asks each
\* host at most once, is answered with exactly what one host had to send, however
\* little that is, or fails after all of them (withFailover, GetBlockByHeight).
THEOREM KeepsThePromise == Spec => KeepsPromise
<1>1. Init => Promise!Init
  <2> SUFFICES ASSUME Init PROVE Promise!Init
    OBVIOUS
  <2>1. \A c \in Callers : call[c].pc = "idle" /\ call[c].attempt = 0 /\ call[c].offer = {}
    BY DEF Init, NoCall
  <2>2. Refused = [c \in Callers |-> {}]
    <3>1. \A c \in Callers : Tried(call[c]) = {}
      BY <2>1, NothingTried
    <3> QED
      BY <3>1 DEF Refused, Tried
  <2>3. Offered = [c \in Callers |-> {}]
    BY <2>1 DEF Offered
  <2> QED
    BY <2>1, <2>2, <2>3 DEF Promise!Init, Stage, Result
<1>2. FailoverInv /\ [Next]_vars => [Promise!Next]_<<Stage, Refused, Offered, Result>>
  <2> SUFFICES ASSUME FailoverInv, [Next]_vars
               PROVE  Promise!Next \/ UNCHANGED <<Stage, Refused, Offered, Result>>
    OBVIOUS
  <2>1. ASSUME NEW c \in Callers, Step(c)
        PROVE  Promise!Next \/ UNCHANGED <<Stage, Refused, Offered, Result>>
    BY <2>1, StepMaps
  <2>2. CASE Close \/ Environment \/ UNCHANGED vars
    <3>1. call' = call
      BY <2>2 DEF Close, Environment, Change, Recover, vars
    <3> QED
      BY <3>1 DEF Stage, Refused, Offered, Result, Target
  <2> QED
    BY <2>1, <2>2 DEF Next
<1> QED
  BY <1>1, <1>2, FailoverInvHolds, PTL DEF Spec, KeepsPromise, Promise!Spec, Promise!callVars

-----------------------------------------------------------------------------
(* Where the cursor settles *)

\* The cursor is on a host that is up, and so is every call: none is about to
\* write to the cursor what it has learned of a host that is down.
Settled ==
  /\ current \in Up
  /\ \A c \in Callers :
       /\ call[c].pc # "next"
       /\ call[c].pc \in {"dial", "recv", "keep"} => Now(call[c]) \in Up

\* As long as no host's health changes, what any number of calls at once write to
\* the cursor does not move it to a host that is not up, and each call is answered
\* by the first host it asks (the stable half of CursorSettles; withFailover).
SettledStays == [][Settled /\ UNCHANGED health => Settled']_vars

\* Where a call of Settled may be.
OnUp(s) ==
  /\ s.pc # "next"
  /\ s.pc \in {"dial", "recv", "keep"} => Now(s) \in Up

LEMMA StepSettled ==
  ASSUME FailoverInv, Settled, NEW c \in Callers, Step(c)
  PROVE  OnUp(call'[c]) /\ current' \in Up
<1> DEFINE s == call[c]
<1>1. /\ s \in CallState /\ call \in [Callers -> CallState] /\ OnUp(s)
      /\ current \in Up /\ Up \subseteq Hosts /\ current \in Hosts
  BY DEF FailoverInv, TypeOK, Settled, OnUp, Up
<1>2. Target(c) = Now(s)
  BY DEF Target, Now
<1>3. CASE Begin(c)
  <2>1. call'[c] = [NoCall EXCEPT !.pc = "dial", !.start = current] /\ current' = current
    BY <1>1, <1>3 DEF Begin
  <2>2. call'[c].pc = "dial" /\ call'[c].start = current /\ call'[c].attempt = 0
    BY <2>1 DEF NoCall
  <2>3. 0 \in Hosts /\ current + 0 = current /\ current < NumHosts
    BY <1>1, FailoverAssumption DEF Hosts
  <2>4. (current + 0) % NumHosts = current
    BY <1>1, <2>3, Wrap
  <2> QED
    BY <1>1, <2>1, <2>2, <2>4 DEF OnUp, Now
<1>4. CASE Dial(c)
  <2>1. s.pc = "dial" /\ Now(s) \in Up /\ current' = current
    BY <1>1, <1>4 DEF Dial, DialWith, OnUp
  <2>2. Now(s) \notin BadTargets
    BY <2>1 DEF FailoverInv, Up
  <2>3. call'[c].pc = "recv" /\ call'[c].start = s.start /\ call'[c].attempt = s.attempt
    BY <1>4, <2>2, DialShape
  <2> QED
    BY <1>1, <2>1, <2>3, SameTried DEF OnUp
<1>5. CASE Receive(c)
  <2>1. s.pc = "recv" /\ Now(s) \in Up /\ current' = current
    BY <1>1, <1>5 DEF Receive, OnUp
  <2>2. /\ call'[c].pc \in {"recv", "keep"}
        /\ call'[c].start = s.start /\ call'[c].attempt = s.attempt
    <3>1. \/ call' = [call EXCEPT ![c].resp = Append(@, Target(c))]
          \/ call' = [call EXCEPT ![c].pc = "keep"]
      BY <1>5 DEF Receive
    <3> QED
      BY <1>1, <2>1, <3>1 DEF CallState
  <2> QED
    BY <1>1, <2>1, <2>2, SameTried DEF OnUp
<1>6. CASE ReceiveFails(c)
  BY <1>1, <1>2, <1>6 DEF ReceiveFails, OnUp, Up
<1>7. CASE Advance(c)
  BY <1>1, <1>7 DEF Advance, OnUp
<1>8. CASE Keep(c)
  <2>1. s.pc = "keep" /\ Now(s) \in Up /\ current' = Now(s)
    BY <1>1, <1>2, <1>8 DEF Keep, OnUp
  <2>2. call'[c].pc = "answered"
    BY <1>1, <1>8 DEF Keep, CallState
  <2> QED
    BY <2>1, <2>2 DEF OnUp
<1>9. CASE Return(c)
  BY <1>1, <1>9 DEF Return, NoCall, OnUp
<1> QED
  BY <1>3, <1>4, <1>5, <1>6, <1>7, <1>8, <1>9 DEF Step

\* For any number of hosts and of calls at once.
THEOREM SettledCursorStays == Spec => SettledStays
<1>1. FailoverInv /\ [Next]_vars => [Settled /\ UNCHANGED health => Settled']_vars
  <2> SUFFICES ASSUME FailoverInv, [Next]_vars, Settled, UNCHANGED health
               PROVE  Settled'
    OBVIOUS
  <2>1. Up' = Up
    BY DEF Up
  <2>2. Settled' <=> current' \in Up /\ \A c \in Callers : OnUp(call'[c])
    BY <2>1 DEF Settled, OnUp
  <2>3. current \in Up /\ \A c \in Callers : OnUp(call[c])
    BY DEF Settled, OnUp
  <2>4. ASSUME NEW c \in Callers, Step(c) PROVE Settled'
    <3>1. call' = [call EXCEPT ![c] = call'[c]]
      BY <2>4, StepOwn DEF Own
    <3>2. \A d \in Callers \ {c} : call'[d] = call[d]
      BY <3>1 DEF FailoverInv, TypeOK
    <3> QED
      BY <2>2, <2>3, <2>4, <3>2, StepSettled
  <2>5. CASE call' = call /\ current' = current
    BY <2>2, <2>3, <2>5
  <2> QED
    BY <2>4, <2>5 DEF Next, Close, Environment, Recover, Change, vars
<1> QED
  BY <1>1, FailoverInvHolds, PTL DEF Spec, SettledStays

=============================================================================
