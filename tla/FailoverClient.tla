--------------------------- MODULE FailoverClient ---------------------------
(***************************************************************************)
(* internal/burnclaim/l1client.go: a client of several base nodes.  A call *)
(* reads the cursor, then tries every host once from there, moving the     *)
(* cursor past a host that fails and onto one that answers.  The mutex is  *)
(* held for each access to the cursor and the connections, not for the     *)
(* whole call: callers at once interleave between these accesses.  The     *)
(* program itself makes one call at a time; the type allows several.       *)
(*                                                                         *)
(* Hosts are 0 .. NumHosts - 1.  A host answers, refuses, or accepts a     *)
(* call and is then silent ("hung"): no call has a deadline, its context   *)
(* is that of the process.  BadTargets are hosts whose target does not     *)
(* parse, for which grpc.NewClient itself fails.                           *)
(*                                                                         *)
(* An answer ends where the host ends it: a base node sends the blocks it  *)
(* has of the heights asked for, which may be none, and the end of the     *)
(* stream is success after any number of them.                             *)
(***************************************************************************)
EXTENDS Naturals, Sequences

CONSTANTS
  Callers,      \* goroutines that use one client
  NumHosts,     \* len(c.hosts)
  BadTargets,   \* hosts that cannot be dialled
  Sizes,        \* messages an answer may have: {1} for GetTipInfo, 0..k for k heights
  MaxChanges    \* bound: changes of the hosts' health

Hosts == 0..(NumHosts - 1)

ASSUME FailoverAssumption ==
  /\ NumHosts \in Nat \ {0}
  /\ BadTargets \subseteq Hosts
  /\ Sizes \subseteq Nat
  /\ Sizes # {}
  /\ MaxChanges \in Nat

VARIABLES
  current,   \* c.current
  conns,     \* hosts with a connection in c.conns
  health,    \* [Hosts -> {"up", "down", "hung"}]
  changes,   \* changes of health so far
  call,      \* each caller's withFailover
  steady     \* history: hosts that were up ever since the call began

vars == <<current, conns, health, changes, call, steady>>

(***************************************************************************)
(* pc: "idle" no call; "dial" about to run connAt; "recv" draining the     *)
(* answer of the host; "next" about to run nextIndex after a failure;      *)
(* "keep" about to write the cursor after an answer; "answered", "failed". *)
(***************************************************************************)
CallState == [pc      : {"idle", "dial", "recv", "next", "keep", "answered", "failed"},
              start   : Hosts,
              attempt : Nat,
              offer   : SUBSET Sizes,   \* history: {number of messages the host has to send}
              resp    : Seq(Hosts)]     \* for each message received, who sent it

NoCall == [pc |-> "idle", start |-> 0, attempt |-> 0, offer |-> {}, resp |-> <<>>]

Up == {h \in Hosts : health[h] = "up"}

Init ==
  /\ current = 0
  /\ conns = {}
  /\ health \in [Hosts -> {"up", "down"}]
  /\ Up \cap BadTargets = {}
  /\ changes = 0
  /\ call = [c \in Callers |-> NoCall]
  /\ steady = [c \in Callers |-> {}]

-----------------------------------------------------------------------------
(* The base nodes (external) *)

Change(h, to) ==
  /\ changes < MaxChanges
  /\ changes' = changes + 1
  /\ h \notin BadTargets
  /\ health[h] # to
  /\ health' = [health EXCEPT ![h] = to]
  /\ steady' = [c \in Callers |-> IF to = "up" THEN steady[c] ELSE steady[c] \ {h}]
  /\ UNCHANGED <<current, conns, call>>

\* A silent host's connection breaks, or it answers again.
Recover(h) ==
  /\ health[h] = "hung"
  /\ \E to \in {"up", "down"} : health' = [health EXCEPT ![h] = to]
  /\ UNCHANGED <<current, conns, changes, call, steady>>

-----------------------------------------------------------------------------
(* withFailover *)

\* idx: the host of the current attempt.
Target(c) == (call[c].start + call[c].attempt) % NumHosts

\* startIndex, and the loop's first attempt.
Begin(c) ==
  /\ call[c].pc = "idle"
  /\ call' = [call EXCEPT ![c] = [NoCall EXCEPT !.pc = "dial", !.start = current]]
  /\ steady' = [steady EXCEPT ![c] = Up]
  /\ UNCHANGED <<current, conns, health, changes>>

\* connAt: the host's connection, dialled on first use; fn starts with an empty
\* resp.  How much the host will send is up to the host.
DialWith(c, resp) ==
  /\ call[c].pc = "dial"
  /\ IF Target(c) \in BadTargets
       THEN /\ call' = [call EXCEPT ![c].pc = "next"]
            /\ UNCHANGED conns
       ELSE /\ \E n \in Sizes :
                 call' = [call EXCEPT ![c].pc = "recv", ![c].offer = {n}, ![c].resp = resp]
            /\ conns' = conns \cup {Target(c)}
  /\ UNCHANGED <<current, health, changes, steady>>

\* Mutant: what a failed stream had delivered is kept for the next host.
Dial_KeepsBlocks(c) == DialWith(c, call[c].resp)

Dial(c) == DialWith(c, <<>>)

\* One more block (or the tip) of the host's answer, or its end, io.EOF: the
\* client does not count what came against what it asked for.
Receive(c) ==
  /\ call[c].pc = "recv"
  /\ health[Target(c)] = "up"
  /\ call' = IF \E n \in call[c].offer : Len(call[c].resp) < n
               THEN [call EXCEPT ![c].resp = Append(@, Target(c))]
               ELSE [call EXCEPT ![c].pc = "keep"]
  /\ UNCHANGED <<current, conns, health, changes, steady>>

\* Mutant: any error of the stream is taken for its end.
ReceiveFails_AsEnd(c) ==
  /\ call[c].pc = "recv"
  /\ health[Target(c)] = "down"
  /\ call' = [call EXCEPT ![c].pc = "keep"]
  /\ UNCHANGED <<current, conns, health, changes, steady>>

\* The request or the stream fails, before or after some blocks.
ReceiveFails(c) ==
  /\ call[c].pc = "recv"
  /\ health[Target(c)] = "down"
  /\ call' = [call EXCEPT ![c].pc = "next"]
  /\ UNCHANGED <<current, conns, health, changes, steady>>

\* Mutants: when the cursor comes round, start over; the next host is taken from
\* the shared cursor, which another call may have moved.
Advance_RoundAgain(c) ==
  /\ call[c].pc = "next"
  /\ current' = (Target(c) + 1) % NumHosts
  /\ call' = [call EXCEPT ![c].pc = "dial", ![c].attempt = (@ + 1) % NumHosts,
                          ![c].offer = {}]
  /\ UNCHANGED <<conns, health, changes, steady>>

Advance_FollowsCursor(c) ==
  /\ call[c].pc = "next"
  /\ current' = (current + 1) % NumHosts
  /\ LET tried == call[c].attempt + 1
     IN call' = [call EXCEPT ![c].start = (current' + NumHosts - tried) % NumHosts,
                             ![c].attempt = tried, ![c].offer = {},
                             ![c].pc = IF tried < NumHosts THEN "dial" ELSE "failed"]
  /\ UNCHANGED <<conns, health, changes, steady>>

\* nextIndex(idx), then the next attempt or, after the last, an error.
Advance(c) ==
  /\ call[c].pc = "next"
  /\ current' = (Target(c) + 1) % NumHosts
  /\ call' = [call EXCEPT ![c].attempt = @ + 1, ![c].offer = {},
                          ![c].pc = IF call[c].attempt + 1 < NumHosts THEN "dial" ELSE "failed"]
  /\ UNCHANGED <<conns, health, changes, steady>>

\* Mutant: the cursor moves on after an answer too.
Keep_MovesOn(c) ==
  /\ call[c].pc = "keep"
  /\ current' = (Target(c) + 1) % NumHosts
  /\ call' = [call EXCEPT ![c].pc = "answered"]
  /\ UNCHANGED <<conns, health, changes, steady>>

\* The cursor stays on the host that answered.
Keep(c) ==
  /\ call[c].pc = "keep"
  /\ current' = Target(c)
  /\ call' = [call EXCEPT ![c].pc = "answered"]
  /\ UNCHANGED <<conns, health, changes, steady>>

Return(c) ==
  /\ call[c].pc \in {"answered", "failed"}
  /\ call' = [call EXCEPT ![c] = NoCall]
  /\ steady' = [steady EXCEPT ![c] = {}]
  /\ UNCHANGED <<current, conns, health, changes>>

\* The deferred Close of cmd/burnclaim, once no call is under way.
Close ==
  /\ conns # {}
  /\ \A c \in Callers : call[c].pc = "idle"
  /\ conns' = {}
  /\ UNCHANGED <<current, health, changes, call, steady>>

-----------------------------------------------------------------------------
Step(c) ==
  \/ Begin(c) \/ Dial(c) \/ Receive(c) \/ ReceiveFails(c)
  \/ Advance(c) \/ Keep(c) \/ Return(c)

Environment ==
  \/ \E h \in Hosts : Recover(h) \/ \E to \in {"up", "down", "hung"} : Change(h, to)

Next == (\E c \in Callers : Step(c)) \/ Close \/ Environment

Spec == Init /\ [][Next]_vars

\* A caller that can go on goes on; nothing makes a hung host speak.
CallerFairness == \A c \in Callers : WF_vars(Step(c))

FairSpec == Spec /\ CallerFairness

\* With the assumption, on the network, that no host is silent for ever.
LiveSpec == FairSpec /\ \A h \in Hosts : WF_vars(Recover(h))

-----------------------------------------------------------------------------
TypeOK ==
  /\ current \in Hosts
  /\ conns \subseteq Hosts \ BadTargets
  /\ health \in [Hosts -> {"up", "down", "hung"}]
  /\ changes \in Nat
  /\ call \in [Callers -> CallState]
  /\ steady \in [Callers -> SUBSET Hosts]

\* A call fails only when no host was up all through it: however two calls move
\* the shared cursor under each other, neither skips a host that would have
\* answered (withFailover's "until one succeeds or every host has been tried").
FailureIsTotal == \A c \in Callers : call[c].pc = "failed" => steady[c] = {}

\* What HostCall sees of a call: whether it is under way, the hosts that have
\* refused it, which are those of its attempts so far, what the host it asks now
\* has to send, and what it returns.
Stage == [c \in Callers |-> IF call[c].pc \in {"idle", "answered", "failed"}
                              THEN call[c].pc ELSE "asking"]

Refused == [c \in Callers |->
              {(call[c].start + k) % NumHosts : k \in 0..(call[c].attempt - 1)}]

Offered == [c \in Callers |-> {<<Target(c), n>> : n \in call[c].offer}]

Result == [c \in Callers |-> IF call[c].pc = "answered" THEN call[c].resp ELSE <<>>]

\* Each call, of any number at once, keeps the promise of HostCall: no host is
\* asked twice; an answer is all that one host had to send, and nothing of another's,
\* although a stream may break in the middle; and an error comes only after every
\* host (withFailover).  How much of what was asked for the host had is not promised:
\* the end of the stream is success after any number of blocks.
Promise == INSTANCE HostCall WITH
  Callers <- Callers, Hosts <- Hosts, Sizes <- Sizes,
  stage <- Stage, refused <- Refused, offered <- Offered, result <- Result

KeepsPromise == Promise!Spec

\* Every call comes back, if no host is silent for ever: failures do not make a
\* call go round the hosts again and again.
CallsEnd == \A c \in Callers : call[c].pc # "idle" ~> call[c].pc = "idle"

\* Once the hosts' health stays as it is, with one of them up, the cursor comes
\* to a host that is up and does not leave it: calls at once do not push it off
\* for ever by writing what they learned from older reads (withFailover reads
\* the cursor, calls without the lock, and writes it afterwards).
CursorSettles == <>[](Up # {} => current \in Up)

=============================================================================
