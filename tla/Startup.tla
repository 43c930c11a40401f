------------------------------- MODULE Startup -------------------------------
(***************************************************************************)
(* How a command gets from its flags, environment and config file to its   *)
(* work (internal/config, cmd/*/main.go): Load resolves the settings, each *)
(* command checks those it cannot do without, then connects, migrates and  *)
(* runs, and ends by itself, by a signal or with log.Fatalf.               *)
(*                                                                         *)
(* A setting's value is where it came from: <<>> is the empty value,       *)
(* <<"flag">> and <<"env">> what the operator gave, <<"file", n>> the      *)
(* entry of network n in the file, <<"localnet">> the local-dev default.   *)
(* "blank" is text that holds no list entry, such as a lone comma.  The    *)
(* fields behave alike, so one flag state and one environment state stand  *)
(* for those of all endpoint fields a command has a flag for.              *)
(***************************************************************************)
EXTENDS Naturals, Sequences

CONSTANTS
  Names, DefaultNetworkName,   \* network names, "localnet" among them
  Known,                       \* KnownBaseLayerConfirmations
  Lags, Extras,                \* values of -confirmation-lag and -extra-stuck-blocks
  Tables,                      \* the sets of fields a file's network entries may give
  Uint64                       \* 2^64, or a smaller width

ASSUME StartupAssumption ==
  /\ DefaultNetworkName \in Names
  /\ Uint64 \in Nat \ {0}
  /\ Lags \subseteq 0..(Uint64 - 1) /\ Extras \subseteq 0..(Uint64 - 1)
  /\ DOMAIN Known \subseteq Names
  /\ \A n \in DOMAIN Known : Known[n] \in 1..(Uint64 - 1)

Commands == {"explorer", "registry", "vnhealth", "burnclaim", "server"}

ListFields == {"validators", "l1"}

Fields == ListFields \cup {"indexer", "metadata"}

\* The endpoint flags that each command registers and passes to Load.
FlagsOf(cmd) ==
  CASE cmd = "explorer"  -> {"indexer"}
    [] cmd = "registry"  -> {"metadata"}
    [] cmd = "vnhealth"  -> {"validators"}
    [] cmd = "burnclaim" -> {"indexer", "l1"}
    [] cmd = "server"    -> {}

Unnamed == <<>>

NetworkNames == {Unnamed} \cup {<<n>> : n \in Names}

Given == {"unset", "blank", "set"}

NoFile == [state |-> "none", active |-> Unnamed, networks |-> {}, gives |-> {}]

Files ==
  {NoFile, [NoFile EXCEPT !.state = "unreadable"], [NoFile EXCEPT !.state = "malformed"]}
    \cup [state : {"loaded"}, active : NetworkNames, networks : SUBSET Names, gives : Tables]

Inputs == [cmd : Commands, netFlag : NetworkNames, netEnv : NetworkNames,
           flag : Given, env : Given, file : Files]

VARIABLES
  input,      \* what the command was started with
  pc,         \* the call main is about to make
  cfg,        \* what Load returned
  lag,        \* cmd/burnclaim's confirmation lag
  extra,      \* -extra-stuck-blocks
  signalled,  \* SIGINT or SIGTERM has arrived
  migrated    \* history: the command has written to the database

vars == <<input, pc, cfg, lag, extra, signalled, migrated>>

NoConfig == [network |-> Unnamed, endpoint |-> [f \in Fields |-> <<>>]]

Init ==
  /\ input \in Inputs
  /\ pc = "load"
  /\ cfg = NoConfig
  /\ lag \in Lags
  /\ extra \in Extras
  /\ signalled = FALSE
  /\ migrated = FALSE

-----------------------------------------------------------------------------
(* Load *)

\* firstNonEmpty and firstNonEmptyList.
FirstNonEmpty(vals) ==
  LET full == {i \in DOMAIN vals : vals[i] # <<>>}
  IN  IF full = {} THEN <<>> ELSE vals[CHOOSE i \in full : \A j \in full : i <= j]

\* What flag or environment hold for field f, a list through parseList.
Operator(where, given, f) ==
  IF given = "set" \/ (given = "blank" /\ f \notin ListFields) THEN <<where>> ELSE <<>>

FromFlag(f) == IF f \in FlagsOf(input.cmd) THEN Operator("flag", input.flag, f) ELSE <<>>

FromEnv(f) == Operator("env", input.env, f)

ActiveNetwork ==
  FirstNonEmpty(<<input.netFlag, input.netEnv, input.file.active, <<DefaultNetworkName>> >>)

UsesTable == input.file.networks # {}

Defined == \E n \in input.file.networks : ActiveNetwork = <<n>>

\* Mutants: a network that the file does not define gets the local defaults; the
\* file's own active network is used for the endpoints, whatever the operator chose.
Base_FallsBack(f) ==
  IF UsesTable /\ Defined
    THEN IF f \in input.file.gives THEN <<"file">> \o ActiveNetwork ELSE <<>>
    ELSE IF f # "metadata" THEN <<"localnet">> ELSE <<>>

Base_FilesOwn(f) ==
  LET network == FirstNonEmpty(<<input.file.active, ActiveNetwork>>)
  IN  IF UsesTable
        THEN IF f \in input.file.gives THEN <<"file">> \o network ELSE <<>>
        ELSE IF network = <<DefaultNetworkName>> /\ f # "metadata" THEN <<"localnet">> ELSE <<>>

\* The active network's own settings: its entry in the file or, for localnet
\* without such a table, the local-dev defaults.
Base(f) ==
  IF UsesTable THEN IF f \in input.file.gives THEN <<"file">> \o ActiveNetwork ELSE <<>>
  ELSE IF ActiveNetwork = <<DefaultNetworkName>> /\ f # "metadata" THEN <<"localnet">>
  ELSE <<>>

LoadFails ==
  \/ input.file.state \in {"unreadable", "malformed"}
  \/ UsesTable /\ ~Defined

Loaded == [network  |-> ActiveNetwork,
           endpoint |-> [f \in Fields |-> FirstNonEmpty(<<FromFlag(f), FromEnv(f), Base(f)>>)]]

Load ==
  /\ pc = "load"
  /\ IF LoadFails THEN pc' = "fatal" /\ UNCHANGED cfg
                  ELSE pc' = "check" /\ cfg' = Loaded
  /\ UNCHANGED <<input, lag, extra, signalled, migrated>>

-----------------------------------------------------------------------------
(* main *)

LagKnown == \E n \in DOMAIN Known : cfg.network = <<n>>

\* Mutant: only the network name is looked at.
Lacks_NoEndpoint == input.cmd = "burnclaim" /\ lag = 0 /\ ~LagKnown

\* A setting the command cannot do without: the metadata server, a confirmation
\* lag that is given or known for the network, an L1 host (NewGRPCClient).
Lacks ==
  \/ input.cmd = "registry" /\ cfg.endpoint["metadata"] = <<>>
  \/ input.cmd = "burnclaim" /\ lag = 0 /\ ~LagKnown
  \/ input.cmd = "burnclaim" /\ cfg.endpoint["l1"] = <<>>

\* Mutant: an unknown network is given some other network's lag.
Check_Guesses ==
  /\ pc = "check"
  /\ pc' = IF cfg.endpoint["l1"] = <<>> THEN "fatal" ELSE "connect"
  /\ lag' = IF lag = 0 THEN CHOOSE k \in {Known[n] : n \in DOMAIN Known} : TRUE ELSE lag
  /\ UNCHANGED <<input, cfg, extra, signalled, migrated>>

Check ==
  /\ pc = "check"
  /\ IF Lacks THEN pc' = "fatal" /\ UNCHANGED lag
     ELSE /\ pc' = "connect"
          /\ lag' = IF input.cmd = "burnclaim" /\ lag = 0 THEN Known[cfg.network[1]] ELSE lag
  /\ UNCHANGED <<input, cfg, extra, signalled, migrated>>

\* db.Connect, which -dry-run leaves out along with Migrate (cmd/server has no such
\* flag); it fails when the database does, or after a signal.
Connect ==
  /\ pc = "connect"
  /\ \/ pc' = "migrate" /\ ~signalled
     \/ pc' = "fatal"
     \/ pc' = "mode" /\ input.cmd # "server"
  /\ UNCHANGED <<input, cfg, lag, extra, signalled, migrated>>

\* Migrate may fail halfway.
MigrateSchema ==
  /\ pc = "migrate"
  /\ pc' \in IF signalled THEN {"fatal"} ELSE {"mode", "fatal"}
  /\ migrated' \in {migrated, TRUE}
  /\ UNCHANGED <<input, cfg, lag, extra, signalled>>

\* -mode names the one pass, the loop or neither; the server only has the loop.
\* cmd/burnclaim's scan also wants both its heights.
ChooseMode ==
  /\ pc = "mode"
  /\ pc' \in IF input.cmd = "server" THEN {"loop"} ELSE {"pass", "loop", "fatal"}
  /\ UNCHANGED <<input, cfg, lag, extra, signalled, migrated>>

\* Backfill, Sync, Poll or Scan returns, with or without an error.
EndPass ==
  /\ pc = "pass"
  /\ pc' \in {"stopped", "fatal"}
  /\ UNCHANGED <<input, cfg, lag, extra, signalled, migrated>>

\* Mutant: the error of the cancelled context is fatal, too.
EndLoop_Fatal ==
  /\ pc = "loop"
  /\ signalled
  /\ pc' = "fatal"
  /\ UNCHANGED <<input, cfg, lag, extra, signalled, migrated>>

\* Follow returns when the context is cancelled, and for nothing else; the server
\* shuts down.
EndLoop ==
  /\ pc = "loop"
  /\ signalled
  /\ pc' = "stopped"
  /\ UNCHANGED <<input, cfg, lag, extra, signalled, migrated>>

\* ListenAndServe fails, for instance because the port is taken.
ListenFails ==
  /\ pc = "loop"
  /\ input.cmd = "server"
  /\ pc' = "fatal"
  /\ UNCHANGED <<input, cfg, lag, extra, signalled, migrated>>

Signal ==
  /\ ~signalled
  /\ pc \notin {"stopped", "fatal"}
  /\ signalled' = TRUE
  /\ UNCHANGED <<input, pc, cfg, lag, extra, migrated>>

Main == Load \/ Check \/ Connect \/ MigrateSchema \/ ChooseMode \/ EndPass \/ EndLoop

Next == Main \/ ListenFails \/ Signal

Spec == Init /\ [][Next]_vars

\* Every call of main returns.
FairSpec == Spec /\ WF_vars(Main)

-----------------------------------------------------------------------------
\* Every variable has its type.
TypeOK ==
  /\ input \in Inputs
  /\ pc \in {"load", "check", "connect", "migrate", "mode", "pass", "loop", "stopped", "fatal"}
  /\ cfg.network \in NetworkNames
  /\ pc \notin {"load", "fatal"} => cfg.network # Unnamed
  /\ DOMAIN cfg.endpoint = Fields
  /\ {lag, extra} \subseteq 0..(Uint64 - 1)
  /\ {signalled, migrated} \subseteq BOOLEAN

\* A command never talks to another network's services: a file's entry is used
\* for the network it names, a local-dev default for localnet, and what the
\* operator gives comes before both, whichever of flag, environment and file
\* chose the network (Load, and its rule against implicit endpoints).
NoForeignEndpoint ==
  pc \notin {"load", "fatal"} =>
    \A f \in Fields :
      LET from == cfg.endpoint[f] IN
        /\ \A n \in Names : from = <<"file", n>> => <<n>> = cfg.network /\ n \in input.file.networks
        /\ from = <<"localnet">> => cfg.network = <<DefaultNetworkName>>
        /\ f \in FlagsOf(input.cmd) /\ input.flag = "set" => from = <<"flag">>

\* What the command cannot use, said of its inputs alone: a file that cannot be
\* read, a network that the file does not define, or a required endpoint that
\* neither the operator, the file nor the local defaults give.
Nobody(f) ==
  /\ FromFlag(f) = <<>> /\ FromEnv(f) = <<>>
  /\ f \notin input.file.gives
  /\ f = "metadata" \/ input.file.networks # {} \/ ActiveNetwork # <<DefaultNetworkName>>

Unusable ==
  \/ input.file.state \in {"unreadable", "malformed"}
  \/ /\ input.file.networks # {}
     /\ \A n \in input.file.networks : ActiveNetwork # <<n>>
  \/ input.cmd = "registry" /\ Nobody("metadata")
  \/ input.cmd = "burnclaim" /\ Nobody("l1")

\* A command whose configuration is unusable stops before it has touched the
\* database: it applies no migration (main's checks come before Migrate).
RefusedTouchesNothing == Unusable => ~migrated /\ pc \notin {"pass", "loop"}

\* The lag cmd/burnclaim works with is one the operator gave or the constant of
\* the very network it runs against, never a guess (KnownBaseLayerConfirmations).
LagIsNotGuessed ==
  input.cmd = "burnclaim" /\ pc \in {"pass", "loop"} =>
    \/ lag \in Lags \ {0}
    \/ LagKnown /\ lag = Known[cfg.network[1]]

\* A signal ends a command wherever it is, and a command that is in its loop ends
\* without an error (main: an error of Follow counts only if ctx.Err() is nil).
SignalStops ==
  /\ signalled ~> pc \in {"stopped", "fatal"}
  /\ signalled /\ pc = "loop" /\ input.cmd # "server" ~> pc = "stopped"

\* Load resolves every field "from flags, env vars, an optional TOML config file,
\* and this package's local-dev defaults, in that precedence order for every
\* field": an endpoint that has a local-dev default is never empty on localnet.
\* Not so: README, section 6.
DefaultsFillGaps ==
  pc = "check" /\ cfg.network = <<DefaultNetworkName>> =>
    \A f \in Fields \ {"metadata"} : cfg.endpoint[f] # <<>>

\* StuckThreshold, in the width of its type.
StuckThreshold == (lag + extra) % Uint64

\* The threshold is "the network's real confirmation lag PLUS a configurable extra
\* margin", so that no burn still within its confirmation window is flagged.
\* Not so for absurd margins: README, section 6.
ThresholdCoversLag ==
  input.cmd = "burnclaim" /\ pc \in {"pass", "loop"} => StuckThreshold >= lag

=============================================================================
