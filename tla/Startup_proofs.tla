--------------------------- MODULE Startup_proofs ---------------------------
(***************************************************************************)
(* What a command works with, for any networks, config files, lags and     *)
(* margins: no endpoint of another network, no guessed lag, and nothing at *)
(* all if its configuration is unusable.                                   *)
(*                                                                         *)
(* The inputs do not change, so the invariant says of each control point   *)
(* what the calls before it have established about them: behind Load the   *)
(* settings are those that the inputs determine, behind Check they suffice *)
(* for the command.  Only what has passed Check reaches the database.      *)
(***************************************************************************)
EXTENDS Startup, SequenceTheorems, TLAPS

-----------------------------------------------------------------------------
(* Which source wins *)

\* The first value that is not empty, of three and of four.
LEMMA FirstOfThree ==
  ASSUME NEW a, NEW b, NEW c
  PROVE  FirstNonEmpty(<<a, b, c>>)
            = IF a # <<>> THEN a ELSE IF b # <<>> THEN b ELSE c
<1> DEFINE vals == <<a, b, c>>
           full == {i \in DOMAIN vals : vals[i] # <<>>}
           least == CHOOSE i \in full : \A j \in full : i <= j
<1>0. DOMAIN vals = 1..3 /\ vals[1] = a /\ vals[2] = b /\ vals[3] = c
  OBVIOUS
<1>1. FirstNonEmpty(vals) = IF full = {} THEN <<>> ELSE vals[least]
  BY DEF FirstNonEmpty
<1> HIDE DEF vals
<1>2. \A i : i \in full <=> i \in 1..3 /\ vals[i] # <<>>
  BY <1>0
<1> HIDE DEF full
<1>3. ASSUME NEW i \in full, \A j \in full : i <= j
      PROVE  FirstNonEmpty(vals) = vals[i]
  <2>1. least \in full /\ \A j \in full : least <= j
    BY <1>3
  <2> HIDE DEF least
  <2>2. least = i
    BY <1>2, <1>3, <2>1
  <2> QED
    BY <1>1, <1>3, <2>2
<1>4. CASE a # <<>>
  <2>1. 1 \in full /\ \A j \in full : 1 <= j
    BY <1>0, <1>2, <1>4
  <2> QED
    BY <1>0, <1>3, <1>4, <2>1 DEF vals
<1>5. CASE a = <<>> /\ b # <<>>
  <2>1. 2 \in full /\ \A j \in full : 2 <= j
    BY <1>0, <1>2, <1>5
  <2> QED
    BY <1>0, <1>3, <1>5, <2>1 DEF vals
<1>6. CASE a = <<>> /\ b = <<>> /\ c # <<>>
  <2>1. 3 \in full /\ \A j \in full : 3 <= j
    BY <1>0, <1>2, <1>6
  <2> QED
    BY <1>0, <1>3, <1>6, <2>1 DEF vals
<1>7. CASE a = <<>> /\ b = <<>> /\ c = <<>>
  <2>1. full = {}
    BY <1>0, <1>2, <1>7
  <2> QED
    BY <1>1, <1>7, <2>1 DEF vals
<1> QED
  BY <1>4, <1>5, <1>6, <1>7

\* Of four values one wins, unless all are empty.
LEMMA OneOfFour ==
  ASSUME NEW a, NEW b, NEW c, NEW d, d # <<>>
  PROVE  /\ FirstNonEmpty(<<a, b, c, d>>) \in {a, b, c, d}
         /\ FirstNonEmpty(<<a, b, c, d>>) # <<>>
<1> DEFINE vals == <<a, b, c, d>>
           full == {i \in DOMAIN vals : vals[i] # <<>>}
           least == CHOOSE i \in full : \A j \in full : i <= j
<1>0. DOMAIN vals = 1..4 /\ vals[1] = a /\ vals[2] = b /\ vals[3] = c /\ vals[4] = d
  OBVIOUS
<1>1. FirstNonEmpty(vals) = IF full = {} THEN <<>> ELSE vals[least]
  BY DEF FirstNonEmpty
<1> HIDE DEF vals
<1>2. 4 \in full /\ \A i \in full : i \in 1..4 /\ vals[i] # <<>>
  BY <1>0
<1>3. \E i \in full : \A j \in full : i <= j
  <2>1. CASE 1 \in full
    BY <1>2, <2>1
  <2>2. CASE 1 \notin full /\ 2 \in full
    BY <1>2, <2>2
  <2>3. CASE 1 \notin full /\ 2 \notin full /\ 3 \in full
    BY <1>2, <2>3
  <2>4. CASE 1 \notin full /\ 2 \notin full /\ 3 \notin full
    BY <1>2, <2>4
  <2> QED
    BY <2>1, <2>2, <2>3, <2>4
<1> HIDE DEF full
<1>4. least \in full
  BY <1>3
<1> HIDE DEF least
<1>5. FirstNonEmpty(vals) = vals[least] /\ least \in 1..4 /\ vals[least] # <<>>
  BY <1>1, <1>2, <1>4
<1>6. vals[least] \in {a, b, c, d}
  BY <1>0, <1>5
<1> QED
  BY <1>5, <1>6 DEF vals

\* Where a value comes from can be told by looking at it.
LEMMA SourcesDiffer ==
  ASSUME NEW n, NEW m
  PROVE  /\ <<"flag">> # <<>> /\ <<"env">> # <<>> /\ <<"localnet">> # <<>>
         /\ <<"file", n>> # <<>>
         /\ <<"flag">> # <<"localnet">> /\ <<"env">> # <<"localnet">>
         /\ <<"file", n>> # <<"flag">> /\ <<"file", n>> # <<"env">>
         /\ <<"file", n>> # <<"localnet">>
         /\ <<"file", n>> = <<"file", m>> => n = m
         /\ <<n>> # <<>>
         /\ <<n>> = <<m>> => n = m
<1>1. /\ Len(<<>>) = 0 /\ Len(<<n>>) = 1 /\ Len(<<"file", n>>) = 2
      /\ Len(<<"flag">>) = 1 /\ Len(<<"env">>) = 1 /\ Len(<<"localnet">>) = 1
  OBVIOUS
<1>2. /\ <<"flag">>[1] = "flag" /\ <<"env">>[1] = "env" /\ <<"localnet">>[1] = "localnet"
      /\ <<"file", n>>[2] = n /\ <<"file", m>>[2] = m /\ <<n>>[1] = n /\ <<m>>[1] = m
  OBVIOUS
<1> QED
  BY <1>1, <1>2

LEMMA FileEntry ==
  ASSUME NEW n
  PROVE  <<"file">> \o <<n>> = <<"file", n>>
<1> DEFINE S == {"file", n}
           s == <<"file">>
           t == <<n>>
<1>1. s \in Seq(S) /\ t \in Seq(S) /\ Len(s) = 1 /\ Len(t) = 1 /\ s[1] = "file" /\ t[1] = n
  OBVIOUS
<1> HIDE DEF s, t
<1>2. /\ s \o t \in Seq(S) /\ Len(s \o t) = 2
      /\ (s \o t)[1] = "file" /\ (s \o t)[2] = n
  <2>1. /\ s \o t \in Seq(S)
        /\ Len(s \o t) = Len(s) + Len(t)
        /\ \A i \in 1 .. Len(s) + Len(t) : (s \o t)[i] = IF i <= Len(s) THEN s[i] ELSE t[i - Len(s)]
    BY <1>1, ConcatProperties
  <2> QED
    BY <1>1, <2>1
<1>3. \A u \in Seq(S) : Len(u) = 2 /\ u[1] = "file" /\ u[2] = n => u = <<"file", n>>
  OBVIOUS
<1>4. s \o t = <<"file", n>>
  BY <1>2, <1>3
<1> QED
  BY <1>4 DEF s, t

-----------------------------------------------------------------------------
(* What Load gives *)

InputOK ==
  /\ input.cmd \in Commands
  /\ {input.netFlag, input.netEnv, input.file.active} \subseteq NetworkNames
  /\ input.file.networks \subseteq Names

LEMMA NetworkIsNamed ==
  ASSUME InputOK
  PROVE  \E n \in Names : ActiveNetwork = <<n>>
<1> DEFINE own == <<DefaultNetworkName>>
           file == input.file.active
<1>1. own # <<>>
  BY SourcesDiffer
<1>2. ActiveNetwork = FirstNonEmpty(<<input.netFlag, input.netEnv, file, own>>)
  BY DEF ActiveNetwork
<1> HIDE DEF own, file
<1>3. /\ ActiveNetwork \in {input.netFlag, input.netEnv, file, own}
      /\ ActiveNetwork # <<>>
  BY <1>1, <1>2, OneOfFour
<1>4. \A name \in NetworkNames : name = <<>> \/ \E n \in Names : name = <<n>>
  BY DEF NetworkNames, Unnamed
<1>5. <<DefaultNetworkName>> \in NetworkNames
  BY StartupAssumption DEF NetworkNames
<1> QED
  BY <1>3, <1>4, <1>5 DEF InputOK, own, file

\* The active network's own setting is its entry in the file, a local-dev default
\* or nothing.
LEMMA BaseIs ==
  ASSUME InputOK, ~LoadFails, NEW f
  PROVE  \/ \E n \in input.file.networks :
              ActiveNetwork = <<n>> /\ Base(f) = <<"file", n>> /\ f \in input.file.gives
         \/ /\ Base(f) = <<"localnet">> /\ ActiveNetwork = <<DefaultNetworkName>>
            /\ f # "metadata" /\ input.file.networks = {}
         \/ Base(f) = <<>>
<1>1. CASE UsesTable /\ f \in input.file.gives
  <2>1. PICK n \in input.file.networks : ActiveNetwork = <<n>>
    BY <1>1 DEF LoadFails, Defined
  <2>2. Base(f) = <<"file", n>>
    BY <1>1, <2>1, FileEntry DEF Base
  <2> QED
    BY <1>1, <2>1, <2>2
<1>2. CASE UsesTable /\ f \notin input.file.gives
  BY <1>2 DEF Base
<1>3. CASE ~UsesTable
  BY <1>3 DEF Base, UsesTable
<1> QED
  BY <1>1, <1>2, <1>3

LEMMA OperatorIs ==
  ASSUME NEW f
  PROVE  /\ FromFlag(f) \in {<<>>, <<"flag">>} /\ FromEnv(f) \in {<<>>, <<"env">>}
         /\ f \in FlagsOf(input.cmd) /\ input.flag = "set" => FromFlag(f) = <<"flag">>
BY DEF FromFlag, FromEnv, Operator

LEMMA EndpointIs ==
  ASSUME NEW f \in Fields
  PROVE  Loaded.endpoint[f] = IF FromFlag(f) # <<>> THEN FromFlag(f)
                              ELSE IF FromEnv(f) # <<>> THEN FromEnv(f) ELSE Base(f)
<1>1. Loaded.endpoint[f] = FirstNonEmpty(<<FromFlag(f), FromEnv(f), Base(f)>>)
  BY DEF Loaded
<1> QED
  BY <1>1, FirstOfThree

\* NoForeignEndpoint of what Load returns.
LEMMA LoadedIsOwn ==
  ASSUME InputOK, ~LoadFails, NEW f \in Fields
  PROVE  LET from == Loaded.endpoint[f] IN
           /\ \A n \in Names : from = <<"file", n>> =>
                <<n>> = Loaded.network /\ n \in input.file.networks
           /\ from = <<"localnet">> => Loaded.network = <<DefaultNetworkName>>
           /\ f \in FlagsOf(input.cmd) /\ input.flag = "set" => from = <<"flag">>
<1> DEFINE from == Loaded.endpoint[f]
<1>1. Loaded.network = ActiveNetwork
  BY DEF Loaded
<1>2. \/ from = <<"flag">> \/ from = <<"env">> \/ from = Base(f)
  BY EndpointIs, OperatorIs
<1>3. f \in FlagsOf(input.cmd) /\ input.flag = "set" => from = <<"flag">>
  BY EndpointIs, OperatorIs, SourcesDiffer
<1> HIDE DEF from
<1>4. from = <<"localnet">> => Loaded.network = <<DefaultNetworkName>>
  BY <1>1, <1>2, BaseIs, SourcesDiffer
<1>5. ASSUME NEW n \in Names, from = <<"file", n>>
      PROVE  <<n>> = Loaded.network /\ n \in input.file.networks
  <2>1. from = Base(f)
    BY <1>2, <1>5, SourcesDiffer
  <2>2. PICK m \in input.file.networks : ActiveNetwork = <<m>> /\ Base(f) = <<"file", m>>
    BY <1>5, <2>1, BaseIs, SourcesDiffer
  <2>3. n = m
    BY <1>5, <2>1, <2>2, SourcesDiffer
  <2> QED
    BY <1>1, <2>2, <2>3
<1> QED
  BY <1>3, <1>4, <1>5 DEF from

\* An endpoint that nobody gives stays empty.
LEMMA NobodyGives ==
  ASSUME NEW f \in Fields, Nobody(f)
  PROVE  Loaded.endpoint[f] = <<>>
<1>1. Base(f) = <<>>
  BY DEF Nobody, Base, UsesTable
<1> QED
  BY <1>1, EndpointIs DEF Nobody

-----------------------------------------------------------------------------
(* What each control point knows *)

\* Behind Load, cfg is what the inputs determine.
BehindLoad == pc \notin {"load", "fatal"} => cfg = Loaded /\ ~LoadFails

\* cmd/burnclaim's lag: one the operator gave, or the network's own.
LagFits ==
  input.cmd = "burnclaim" =>
    \/ lag \in Lags \ {0}
    \/ LagKnown /\ lag = Known[cfg.network[1]]

LagInv ==
  /\ pc \in {"load", "check"} => lag \in Lags
  /\ pc \notin {"load", "check", "fatal"} => LagFits

\* The settings suffice for the command.
Sufficient ==
  /\ ~LoadFails
  /\ input.cmd = "registry" => Loaded.endpoint["metadata"] # <<>>
  /\ input.cmd = "burnclaim" => Loaded.endpoint["l1"] # <<>>

OnlySufficient ==
  migrated \/ pc \in {"connect", "migrate", "mode", "pass", "loop"} => Sufficient

StartInv == TypeOK /\ BehindLoad /\ LagInv /\ OnlySufficient

LEMMA InputsAreOK ==
  ASSUME input \in Inputs
  PROVE  InputOK
<1>1. input.cmd \in Commands /\ input.netFlag \in NetworkNames /\ input.netEnv \in NetworkNames
      /\ input.file \in Files
  BY DEF Inputs
<1>2. \A file \in Files : file.active \in NetworkNames /\ file.networks \subseteq Names
  BY DEF Files, NoFile, NetworkNames
<1> QED
  BY <1>1, <1>2 DEF InputOK

LEMMA LoadedType ==
  ASSUME InputOK
  PROVE  /\ Loaded.network \in NetworkNames /\ Loaded.network # Unnamed
         /\ DOMAIN Loaded.endpoint = Fields
<1>1. PICK n \in Names : Loaded.network = <<n>>
  BY NetworkIsNamed DEF Loaded
<1>2. Loaded.network \in NetworkNames /\ Loaded.network # Unnamed
  BY <1>1, SourcesDiffer DEF NetworkNames, Unnamed
<1>3. DOMAIN Loaded.endpoint = Fields
  BY DEF Loaded
<1> QED
  BY <1>2, <1>3

\* A network's known lag.
LEMMA KnownLag ==
  ASSUME LagKnown
  PROVE  Known[cfg.network[1]] \in 0..(Uint64 - 1)
<1>1. PICK n \in DOMAIN Known : cfg.network = <<n>>
  BY DEF LagKnown
<1>2. cfg.network[1] = n
  BY <1>1
<1>3. Known[n] \in 1..(Uint64 - 1)
  BY StartupAssumption
<1> QED
  BY <1>2, <1>3, StartupAssumption

\* What Load returns depends on the inputs alone.
LEMMA SameInput ==
  ASSUME UNCHANGED input
  PROVE  Loaded' = Loaded /\ LoadFails' = LoadFails
BY DEF Loaded, LoadFails, ActiveNetwork, FromFlag, FromEnv, Operator, Base, UsesTable, Defined

LEMMA InitInv == Init => StartInv
<1> SUFFICES ASSUME Init PROVE StartInv
  OBVIOUS
<1>1. cfg.network = Unnamed /\ DOMAIN cfg.endpoint = Fields
  BY DEF Init, NoConfig
<1>2. lag \in 0..(Uint64 - 1) /\ extra \in 0..(Uint64 - 1)
  BY StartupAssumption DEF Init
<1>3. TypeOK
  BY <1>1, <1>2 DEF Init, TypeOK, NetworkNames
<1> QED
  BY <1>3 DEF Init, StartInv, BehindLoad, LagInv, OnlySufficient

LEMMA LoadInv ==
  ASSUME StartInv, Load
  PROVE  StartInv'
<1> USE DEF StartInv
<1>1. InputOK /\ pc = "load" /\ UNCHANGED <<input, lag, extra, signalled, migrated>>
  BY InputsAreOK DEF Load, TypeOK
<1>2. Loaded' = Loaded /\ LoadFails' = LoadFails
  BY <1>1, SameInput
<1>3. OnlySufficient'
  <2>1. pc' \in {"fatal", "check"} /\ ~(pc' \in {"connect", "migrate", "mode", "pass", "loop"})
    BY DEF Load
  <2>2. Sufficient' = Sufficient
    BY <1>1, <1>2 DEF Sufficient
  <2> QED
    BY <1>1, <2>1, <2>2 DEF OnlySufficient
<1>4. CASE LoadFails
  <2>1. pc' = "fatal" /\ cfg' = cfg
    BY <1>4 DEF Load
  <2> QED
    BY <1>1, <1>3, <2>1 DEF TypeOK, BehindLoad, LagInv
<1>5. CASE ~LoadFails
  <2>1. pc' = "check" /\ cfg' = Loaded
    BY <1>5 DEF Load
  <2>2. TypeOK'
    BY <1>1, <2>1, LoadedType DEF TypeOK
  <2>3. BehindLoad' /\ LagInv'
    BY <1>1, <1>2, <1>5, <2>1 DEF BehindLoad, LagInv
  <2> QED
    BY <1>3, <2>2, <2>3
<1> QED
  BY <1>4, <1>5

LEMMA CheckInv ==
  ASSUME StartInv, Check
  PROVE  StartInv'
<1> USE DEF StartInv
<1>1. InputOK /\ pc = "check" /\ UNCHANGED <<input, cfg, extra, signalled, migrated>>
  BY InputsAreOK DEF Check, TypeOK
<1>2. Loaded' = Loaded /\ LoadFails' = LoadFails
  BY <1>1, SameInput
<1>3. Sufficient' = Sufficient
  BY <1>1, <1>2 DEF Sufficient
<1>4. cfg = Loaded /\ ~LoadFails /\ lag \in Lags
  BY <1>1 DEF BehindLoad, LagInv
<1>5. CASE Lacks
  <2>1. pc' = "fatal" /\ lag' = lag
    BY <1>5 DEF Check
  <2> QED
    BY <1>1, <1>3, <2>1 DEF TypeOK, BehindLoad, LagInv, OnlySufficient
<1>6. CASE ~Lacks
  <2>1. /\ pc' = "connect"
        /\ lag' = IF input.cmd = "burnclaim" /\ lag = 0 THEN Known[cfg.network[1]] ELSE lag
    BY <1>6 DEF Check
  <2>2. Sufficient
    BY <1>4, <1>6 DEF Lacks, Sufficient
  <2>3. LagFits' /\ lag' \in 0..(Uint64 - 1)
    <3>1. CASE input.cmd = "burnclaim" /\ lag = 0
      <4>1. LagKnown
        BY <1>6, <3>1 DEF Lacks
      <4> QED
        BY <1>1, <2>1, <3>1, <4>1, KnownLag DEF LagFits, LagKnown
    <3>2. CASE ~(input.cmd = "burnclaim" /\ lag = 0)
      BY <1>1, <1>4, <2>1, <3>2, StartupAssumption DEF LagFits
    <3> QED
      BY <3>1, <3>2
  <2>4. TypeOK'
    BY <1>1, <2>1, <2>3 DEF TypeOK
  <2>5. BehindLoad' /\ LagInv' /\ OnlySufficient'
    BY <1>1, <1>2, <1>3, <1>4, <2>1, <2>2, <2>3 DEF BehindLoad, LagInv, OnlySufficient
  <2> QED
    BY <2>4, <2>5
<1> QED
  BY <1>5, <1>6

\* The calls behind Check leave the settings alone.
Later == Connect \/ MigrateSchema \/ ChooseMode \/ EndPass \/ EndLoop \/ ListenFails

LEMMA LaterInv ==
  ASSUME StartInv, Later \/ Signal
  PROVE  StartInv'
<1> USE DEF StartInv
<1>1. UNCHANGED <<input, cfg, lag, extra>>
  BY DEF Later, Connect, MigrateSchema, ChooseMode, EndPass, EndLoop, ListenFails, Signal
<1>2. Loaded' = Loaded /\ LoadFails' = LoadFails
  BY <1>1, SameInput
<1>3. Sufficient' = Sufficient /\ LagFits' = LagFits
  BY <1>1, <1>2 DEF Sufficient, LagFits, LagKnown
<1>4. CASE Later
  <2>1. /\ pc \in {"connect", "migrate", "mode", "pass", "loop"}
        /\ pc' \in {"migrate", "mode", "pass", "loop", "stopped", "fatal"}
        /\ signalled' = signalled /\ migrated' \in {migrated, TRUE}
    BY <1>4 DEF Later, Connect, MigrateSchema, ChooseMode, EndPass, EndLoop, ListenFails
  <2>2. Sufficient
    BY <2>1 DEF OnlySufficient
  <2>3. TypeOK'
    BY <1>1, <2>1 DEF TypeOK
  <2> QED
    BY <1>1, <1>2, <1>3, <2>1, <2>2, <2>3 DEF BehindLoad, LagInv, OnlySufficient
<1>5. CASE Signal
  <2>1. pc' = pc /\ migrated' = migrated /\ signalled' = TRUE
    BY <1>5 DEF Signal
  <2>2. TypeOK'
    BY <1>1, <2>1 DEF TypeOK
  <2> QED
    BY <1>1, <1>2, <1>3, <2>1, <2>2 DEF BehindLoad, LagInv, OnlySufficient
<1> QED
  BY <1>4, <1>5

LEMMA StartInvHolds == Spec => []StartInv
<1>1. StartInv /\ [Next]_vars => StartInv'
  <2> SUFFICES ASSUME StartInv, [Next]_vars PROVE StartInv'
    OBVIOUS
  <2>1. CASE UNCHANGED vars
    <3>1. UNCHANGED <<input, pc, cfg, lag, extra, signalled, migrated>>
      BY <2>1 DEF vars
    <3>2. Loaded' = Loaded /\ LoadFails' = LoadFails
      BY <3>1, SameInput
    <3>3. Sufficient' = Sufficient /\ LagFits' = LagFits
      BY <3>1, <3>2 DEF Sufficient, LagFits, LagKnown
    <3> QED
      BY <3>1, <3>2, <3>3 DEF StartInv, TypeOK, BehindLoad, LagInv, OnlySufficient
  <2> QED
    BY <2>1, LoadInv, CheckInv, LaterInv DEF Next, Main, Later
<1> QED
  BY InitInv, <1>1, PTL DEF Spec

\* Every variable of Startup has its type, and a command that has loaded its
\* settings knows its network by name (Load).
THEOREM TypeCorrect == Spec => []TypeOK
<1>1. StartInv => TypeOK
  BY DEF StartInv
<1> QED
  BY StartInvHolds, <1>1, PTL

\* A command never works with an endpoint of another network, and what the operator
\* gives by flag comes first, for any networks and any config file (Load).
THEOREM OwnEndpointsOnly == Spec => []NoForeignEndpoint
<1>1. StartInv => NoForeignEndpoint
  <2> SUFFICES ASSUME StartInv, pc \notin {"load", "fatal"}, NEW f \in Fields
               PROVE  LET from == cfg.endpoint[f] IN
                        /\ \A n \in Names : from = <<"file", n>> =>
                             <<n>> = cfg.network /\ n \in input.file.networks
                        /\ from = <<"localnet">> => cfg.network = <<DefaultNetworkName>>
                        /\ f \in FlagsOf(input.cmd) /\ input.flag = "set" => from = <<"flag">>
    BY DEF NoForeignEndpoint
  <2>1. InputOK /\ cfg = Loaded /\ ~LoadFails
    BY InputsAreOK DEF StartInv, TypeOK, BehindLoad
  <2> QED
    BY <2>1, LoadedIsOwn
<1> QED
  BY StartInvHolds, <1>1, PTL

\* A command whose configuration is unusable has not touched the database, and never
\* gets to work (main's checks come before Connect and Migrate).
THEOREM UnusableTouchesNothing == Spec => []RefusedTouchesNothing
<1>1. StartInv => RefusedTouchesNothing
  <2> SUFFICES ASSUME StartInv, Unusable PROVE ~migrated /\ pc \notin {"pass", "loop"}
    BY DEF RefusedTouchesNothing
  <2>1. "metadata" \in Fields /\ "l1" \in Fields
    BY DEF Fields, ListFields
  <2>2. ~Sufficient
    BY <2>1, NobodyGives DEF Unusable, Sufficient, LoadFails, UsesTable, Defined
  <2> QED
    BY <2>2 DEF StartInv, OnlySufficient
<1> QED
  BY StartInvHolds, <1>1, PTL

\* The confirmation lag cmd/burnclaim works with is one the operator gave or its own
\* network's constant (KnownBaseLayerConfirmations, cmd/burnclaim).
THEOREM NoGuessedLag == Spec => []LagIsNotGuessed
<1>1. StartInv => LagIsNotGuessed
  BY DEF StartInv, LagInv, LagFits, LagIsNotGuessed
<1> QED
  BY StartInvHolds, <1>1, PTL

-----------------------------------------------------------------------------
(* How far the two claims that README, section 6 disagrees with do hold *)

\* Without a table of networks in the file, localnet's endpoints are never empty:
\* it is the table that switches the local-dev defaults off (Load).
DefaultsFillWithoutTable == input.file.networks = {} => DefaultsFillGaps

THEOREM DefaultsFillUnlessTable == Spec => []DefaultsFillWithoutTable
<1>1. StartInv => DefaultsFillWithoutTable
  <2> SUFFICES ASSUME StartInv, input.file.networks = {}, pc = "check",
                      cfg.network = <<DefaultNetworkName>>, NEW f \in Fields \ {"metadata"}
               PROVE  cfg.endpoint[f] # <<>>
    BY DEF DefaultsFillWithoutTable, DefaultsFillGaps
  <2>1. cfg = Loaded
    BY DEF StartInv, BehindLoad
  <2>2. ActiveNetwork = <<DefaultNetworkName>>
    BY <2>1 DEF Loaded
  <2>3. Base(f) = <<"localnet">>
    BY <2>2 DEF Base, UsesTable
  <2>4. Base(f) # <<>>
    BY <2>3, SourcesDiffer
  <2>5. cfg.endpoint[f] = IF FromFlag(f) # <<>> THEN FromFlag(f)
                          ELSE IF FromEnv(f) # <<>> THEN FromEnv(f) ELSE Base(f)
    BY <2>1, EndpointIs
  <2> QED
    BY <2>4, <2>5
<1> QED
  BY StartInvHolds, <1>1, PTL

\* The sum of two uint64 is their sum, or falls short of both.
LEMMA SumWraps ==
  ASSUME NEW w \in Nat \ {0}, NEW a \in 0..(w - 1), NEW b \in 0..(w - 1)
  PROVE  /\ a + b < w => (a + b) % w = a + b
         /\ a + b >= w => (a + b) % w < a /\ (a + b) % w < b
<1>1. /\ a + b < w => (a + b) % w = a + b
      /\ a + b >= w => (a + b) % w = a + b - w
  OBVIOUS
<1> QED
  BY <1>1

\* The threshold covers the lag exactly if the operator's margin, added to it,
\* fits into 64 bits: nothing but the overflow can make a burn count as stuck
\* within its confirmation window (StuckThreshold).
ThresholdFailsByWrapAlone ==
  ThresholdCoversLag <=>
    (input.cmd = "burnclaim" /\ pc \in {"pass", "loop"} => lag + extra < Uint64)

THEOREM OnlyOverflowUncoversLag == Spec => []ThresholdFailsByWrapAlone
<1>1. TypeOK => ThresholdFailsByWrapAlone
  <2> SUFFICES ASSUME TypeOK
               PROVE  StuckThreshold >= lag <=> lag + extra < Uint64
    BY DEF ThresholdFailsByWrapAlone, ThresholdCoversLag
  <2>1. /\ Uint64 \in Nat \ {0}
        /\ lag \in 0..(Uint64 - 1) /\ extra \in 0..(Uint64 - 1)
    BY StartupAssumption DEF TypeOK
  <2>2. /\ lag + extra < Uint64 => StuckThreshold = lag + extra
        /\ lag + extra >= Uint64 => StuckThreshold < lag
    BY <2>1, SumWraps DEF StuckThreshold
  <2>3. StuckThreshold \in Int
    BY <2>1 DEF StuckThreshold
  <2> QED
    BY <2>1, <2>2, <2>3
<1> QED
  BY TypeCorrect, <1>1, PTL

=============================================================================
