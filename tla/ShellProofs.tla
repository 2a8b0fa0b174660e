----------------------------- MODULE ShellProofs -----------------------------
(***************************************************************************)
(* Theorems about the search for Workday's sites, the desktop shell's      *)
(* backend and the knowledge base, for any list of tenants, any number of  *)
(* starts and processes, and any number of sources and index tasks.        *)
(***************************************************************************)
EXTENDS WorkdaySites, Sidecar, Knowledge, FiniteSetTheorems, TLAPS

-----------------------------------------------------------------------------
(* WorkdaySites.                                                           *)

HuntRow == [going : BOOLEAN, at : 1 .. Len(Tenants) + 1, counted : 0 .. Resolutions,
            probed : 0 .. Resolutions, produced : 0 .. Wish]

LEMMA WorkdayNumbers ==
  /\ Resolutions \in Nat /\ Resolutions > 0 /\ Wish \in Nat /\ Wish > 0
  /\ MaxSearches \in Nat /\ MaxTurns \in Nat
  /\ Len(Tenants) \in Nat /\ Listed = 1 .. Len(Tenants)
  /\ Resting \in HuntRow /\ [Resting EXCEPT !.going = TRUE] \in HuntRow
<1>1. /\ Resolutions \in Nat /\ Resolutions > 0 /\ Wish \in Nat /\ Wish > 0
      /\ MaxSearches \in Nat /\ MaxTurns \in Nat
      /\ Len(Tenants) \in Nat /\ Listed = 1 .. Len(Tenants)
  BY WorkdayAssumption DEF Listed
<1>2. 1 \in 1 .. Len(Tenants) + 1 /\ 0 \in 0 .. Resolutions /\ 0 \in 0 .. Wish
  BY <1>1
<1> QED
  BY <1>1, <1>2 DEF Resting, HuntRow

\* A visit goes on to the next tenant.
LEMMA VisitIs ==
  ASSUME WorkdayTypeOK, OnTheList, NEW site, NEW counted \in {0, 1}, NEW probed \in {0, 1},
         hunt.counted + counted <= Resolutions, hunt.probed + probed <= Resolutions,
         Visit(site, counted, probed)
  PROVE  /\ hunt' \in HuntRow
         /\ hunt'.at = hunt.at + 1 /\ hunt'.going = hunt.going
         /\ hunt'.counted = hunt.counted + counted /\ hunt'.probed = hunt.probed + probed
<1>1. hunt \in HuntRow
  BY DEF WorkdayTypeOK, HuntRow
<1>2. PICK n \in 0 .. Wish - hunt.produced :
        hunt' = [hunt EXCEPT !.at = @ + 1, !.counted = @ + counted, !.probed = @ + probed,
                             !.produced = @ + n]
  BY DEF Visit
<1>3. /\ hunt'.at = hunt.at + 1 /\ hunt'.going = hunt.going
      /\ hunt'.counted = hunt.counted + counted /\ hunt'.probed = hunt.probed + probed
      /\ hunt'.produced = hunt.produced + n
      /\ hunt' = [going |-> hunt.going, at |-> hunt.at + 1, counted |-> hunt.counted + counted,
                  probed |-> hunt.probed + probed, produced |-> hunt.produced + n]
  BY <1>1, <1>2 DEF HuntRow
<1>4. /\ hunt.at + 1 \in 1 .. Len(Tenants) + 1
      /\ hunt.counted + counted \in 0 .. Resolutions /\ hunt.probed + probed \in 0 .. Resolutions
      /\ hunt.produced + n \in 0 .. Wish
  <2>1. hunt.at \in 1 .. Len(Tenants)
    BY WorkdayNumbers DEF OnTheList, Current
  <2>2. hunt.counted \in Nat /\ hunt.probed \in Nat /\ hunt.produced \in 0 .. Wish
    BY <1>1, WorkdayNumbers DEF HuntRow
  <2>3. hunt.produced + n \in 0 .. Wish
    BY <1>2, <2>2, WorkdayNumbers
  <2>4. hunt.at + 1 \in 1 .. Len(Tenants) + 1
    BY <2>1, WorkdayNumbers
  <2>5. hunt.counted + counted \in 0 .. Resolutions
    BY <2>2, WorkdayNumbers
  <2>6. hunt.probed + probed \in 0 .. Resolutions
    BY <2>2, WorkdayNumbers
  <2> QED
    BY <2>3, <2>4, <2>5, <2>6
<1>5. hunt.going \in BOOLEAN
  BY <1>1 DEF HuntRow
<1> QED
  BY <1>3, <1>4, <1>5 DEF HuntRow

\* A tenant that was passed is remembered, or the search had no resolution left for it.
HuntInv ==
  hunt.going =>
    /\ hunt.counted = hunt.probed
    /\ \A t \in Listed : t < hunt.at => sites[t] \in Known \/ hunt.counted = Resolutions

LEMMA WorkdayStep ==
  WorkdayTypeOK /\ HuntInv /\ [WorkdayNext]_workdayVars => WorkdayTypeOK' /\ HuntInv'
<1> SUFFICES ASSUME WorkdayTypeOK, HuntInv, [WorkdayNext]_workdayVars
             PROVE  WorkdayTypeOK' /\ HuntInv'
  OBVIOUS
<1>0. /\ tenant \in [Listed -> {"there", "gone", "down"}]
      /\ sites \in [Listed -> Known \cup {"unknown"}] /\ durable \in [Listed -> Known \cup {"unknown"}]
      /\ hunt \in HuntRow /\ searches \in 0 .. MaxSearches /\ turns \in 0 .. MaxTurns
  BY DEF WorkdayTypeOK, HuntRow
<1>1. hunt.at \in Nat /\ hunt.counted \in 0 .. Resolutions /\ hunt.probed \in 0 .. Resolutions
  BY <1>0, WorkdayNumbers, SMTT(30) DEF HuntRow
\* One tenant further, which is remembered now or cannot be probed for.
<1>a. ASSUME OnTheList, NEW site, NEW used \in {0, 1}, Visit(site, used, used),
             hunt.counted + used <= Resolutions,
             sites' \in [Listed -> Known \cup {"unknown"}],
             durable' \in [Listed -> Known \cup {"unknown"}],
             \A t \in Listed : sites[t] \in Known => sites'[t] \in Known,
             sites'[Current] \in Known \/ hunt.counted = Resolutions,
             UNCHANGED <<tenant, searches, turns>>
      PROVE  WorkdayTypeOK' /\ HuntInv'
  <2>1. hunt.going /\ hunt.counted = hunt.probed
    BY <1>a DEF OnTheList, HuntInv
  <2>2. /\ hunt' \in HuntRow
        /\ hunt'.at = hunt.at + 1 /\ hunt'.going = hunt.going
        /\ hunt'.counted = hunt.counted + used /\ hunt'.probed = hunt.probed + used
    BY <1>a, <2>1, VisitIs
  <2>3. WorkdayTypeOK'
    BY <1>0, <1>a, <2>2 DEF WorkdayTypeOK, HuntRow
  <2>4. hunt'.counted = hunt'.probed
    BY <2>1, <2>2
  <2>5. ASSUME NEW t \in Listed, t < hunt'.at
        PROVE  sites'[t] \in Known \/ hunt'.counted = Resolutions
    <3>1. hunt.counted = Resolutions => hunt'.counted = Resolutions
      BY <1>1, <1>a, <2>2, WorkdayNumbers
    <3>2. t \in Nat /\ (t < hunt.at \/ t = Current)
      BY <1>1, <2>2, <2>5, WorkdayNumbers DEF Current
    <3>3. CASE t < hunt.at
      BY <1>a, <2>1, <3>1, <3>3 DEF HuntInv
    <3>4. CASE t = Current
      BY <1>a, <3>1, <3>4
    <3> QED
      BY <3>2, <3>3, <3>4
  <2> QED
    BY <2>3, <2>4, <2>5 DEF HuntInv
<1>2. CASE BeginHunt
  <2>1. hunt' \in HuntRow /\ hunt'.counted = 0 /\ hunt'.probed = 0 /\ hunt'.at = 1
    BY <1>2, WorkdayNumbers DEF BeginHunt, Resting
  <2>2. searches' \in 0 .. MaxSearches
    BY <1>0, <1>2, WorkdayNumbers DEF BeginHunt
  <2>3. \A t \in Listed : ~ (t < 1)
    BY WorkdayNumbers
  <2> QED
    BY <1>0, <1>2, <2>1, <2>2, <2>3 DEF BeginHunt, WorkdayTypeOK, HuntInv, HuntRow
<1>3. CASE Remembered
  <2>1. hunt.counted + 0 <= Resolutions
    BY <1>1
  <2> QED
    BY <1>0, <1>3, <1>a, <2>1 DEF Remembered
<1>4. CASE ReadDurable
  <2>1. hunt.counted + 0 <= Resolutions /\ Current \in Listed
    BY <1>1, <1>4 DEF ReadDurable, OnTheList
  <2>2. PICK site : site = durable[Current]
    OBVIOUS
  <2>3. /\ OnTheList /\ site \in Known /\ sites' = [sites EXCEPT ![Current] = site]
        /\ Visit(site, 0, 0) /\ UNCHANGED <<tenant, durable, searches, turns>>
    BY <1>4, <2>2 DEF ReadDurable
  <2> QED
    BY <1>0, <1>a, <2>1, <2>3
<1>5. CASE ProbeShards
  <2>1. PICK found \in Known :
          /\ sites' = [sites EXCEPT ![Current] = found]
          /\ durable' = [durable EXCEPT ![Current] = found]
          /\ Visit(found, 1, 1)
    BY <1>5 DEF ProbeShards, Known
  <2>2. /\ OnTheList /\ Current \in Listed /\ hunt.counted + 1 <= Resolutions
        /\ UNCHANGED <<tenant, searches, turns>>
    BY <1>1, <1>5, WorkdayNumbers DEF ProbeShards, OnTheList
  <2>3. /\ sites' \in [Listed -> Known \cup {"unknown"}]
        /\ durable' \in [Listed -> Known \cup {"unknown"}]
        /\ sites'[Current] = found /\ \A t \in Listed : t # Current => sites'[t] = sites[t]
    BY <1>0, <2>1, <2>2
  <2> QED
    BY <1>0, <1>a, <2>1, <2>2, <2>3
<1>6. CASE PutOff
  <2>1. hunt.counted + 0 <= Resolutions /\ hunt.counted = Resolutions
    BY <1>1, <1>6, WorkdayNumbers DEF PutOff
  <2> QED
    BY <1>0, <1>6, <1>a, <2>1 DEF PutOff
<1>7. CASE EndHunt
  <2>1. hunt' \in HuntRow /\ hunt'.going = FALSE
    BY <1>0, <1>7 DEF EndHunt, HuntRow
  <2> QED
    BY <1>0, <1>7, <2>1 DEF EndHunt, WorkdayTypeOK, HuntInv, HuntRow
<1>8. CASE ResolutionExpires
  <2>1. durable' \in [Listed -> Known \cup {"unknown"}]
    BY <1>0, <1>8 DEF ResolutionExpires
  <2> QED
    BY <1>0, <1>8, <2>1 DEF ResolutionExpires, WorkdayTypeOK, HuntInv, HuntRow
<1>9. CASE TenantTurns
  <2>1. tenant' \in [Listed -> {"there", "gone", "down"}] /\ turns' \in 0 .. MaxTurns
    BY <1>0, <1>9, WorkdayNumbers DEF TenantTurns
  <2> QED
    BY <1>0, <1>9, <2>1 DEF TenantTurns, WorkdayTypeOK, HuntInv, HuntRow
<1>10. CASE ProcessRestarts
  <2>1. hunt' \in HuntRow /\ hunt'.going = FALSE
    BY <1>10, WorkdayNumbers DEF ProcessRestarts, Resting
  <2>2. turns' \in 0 .. MaxTurns
    BY <1>0, <1>10, WorkdayNumbers DEF ProcessRestarts
  <2>3. sites' \in [Listed -> Known \cup {"unknown"}]
    BY <1>10 DEF ProcessRestarts
  <2> QED
    BY <1>0, <1>10, <2>1, <2>2, <2>3 DEF ProcessRestarts, WorkdayTypeOK, HuntInv, HuntRow
<1>11. CASE UNCHANGED workdayVars
  BY <1>11 DEF workdayVars, WorkdayTypeOK, HuntInv
<1> QED
  BY <1>2, <1>3, <1>4, <1>5, <1>6, <1>7, <1>8, <1>9, <1>10, <1>11 DEF WorkdayNext

LEMMA WorkdayStart == WorkdayInit => WorkdayTypeOK /\ HuntInv
<1> SUFFICES ASSUME WorkdayInit PROVE WorkdayTypeOK /\ HuntInv
  OBVIOUS
<1>1. hunt \in HuntRow /\ hunt.going = FALSE
  BY WorkdayNumbers DEF WorkdayInit, Resting
<1> QED
  BY <1>1, WorkdayNumbers DEF WorkdayInit, WorkdayTypeOK, HuntInv, HuntRow

\* The memo, the durable cache and the search have their types.
THEOREM WorkdayTypes == WorkdaySpec => []WorkdayTypeOK
BY WorkdayStart, WorkdayStep, PTL DEF WorkdaySpec

\* A search that read its whole list has probed for as many tenants as it may or leaves
\* none behind that nobody has looked for: for any list, any bound on resolutions, and
\* whatever expires, restarts or turns between searches (workday.py:283-287).
THEOREM SearchesAdvance == WorkdaySpec => ColdStartAdvances
<1>1. ASSUME WorkdayTypeOK, HuntInv, EndHunt, hunt.produced < Wish
      PROVE  hunt.probed = Resolutions \/ \A t \in Listed : sites[t] \in Known
  <2>1. hunt \in HuntRow /\ hunt.going
    BY <1>1 DEF WorkdayTypeOK, HuntRow, EndHunt
  <2>2. hunt.at \notin Listed /\ hunt.at \in 1 .. Len(Tenants) + 1
    BY <1>1, <2>1 DEF EndHunt, OnTheList, Current, HuntRow
  <2>3. \A t \in Listed : t < hunt.at
    BY <2>2, WorkdayNumbers
  <2> QED
    BY <1>1, <2>1, <2>3 DEF HuntInv
<1>2. WorkdayTypeOK /\ HuntInv =>
        [EndHunt /\ hunt.produced < Wish =>
           hunt.probed = Resolutions \/ \A t \in Listed : sites[t] \in Known]_workdayVars
  BY <1>1
<1> QED
  BY <1>2, WorkdayStart, WorkdayStep, PTL DEF WorkdaySpec, ColdStartAdvances

-----------------------------------------------------------------------------
(* Sidecar: types.                                                         *)

InnerRow == [child : Procs \cup {None}, gen : Nat]
StatusRow == [phase : Phase, port : Procs \cup {None, External}, managed : BOOLEAN]
CallRow == [step : CallSteps, taken : Procs \cup {None}, port : Procs \cup {None, External},
            mine : Procs \cup {None}, gen : Nat, polls : 0 .. MaxPolls]
ShellRow == [state : {"running", "quitting", "exited"}, left : 0 .. 3]
Excuses == {"overlap", "kill_error", "slow", "exit"}

LEMMA ShellNumbers ==
  /\ MaxSpawns \in Nat /\ MaxPolls \in Nat /\ Main \notin Starters
  /\ None \notin Procs /\ External \notin Procs
  /\ Rest \in CallRow /\ [Rest EXCEPT !.step = "starting"] \in CallRow
<1>1. /\ MaxSpawns \in Nat /\ MaxPolls \in Nat /\ Main \notin Starters
      /\ None \notin Procs /\ External \notin Procs
  BY SpawnsAssumption DEF Main, None, External, Procs
<1>2. 0 \in 0 .. MaxPolls
  BY <1>1
<1> QED
  BY <1>1, <1>2 DEF Rest, CallRow, CallSteps

\* Moving one caller to another step, or back to rest.
LEMMA CallMoves ==
  ASSUME call \in [Threads -> CallRow], NEW c \in Threads
  PROVE  /\ Return(c) => call' \in [Threads -> CallRow]
         /\ \A s \in CallSteps : To(c, s) => call' \in [Threads -> CallRow]
<1>1. Return(c) => call' \in [Threads -> CallRow]
  BY ShellNumbers DEF Return
<1>2. ASSUME NEW s \in CallSteps, To(c, s) PROVE call' \in [Threads -> CallRow]
  <2> DEFINE row == [call[c] EXCEPT !.step = s]
  <2>1. row \in CallRow
    BY DEF CallRow
  <2>2. call' = [call EXCEPT ![c] = row]
    BY <1>2 DEF To
  <2> HIDE DEF row
  <2> QED
    BY <2>1, <2>2
<1> QED
  BY <1>1, <1>2

\* A health request is under way only while attempts are left.
ProbeInv == \A c \in Threads : call[c].step = "probe" => call[c].polls < MaxPolls

LEMMA ProbeStep == ShellTypeOK /\ ProbeInv /\ [ShellNext]_shellVars => ProbeInv'
<1> SUFFICES ASSUME ShellTypeOK, ProbeInv, [ShellNext]_shellVars, NEW d \in Threads,
                    call'[d].step = "probe"
             PROVE  call'[d].polls < MaxPolls
  BY DEF ProbeInv
<1>1. /\ call \in [Threads -> CallRow] /\ Rest.step # "probe" /\ Starters \subseteq Threads
      /\ [Rest EXCEPT !.step = "starting"].step # "probe"
  BY DEF ShellTypeOK, CallRow, Rest, Threads
<1>2. CASE call'[d] = call[d]
  BY <1>2 DEF ProbeInv
<1>3. CASE \E c \in Threads : Check(c)
  BY <1>1, <1>3, ShellNumbers DEF Check, To, Return, CallRow, ProbeInv
<1>4. CASE \E c \in Threads : Take(c)
  BY <1>1, <1>2, <1>4 DEF Take
<1>a. ASSUME NEW c \in Threads, NEW s, s # "probe", To(c, s) PROVE call'[d] = call[d]
  BY <1>1, <1>a DEF To
<1>b. ASSUME NEW c \in Threads, Return(c) PROVE call'[d] = call[d]
  BY <1>1, <1>b DEF Return
<1>5. CASE \E c \in Threads : AskHealth(c) \/ Spawn(c) \/ RecordChild(c)
  <2>1. PICK c \in Threads : AskHealth(c) \/ Spawn(c) \/ RecordChild(c)
    BY <1>5
  <2>2. CASE AskHealth(c)
    <3> DEFINE n == call[c].polls + 1
    <3>1. \/ To(c, "ready")
          \/ call' = [call EXCEPT ![c].step = "check", ![c].polls = n]
      BY <2>2 DEF AskHealth
    <3> HIDE DEF n
    <3>2. CASE To(c, "ready")
      BY <1>2, <1>a, <3>2
    <3>3. CASE call' = [call EXCEPT ![c].step = "check", ![c].polls = n]
      BY <1>1, <1>2, <3>3
    <3> QED
      BY <3>1, <3>2, <3>3
  <2>3. CASE Spawn(c)
    <3>1. \/ Return(c)
          \/ \E b \in Procs : call' = [call EXCEPT ![c].step = "record", ![c].mine = b]
      BY <2>3 DEF Spawn
    <3>2. ASSUME NEW b \in Procs, call' = [call EXCEPT ![c].step = "record", ![c].mine = b]
          PROVE  call'[d] = call[d]
      BY <1>1, <3>2
    <3> QED
      BY <1>2, <1>b, <3>1, <3>2
  <2>4. CASE RecordChild(c)
    BY <1>1, <1>2, <2>4 DEF RecordChild
  <2> QED
    BY <2>1, <2>2, <2>3, <2>4
<1>6. CASE \E c \in Threads : \/ Call(c) \/ Kill(c) \/ Wait(c) \/ AwaitPort(c) \/ Announce(c)
                            \/ PublishStarting(c) \/ Attach(c) \/ PublishVerdict(c)
  BY <1>2, <1>6, <1>a, <1>b
  DEF Call, Kill, Wait, AwaitPort, Announce, PublishStarting, Attach, PublishVerdict
<1>7. CASE \E c \in Threads : PublishStopped(c)
  BY <1>1, <1>2, <1>7 DEF PublishStopped
<1>8. CASE ShutdownOnMain
  BY <1>1, <1>2, <1>8 DEF ShutdownOnMain, To, Threads
<1>9. CASE Exit
  BY <1>1, <1>9 DEF Exit
<1>10. CASE Quit \/ (\E b \in Procs : Reaped(b) \/ Exits(b)) \/ UNCHANGED shellVars
  BY <1>2, <1>10 DEF Quit, Reaped, Exits, shellVars
<1> QED
  BY <1>1, <1>3, <1>4, <1>5, <1>6, <1>7, <1>8, <1>9, <1>10 DEF ShellNext, Shutdown, StartSteps

LEMMA ShellTypesStep == ShellTypeOK /\ ProbeInv /\ [ShellNext]_shellVars => ShellTypeOK'
<1> SUFFICES ASSUME ShellTypeOK, ProbeInv, [ShellNext]_shellVars PROVE ShellTypeOK'
  OBVIOUS
<1>0. /\ proc \in [Procs -> {"unborn", "up", "dying", "gone"}] /\ inner \in InnerRow
      /\ shown \in StatusRow /\ call \in [Threads -> CallRow] /\ shell \in ShellRow
      /\ excuse \subseteq Excuses
  BY DEF ShellTypeOK, InnerRow, StatusRow, CallRow, ShellRow, Excuses
<1> SUFFICES /\ proc' \in [Procs -> {"unborn", "up", "dying", "gone"}] /\ inner' \in InnerRow
             /\ shown' \in StatusRow /\ call' \in [Threads -> CallRow] /\ shell' \in ShellRow
             /\ excuse' \subseteq Excuses
  BY DEF ShellTypeOK, InnerRow, StatusRow, CallRow, ShellRow, Excuses
<1>1. \A c \in Threads : call[c] \in CallRow
  BY <1>0
<1>2. \A p \in Phase : Blank(p) \in StatusRow
  BY DEF Blank, StatusRow
<1>3. \A p \in Phase, b \in Procs \cup {None, External} : At(p, b) \in StatusRow
  BY DEF At, StatusRow
<1>4. ASSUME NEW c \in Starters, Call(c)
      PROVE  /\ UNCHANGED <<proc, inner, shown, shell>> /\ call' \in [Threads -> CallRow]
             /\ excuse' \subseteq Excuses
  BY <1>0, <1>4, CallMoves DEF Call, Excuses, CallSteps, Threads
<1>5. ASSUME NEW c \in Threads, Take(c)
      PROVE  /\ UNCHANGED <<proc, shown, shell>> /\ inner' \in InnerRow /\ call' \in [Threads -> CallRow]
             /\ excuse' \subseteq Excuses
  <2> DEFINE step == IF inner.child = None THEN "stopped" ELSE "kill"
             row == [call[c] EXCEPT !.step = step, !.taken = inner.child, !.port = shown.port]
  <2>1. row \in CallRow
    BY <1>0, <1>1 DEF CallRow, CallSteps, InnerRow, StatusRow
  <2>2. call' = [call EXCEPT ![c] = row]
    BY <1>5 DEF Take
  <2> HIDE DEF row
  <2>3. call' \in [Threads -> CallRow]
    BY <1>0, <2>1, <2>2
  <2> QED
    BY <1>0, <1>5, <2>3 DEF Take, InnerRow, Excuses
<1>6. ASSUME NEW c \in Threads, Kill(c)
      PROVE  /\ UNCHANGED <<inner, shown, shell>> /\ call' \in [Threads -> CallRow]
             /\ proc' \in [Procs -> {"unborn", "up", "dying", "gone"}] /\ excuse' \subseteq Excuses
  BY <1>0, <1>6, CallMoves DEF Kill, Excuses, CallSteps
<1>7. ASSUME NEW c \in Threads, Wait(c)
      PROVE  /\ UNCHANGED <<proc, inner, shown, shell>> /\ call' \in [Threads -> CallRow]
             /\ excuse' \subseteq Excuses
  BY <1>0, <1>7, CallMoves DEF Wait, Excuses, CallSteps
<1>8. ASSUME NEW c \in Threads, AwaitPort(c)
      PROVE  UNCHANGED <<proc, inner, shown, shell, excuse>> /\ call' \in [Threads -> CallRow]
  BY <1>0, <1>8, CallMoves DEF AwaitPort, CallSteps
<1>9. ASSUME NEW c \in Threads, PublishStopped(c)
      PROVE  /\ UNCHANGED <<proc, inner, shell, excuse>> /\ call' \in [Threads -> CallRow]
             /\ shown' \in StatusRow
  BY <1>0, <1>2, <1>9, ShellNumbers DEF PublishStopped, Phase
<1>10. ASSUME NEW c \in Starters, StartSteps(c)
       PROVE  /\ proc' \in [Procs -> {"unborn", "up", "dying", "gone"}] /\ inner' \in InnerRow
              /\ shown' \in StatusRow /\ call' \in [Threads -> CallRow] /\ UNCHANGED <<shell, excuse>>
  <2>0. c \in Threads /\ call[c] \in CallRow
    BY <1>0 DEF Threads
  <2>1. CASE PublishStarting(c)
    BY <1>0, <1>2, <2>0, <2>1, CallMoves DEF PublishStarting, CallSteps, Phase
  <2>2. CASE Attach(c)
    <3>1. call' \in [Threads -> CallRow]
      BY <1>0, <2>0, <2>2, CallMoves DEF Attach, CallSteps
    <3>2. shown' \in StatusRow
      BY <1>0, <1>3, <2>2 DEF Attach, Phase
    <3> QED
      BY <1>0, <2>2, <3>1, <3>2 DEF Attach
  <2>3. CASE Spawn(c)
    <3>1. ASSUME NEW b \in Procs, call' = [call EXCEPT ![c].step = "record", ![c].mine = b]
          PROVE  call' \in [Threads -> CallRow]
      <4> DEFINE row == [call[c] EXCEPT !.step = "record", !.mine = b]
      <4>1. row \in CallRow
        BY <2>0 DEF CallRow, CallSteps
      <4>2. call' = [call EXCEPT ![c] = row]
        BY <3>1
      <4> HIDE DEF row
      <4> QED
        BY <1>0, <2>0, <4>1, <4>2
    <3>2. call' \in [Threads -> CallRow]
      BY <1>0, <2>0, <2>3, <3>1, CallMoves DEF Spawn
    <3>3. proc' \in [Procs -> {"unborn", "up", "dying", "gone"}] /\ shown' \in StatusRow
      BY <1>0, <1>2, <2>3 DEF Spawn, Phase
    <3> QED
      BY <1>0, <2>3, <3>2, <3>3 DEF Spawn
  <2>4. CASE RecordChild(c)
    <3> DEFINE g == inner.gen + 1
               row == [call[c] EXCEPT !.step = "announce", !.gen = g]
    <3>1. g \in Nat
      BY <1>0 DEF InnerRow
    <3>2. inner' = [child |-> call[c].mine, gen |-> g] /\ call' = [call EXCEPT ![c] = row]
      BY <2>4 DEF RecordChild
    <3> HIDE DEF g
    <3>3. row \in CallRow /\ inner' \in InnerRow
      BY <2>0, <3>1, <3>2 DEF CallRow, CallSteps, InnerRow
    <3> HIDE DEF row
    <3> QED
      BY <1>0, <2>0, <2>4, <3>2, <3>3 DEF RecordChild
  <2>5. CASE Announce(c)
    <3>1. At("starting", call[c].mine) \in StatusRow
      BY <1>3, <2>0 DEF Phase, CallRow
    <3> QED
      BY <1>0, <2>0, <2>5, <3>1, CallMoves DEF Announce, CallSteps
  <2>6. CASE Check(c)
    BY <1>0, <2>0, <2>6, CallMoves DEF Check, CallSteps
  <2>7. CASE AskHealth(c)
    <3> DEFINE n == call[c].polls + 1
               row == [call[c] EXCEPT !.step = "check", !.polls = n]
    <3>1. n \in 0 .. MaxPolls
      BY <2>0, <2>7, ShellNumbers DEF CallRow, AskHealth, ProbeInv
    <3>2. To(c, "ready") \/ call' = [call EXCEPT ![c] = row]
      BY <2>7 DEF AskHealth
    <3> HIDE DEF n
    <3>3. row \in CallRow
      BY <2>0, <3>1 DEF CallRow, CallSteps
    <3> HIDE DEF row
    <3>4. call' \in [Threads -> CallRow]
      BY <1>0, <2>0, <3>2, <3>3, CallMoves DEF CallSteps
    <3> QED
      BY <1>0, <2>7, <3>4 DEF AskHealth
  <2>8. CASE PublishVerdict(c)
    <3>1. At("ready", call[c].mine) \in StatusRow /\ At("failed", call[c].mine) \in StatusRow
          /\ Blank("failed") \in StatusRow
      BY <1>2, <1>3, <2>0 DEF Phase, CallRow
    <3>2. shown' \in StatusRow
      BY <2>8, <3>1 DEF PublishVerdict
    <3> QED
      BY <1>0, <2>0, <2>8, <3>2, CallMoves DEF PublishVerdict
  <2> QED
    BY <1>10, <2>1, <2>2, <2>3, <2>4, <2>5, <2>6, <2>7, <2>8 DEF StartSteps
<1>11. ASSUME NEW b \in Procs, Reaped(b) \/ Exits(b)
       PROVE  /\ UNCHANGED <<inner, shown, call, shell, excuse>>
              /\ proc' \in [Procs -> {"unborn", "up", "dying", "gone"}]
  BY <1>0, <1>11 DEF Reaped, Exits
<1>12. CASE Quit
  <2>1. \A n \in 1 .. 3 : [state |-> "quitting", left |-> n] \in ShellRow
    BY DEF ShellRow
  <2> QED
    BY <1>0, <1>12, <2>1 DEF Quit
<1>13. CASE ShutdownOnMain
  <2>1. shell.left \in 0 .. 3 /\ shell.left > 0
    BY <1>0, <1>13 DEF ShutdownOnMain, ShellRow
  <2>2. shell.left - 1 \in 0 .. 3
    BY <2>1
  <2>3. shell' \in ShellRow
    BY <1>0, <1>13, <2>2 DEF ShutdownOnMain, ShellRow
  <2>4. call' \in [Threads -> CallRow]
    BY <1>0, <1>13, CallMoves DEF ShutdownOnMain, CallSteps, Threads
  <2> QED
    BY <1>0, <1>13, <2>3, <2>4 DEF ShutdownOnMain, Excuses
<1>14. CASE Exit
  <2>1. shell' \in ShellRow /\ call' \in [Threads -> CallRow]
    BY <1>14, ShellNumbers DEF Exit, ShellRow
  <2> QED
    BY <1>0, <1>14, <2>1 DEF Exit
<1>15. CASE UNCHANGED shellVars
  BY <1>0, <1>15 DEF shellVars
<1> QED
  BY <1>0, <1>4, <1>5, <1>6, <1>7, <1>8, <1>9, <1>10, <1>11, <1>12, <1>13, <1>14, <1>15
  DEF ShellNext, Shutdown

LEMMA ShellTypesInit == ShellInit => ShellTypeOK /\ ProbeInv
<1> SUFFICES ASSUME ShellInit PROVE ShellTypeOK /\ ProbeInv
  OBVIOUS
<1>1. /\ call \in [Threads -> CallRow] /\ inner \in InnerRow /\ shown \in StatusRow
      /\ shell \in ShellRow
  BY ShellNumbers DEF ShellInit, InnerRow, StatusRow, Blank, Phase, ShellRow
<1> QED
  BY <1>1 DEF ShellInit, ShellTypeOK, ProbeInv, InnerRow, StatusRow, CallRow, ShellRow, Rest

\* The supervisor's state has its types, however many processes it spawns.
THEOREM ShellTypes == ShellSpec => []ShellTypeOK
BY ShellTypesInit, ShellTypesStep, ProbeStep, PTL DEF ShellSpec

-----------------------------------------------------------------------------
(* Sidecar: one backend.                                                   *)

\* A caller disposes of the child it took, or (a start) is between taking and recording.
Reaping(c) == call[c].step \in {"kill", "wait", "port"}
Clearing(c) == call[c].step \in {"kill", "wait", "port", "stopped", "starting", "attach", "spawn",
                                 "record"}

\* One start at a time is between taking the child and recording its own, no child is
\* recorded meanwhile, and the main thread disposes of none then.
LanesInv ==
  /\ \A c, d \in Starters : Clearing(c) /\ Clearing(d) => c = d
  /\ \A c \in Starters : Clearing(c) => inner.child = None /\ ~Reaping(Main)
  /\ Reaping(Main) => inner.child = None

\* A process that runs is recorded, or taken by a caller that has yet to see it gone, or
\* spawned by a start that has yet to record it.
Held(b) ==
  \/ b = inner.child
  \/ \E d \in Threads : call[d].step \in {"kill", "wait"} /\ call[d].taken = b
  \/ \E d \in Starters : call[d].step = "record" /\ call[d].mine = b
HeldInv == \A b \in Holding : Held(b)

\* From the last shutdown on no start is under way; once it has taken the child none is
\* recorded, and the exit leaves none behind.
EndInv ==
  /\ LastShutdownBegun \/ shell.state = "exited" => \A c \in Starters : call[c].step = "idle"
  /\ LastShutdownBegun /\ call[Main].step # "take" => inner.child = None
  /\ shell.state = "exited" => Holding = {}

OneInv == excuse = {} => LanesInv /\ HeldInv /\ EndInv

\* A step of one caller that leaves the shared state and the shell alone, brings no process
\* up, takes no new lane and gives up no process that runs.
LEMMA ShellFrame ==
  ASSUME LanesInv, HeldInv, EndInv, NEW c \in Threads,
         inner' = inner, shell' = shell, Holding' \subseteq Holding,
         \A d \in Threads \ {c} : call'[d] = call[d],
         Clearing(c)' => Clearing(c), Reaping(c)' => Reaping(c),
         call[c].step \notin {"idle", "record"}, call'[c].step \notin {"take", "record"},
         call[c].step # "take",
         \A b \in Holding' : call[c].step \in {"kill", "wait"} /\ call[c].taken = b
                              => call'[c].step \in {"kill", "wait"} /\ call'[c].taken = b
  PROVE  LanesInv' /\ HeldInv' /\ EndInv'
<1>0. Starters \subseteq Threads /\ Main \in Threads
  BY DEF Threads
<1>1. \A d \in Threads : (Clearing(d)' => Clearing(d)) /\ (Reaping(d)' => Reaping(d))
  BY DEF Clearing, Reaping
<1>2. LanesInv'
  BY <1>0, <1>1 DEF LanesInv
<1>3. ASSUME NEW b \in Holding' PROVE Held(b)'
  <2>1. CASE b = inner.child
    BY <2>1 DEF Held
  <2>2. CASE \E d \in Threads : call[d].step \in {"kill", "wait"} /\ call[d].taken = b
    <3>1. \E d \in Threads : call'[d].step \in {"kill", "wait"} /\ call'[d].taken = b
      BY <1>3, <2>2
    <3> QED
      BY <3>1 DEF Held
  <2>3. CASE \E d \in Starters : call[d].step = "record" /\ call[d].mine = b
    <3>1. \E d \in Starters : call'[d].step = "record" /\ call'[d].mine = b
      BY <1>0, <2>3
    <3> QED
      BY <3>1 DEF Held
  <2> QED
    BY <1>3, <2>1, <2>2, <2>3 DEF HeldInv, Held
<1>4. EndInv'
  <2>1. LastShutdownBegun' = LastShutdownBegun
    BY DEF LastShutdownBegun
  <2>2. (LastShutdownBegun \/ shell.state = "exited") => c \notin Starters
    BY DEF EndInv
  <2>3. (LastShutdownBegun \/ shell.state = "exited") => \A d \in Starters : call'[d].step = "idle"
    BY <1>0, <2>2 DEF EndInv
  <2>4. LastShutdownBegun /\ call'[Main].step # "take" => inner.child = None
    BY <1>0 DEF EndInv
  <2> QED
    BY <2>1, <2>3, <2>4 DEF EndInv
<1> QED
  BY <1>2, <1>3, <1>4 DEF HeldInv

LEMMA OneInvStep == ShellTypeOK /\ ProbeInv /\ OneInv /\ [ShellNext]_shellVars => OneInv'
<1> SUFFICES ASSUME ShellTypeOK, ProbeInv, OneInv, [ShellNext]_shellVars, excuse' = {}
             PROVE  LanesInv' /\ HeldInv' /\ EndInv'
  BY DEF OneInv
<1>0. /\ proc \in [Procs -> {"unborn", "up", "dying", "gone"}] /\ call \in [Threads -> CallRow]
      /\ inner \in InnerRow /\ shell \in ShellRow
      /\ Starters \subseteq Threads /\ Main \in Threads /\ Main \notin Starters
      /\ None \notin Procs /\ Rest.step = "idle" /\ [Rest EXCEPT !.step = "starting"].step = "starting"
  BY ShellNumbers DEF ShellTypeOK, InnerRow, CallRow, ShellRow, Threads, Rest
<1>1. excuse = {}
  BY DEF ShellNext, shellVars, Shutdown, StartSteps, Call, Take, Kill, Wait, AwaitPort,
         PublishStopped, PublishStarting, Attach, Spawn, RecordChild, Announce, Check, AskHealth,
         PublishVerdict, Reaped, Exits, Quit, ShutdownOnMain, Exit
<1>2. LanesInv /\ HeldInv /\ EndInv
  BY <1>1 DEF OneInv
<1>3. ASSUME NEW c \in Threads, NEW s, To(c, s)
      PROVE  /\ call'[c] = [call[c] EXCEPT !.step = s] /\ call'[c].step = s
             /\ call'[c].taken = call[c].taken /\ \A d \in Threads \ {c} : call'[d] = call[d]
  BY <1>0, <1>3 DEF To, CallRow
<1>4. ASSUME NEW c \in Threads, Return(c)
      PROVE  call'[c].step = "idle" /\ \A d \in Threads \ {c} : call'[d] = call[d]
  BY <1>0, <1>4 DEF Return
<1>5. proc' = proc => Holding' = Holding
  BY DEF Holding
<1>6. ASSUME NEW c \in Starters, Call(c) PROVE LanesInv' /\ HeldInv' /\ EndInv'
  <2>1. call[c].step = "idle" /\ call'[c].step = "take" /\ c # Main /\ c \in Threads
    BY <1>0, <1>3, <1>6 DEF Call, UnderWay
  <2>2. \A d \in Threads \ {c} : call'[d] = call[d]
    BY <1>3, <1>6, <2>1 DEF Call
  <2>3. \A d \in Threads : (Clearing(d)' => Clearing(d)) /\ (Reaping(d)' => Reaping(d))
    BY <2>1, <2>2 DEF Clearing, Reaping
  <2>4. LanesInv'
    BY <1>0, <1>2, <1>6, <2>3 DEF LanesInv, Call
  <2>5. ASSUME NEW b \in Holding, Held(b) PROVE Held(b)'
    BY <1>0, <1>6, <2>1, <2>2, <2>5 DEF Held, Call
  <2>6. HeldInv'
    BY <1>2, <1>5, <1>6, <2>5 DEF HeldInv, Call
  <2>7. ~LastShutdownBegun /\ ~LastShutdownBegun' /\ shell.state # "exited" /\ shell' = shell
    BY <1>6 DEF Call, Alive, LastShutdownBegun
  <2> QED
    BY <2>4, <2>6, <2>7 DEF EndInv
<1>7. ASSUME NEW c \in Threads, Take(c) PROVE LanesInv' /\ HeldInv' /\ EndInv'
  <2>1. /\ inner' = [inner EXCEPT !.child = None] /\ inner'.child = None
        /\ call[c].step = "take" /\ proc' = proc /\ shell' = shell /\ shell.state # "exited"
        /\ (c # Main => ~Overtakes(c))
    BY <1>0, <1>7 DEF Take, Alive, InnerRow
  <2>2. /\ call'[c].step = (IF inner.child = None THEN "stopped" ELSE "kill")
        /\ call'[c].taken = inner.child /\ \A d \in Threads \ {c} : call'[d] = call[d]
    BY <1>0, <1>7 DEF Take, CallRow
  <2>3. LanesInv'
    <3>1. ASSUME c # Main PROVE (\A d \in Starters \ {c} : ~Clearing(d)) /\ ~Reaping(Main)
      BY <1>0, <2>1, <3>1 DEF Overtakes, Clearing, Reaping
    <3>2. \A d \in Threads \ {c} : (Clearing(d)' = Clearing(d)) /\ (Reaping(d)' = Reaping(d))
      BY <2>2 DEF Clearing, Reaping
    <3>3. CASE c = Main
      <4>1. ASSUME NEW d \in Starters, Clearing(d)' PROVE ~Reaping(Main)'
        <5>1. inner.child = None
          BY <1>0, <1>2, <3>2, <3>3, <4>1 DEF LanesInv
        <5> QED
          BY <2>2, <3>3, <5>1 DEF Reaping
      <4> QED
        BY <1>0, <1>2, <2>1, <3>2, <3>3, <4>1 DEF LanesInv
    <3>4. CASE c # Main
      BY <1>0, <1>2, <2>1, <3>1, <3>2, <3>4 DEF LanesInv
    <3> QED
      BY <3>3, <3>4
  <2>4. ASSUME NEW b \in Holding, Held(b) PROVE Held(b)'
    <3>1. b # None /\ b \in Procs
      BY <1>0 DEF Holding
    <3>2. b = inner.child => call'[c].step \in {"kill", "wait"} /\ call'[c].taken = b
      BY <2>2, <3>1
    <3>3. \A d \in Threads : call[d].step \in {"kill", "wait", "record"} => call'[d] = call[d]
      BY <2>1, <2>2
    <3> QED
      BY <1>0, <2>4, <3>2, <3>3 DEF Held
  <2>5. HeldInv'
    BY <1>2, <1>5, <2>1, <2>4 DEF HeldInv
  <2>6. EndInv'
    <3>1. LastShutdownBegun' = LastShutdownBegun
      BY <2>1 DEF LastShutdownBegun
    <3>2. LastShutdownBegun => \A d \in Starters : call'[d].step = "idle"
      BY <1>0, <1>2, <2>1, <2>2 DEF EndInv
    <3> QED
      BY <2>1, <3>1, <3>2 DEF EndInv
  <2> QED
    BY <2>3, <2>5, <2>6
<1>8. ASSUME NEW c \in Threads, Kill(c) PROVE LanesInv' /\ HeldInv' /\ EndInv'
  <2>1. call[c].step = "kill" /\ To(c, "wait") /\ inner' = inner /\ shell' = shell
    BY <1>8 DEF Kill
  <2>2. Holding' \subseteq Holding
    BY <1>0, <1>8 DEF Kill, Holding
  <2> QED
    BY <1>2, <1>3, <2>1, <2>2, ShellFrame DEF Clearing, Reaping
<1>9. ASSUME NEW c \in Threads, Wait(c) PROVE LanesInv' /\ HeldInv' /\ EndInv'
  <2>1. /\ call[c].step = "wait" /\ To(c, "port") /\ inner' = inner /\ shell' = shell
        /\ proc' = proc /\ proc[call[c].taken] = "gone"
    BY <1>9 DEF Wait
  <2>2. Holding' \subseteq Holding /\ \A b \in Holding' : call[c].taken # b
    BY <1>5, <2>1 DEF Holding
  <2>3. call'[c].step = "port" /\ \A d \in Threads \ {c} : call'[d] = call[d]
    BY <1>3, <2>1
  <2>4. (Clearing(c)' => Clearing(c)) /\ (Reaping(c)' => Reaping(c))
    BY <2>1 DEF Clearing, Reaping
  <2> QED
    BY <1>2, <2>1, <2>2, <2>3, <2>4, ShellFrame
<1>10. ASSUME NEW c \in Threads,
              AwaitPort(c) \/ PublishStarting(c) \/ Announce(c)
       PROVE  LanesInv' /\ HeldInv' /\ EndInv'
  <2>1. /\ inner' = inner /\ shell' = shell /\ proc' = proc
        /\ \/ call[c].step = "port" /\ To(c, "stopped")
           \/ call[c].step = "starting" /\ To(c, "attach")
           \/ call[c].step = "announce" /\ To(c, "check")
    BY <1>10 DEF AwaitPort, PublishStarting, Announce
  <2>2. Holding' = Holding
    BY <1>5, <2>1
  <2>3. /\ call'[c].step \in {"stopped", "attach", "check"}
        /\ call[c].step = "announce" => call'[c].step = "check"
        /\ call[c].step = "starting" => call'[c].step = "attach"
        /\ \A d \in Threads \ {c} : call'[d] = call[d]
    BY <1>3, <2>1
  <2>4. (Clearing(c)' => Clearing(c)) /\ (Reaping(c)' => Reaping(c))
    BY <2>1, <2>3 DEF Clearing, Reaping
  <2> QED
    BY <1>2, <2>1, <2>2, <2>3, <2>4, ShellFrame
<1>11. ASSUME NEW c \in Threads, PublishStopped(c) PROVE LanesInv' /\ HeldInv' /\ EndInv'
  <2>1. inner' = inner /\ shell' = shell /\ proc' = proc /\ call[c].step = "stopped"
    BY <1>11 DEF PublishStopped
  <2>2. /\ call'[c].step \in {"idle", "starting"} /\ \A d \in Threads \ {c} : call'[d] = call[d]
    BY <1>0, <1>11 DEF PublishStopped
  <2>3. Holding' = Holding
    BY <1>5, <2>1
  <2> QED
    BY <1>2, <2>1, <2>2, <2>3, ShellFrame DEF Clearing, Reaping
<1>12. ASSUME NEW c \in Threads, Attach(c) \/ Check(c) \/ PublishVerdict(c)
       PROVE  LanesInv' /\ HeldInv' /\ EndInv'
  <2>1. /\ inner' = inner /\ shell' = shell /\ proc' = proc
        /\ \/ call[c].step = "attach" /\ (Return(c) \/ To(c, "spawn"))
           \/ /\ call[c].step = "check"
              /\ Return(c) \/ To(c, "silent") \/ To(c, "dead") \/ To(c, "probe")
           \/ call[c].step \in {"ready", "dead", "silent"} /\ Return(c)
    BY <1>12 DEF Attach, Check, PublishVerdict
  <2>2. Holding' = Holding
    BY <1>5, <2>1
  <2>3. /\ call'[c].step \in {"idle", "spawn", "silent", "dead", "probe"}
        /\ call'[c].step = "spawn" => call[c].step = "attach"
        /\ \A d \in Threads \ {c} : call'[d] = call[d]
    BY <1>3, <1>4, <2>1
  <2> QED
    BY <1>2, <2>1, <2>2, <2>3, ShellFrame DEF Clearing, Reaping
<1>13. ASSUME NEW c \in Threads, AskHealth(c) PROVE LanesInv' /\ HeldInv' /\ EndInv'
  <2> DEFINE n == call[c].polls + 1
  <2>1. /\ inner' = inner /\ shell' = shell /\ proc' = proc /\ call[c].step = "probe"
        /\ To(c, "ready") \/ call' = [call EXCEPT ![c].step = "check", ![c].polls = n]
    BY <1>13 DEF AskHealth
  <2> HIDE DEF n
  <2>2. /\ call'[c].step \in {"ready", "check"} /\ \A d \in Threads \ {c} : call'[d] = call[d]
    <3>1. CASE To(c, "ready")
      BY <1>3, <3>1
    <3>2. CASE call' = [call EXCEPT ![c].step = "check", ![c].polls = n]
      BY <1>0, <3>2 DEF CallRow
    <3> QED
      BY <2>1, <3>1, <3>2
  <2>3. Holding' = Holding
    BY <1>5, <2>1
  <2> QED
    BY <1>2, <2>1, <2>2, <2>3, ShellFrame DEF Clearing, Reaping
<1>14. ASSUME NEW c \in Starters, Spawn(c) PROVE LanesInv' /\ HeldInv' /\ EndInv'
  <2>0. /\ c \in Threads /\ call[c].step = "spawn" /\ inner' = inner /\ shell' = shell
    BY <1>0, <1>14 DEF Spawn
  <2>1. CASE Return(c) /\ proc' = proc
    BY <1>2, <1>4, <1>5, <2>0, <2>1, ShellFrame DEF Clearing, Reaping
  <2>2. ASSUME NEW b \in Procs, proc' = [proc EXCEPT ![b] = "up"],
               call' = [call EXCEPT ![c].step = "record", ![c].mine = b]
        PROVE  LanesInv' /\ HeldInv' /\ EndInv'
    <3>1. /\ call'[c].step = "record" /\ call'[c].mine = b
          /\ \A d \in Threads \ {c} : call'[d] = call[d]
      BY <1>0, <2>0, <2>2 DEF CallRow
    <3>2. Holding' \subseteq Holding \cup {b}
      BY <1>0, <2>2 DEF Holding
    <3>3. \A d \in Threads : (Clearing(d)' = Clearing(d)) /\ (Reaping(d)' = Reaping(d))
      BY <2>0, <3>1 DEF Clearing, Reaping
    <3>4. LanesInv'
      BY <1>0, <1>2, <2>0, <3>3 DEF LanesInv
    <3>5. ASSUME NEW p \in Holding, Held(p) PROVE Held(p)'
      <4>1. \A d \in Threads : call[d].step \in {"kill", "wait", "record"} => call'[d] = call[d]
        BY <2>0, <3>1
      <4> QED
        BY <1>0, <2>0, <3>5, <4>1 DEF Held
    <3>6. Held(b)'
      BY <3>1 DEF Held
    <3>7. HeldInv'
      BY <1>2, <3>2, <3>5, <3>6 DEF HeldInv
    <3>8. ~LastShutdownBegun /\ shell.state # "exited"
      BY <1>2, <2>0 DEF EndInv
    <3>9. ~LastShutdownBegun'
      BY <2>0, <3>8 DEF LastShutdownBegun
    <3> QED
      BY <2>0, <3>4, <3>7, <3>8, <3>9 DEF EndInv
  <2> QED
    BY <1>14, <2>1, <2>2 DEF Spawn
<1>15. ASSUME NEW c \in Starters, RecordChild(c) PROVE LanesInv' /\ HeldInv' /\ EndInv'
  <2> DEFINE g == inner.gen + 1
  <2>1. /\ c \in Threads /\ call[c].step = "record" /\ shell' = shell /\ proc' = proc
        /\ inner' = [child |-> call[c].mine, gen |-> g]
        /\ call' = [call EXCEPT ![c].step = "announce", ![c].gen = g]
    BY <1>0, <1>15 DEF RecordChild
  <2> HIDE DEF g
  <2>2. /\ call'[c].step = "announce" /\ \A d \in Threads \ {c} : call'[d] = call[d]
        /\ inner'.child = call[c].mine
    BY <1>0, <2>1 DEF CallRow
  <2>3. (\A d \in Starters : ~Clearing(d)') /\ ~Reaping(Main)'
    <3>1. Clearing(c) /\ inner.child = None /\ ~Reaping(Main)
      BY <1>2, <2>1 DEF Clearing, LanesInv
    <3>2. \A d \in Starters \ {c} : ~Clearing(d)
      BY <1>2, <3>1 DEF LanesInv
    <3> QED
      BY <1>0, <2>2, <3>1, <3>2 DEF Clearing, Reaping
  <2>4. LanesInv'
    BY <2>3 DEF LanesInv
  <2>5. ASSUME NEW b \in Holding, Held(b) PROVE Held(b)'
    <3>1. inner.child = None /\ b # None
      BY <1>0, <1>2, <2>1 DEF Clearing, LanesInv, Holding
    <3>2. \A d \in Threads \ {c} : call[d].step \in {"kill", "wait", "record"} => call'[d] = call[d]
      BY <2>2
    <3> QED
      BY <1>0, <2>1, <2>2, <2>5, <3>1, <3>2 DEF Held
  <2>6. HeldInv'
    BY <1>2, <1>5, <2>1, <2>5 DEF HeldInv
  <2>7. ~LastShutdownBegun /\ shell.state # "exited" /\ ~LastShutdownBegun'
    BY <1>2, <2>1 DEF EndInv, LastShutdownBegun
  <2> QED
    BY <2>1, <2>4, <2>6, <2>7 DEF EndInv
<1>16. ASSUME NEW b \in Procs, Reaped(b) \/ Exits(b) PROVE LanesInv' /\ HeldInv' /\ EndInv'
  <2>1. Holding' \subseteq Holding
    BY <1>0, <1>16 DEF Reaped, Exits, Holding
  <2>2. UNCHANGED <<inner, call, shell>>
    BY <1>16 DEF Reaped, Exits
  <2>3. LanesInv' /\ \A p \in Procs : Held(p)' = Held(p)
    BY <1>2, <2>2 DEF LanesInv, Clearing, Reaping, Held
  <2>4. HeldInv'
    BY <1>2, <2>1, <2>3 DEF HeldInv, Holding
  <2> QED
    BY <1>2, <2>1, <2>2, <2>3, <2>4 DEF EndInv, LastShutdownBegun
<1>17. CASE Quit
  <2>1. UNCHANGED <<inner, call, proc>> /\ shell'.state = "quitting" /\ shell'.left # 0
    BY <1>17 DEF Quit
  <2>2. LanesInv' /\ HeldInv'
    BY <1>2, <2>1 DEF LanesInv, Clearing, Reaping, HeldInv, Held, Holding
  <2> QED
    BY <2>1, <2>2 DEF EndInv, LastShutdownBegun
<1>18. CASE ShutdownOnMain
  <2>1. /\ call[Main].step = "idle" /\ To(Main, "take") /\ inner' = inner /\ proc' = proc
        /\ shell.state = "quitting" /\ shell' = [shell EXCEPT !.left = @ - 1]
    BY <1>18 DEF ShutdownOnMain, UnderWay
  <2>2. /\ call'[Main].step = "take" /\ \A d \in Threads \ {Main} : call'[d] = call[d]
    BY <1>0, <1>3, <2>1
  <2>3. \A d \in Threads : (Clearing(d)' = Clearing(d)) /\ (Reaping(d)' = Reaping(d))
    BY <2>1, <2>2 DEF Clearing, Reaping
  <2>4. LanesInv'
    BY <1>0, <1>2, <2>1, <2>3 DEF LanesInv
  <2>5. ASSUME NEW b \in Holding, Held(b) PROVE Held(b)'
    BY <1>0, <2>1, <2>2, <2>5 DEF Held
  <2>6. HeldInv'
    BY <1>2, <1>5, <2>1, <2>5 DEF HeldInv
  <2>7. shell'.state = "quitting"
    BY <1>0, <2>1 DEF ShellRow
  <2>8. LastShutdownBegun' => \A d \in Starters : call'[d].step = "idle"
    <3> SUFFICES ASSUME LastShutdownBegun' PROVE \A d \in Starters : call'[d].step = "idle"
      OBVIOUS
    <3>1. shell.left = 1
      BY <1>0, <2>1 DEF ShellRow, LastShutdownBegun
    <3>2. ~Starting
      BY <1>18, <3>1 DEF ShutdownOnMain
    <3> QED
      BY <1>0, <2>2, <3>2 DEF Starting, UnderWay
  <2> QED
    BY <2>2, <2>4, <2>6, <2>7, <2>8 DEF EndInv
<1>19. CASE Exit
  <2>1. /\ inner' = inner /\ proc' = proc /\ shell'.state = "exited" /\ LastShutdownBegun
        /\ call[Main].step = "idle" /\ \A d \in Threads : call'[d] = Rest
    BY <1>19 DEF Exit, UnderWay
  <2>2. \A d \in Threads : call'[d].step = "idle" /\ ~Clearing(d)' /\ ~Reaping(d)'
    BY <1>0, <2>1 DEF Clearing, Reaping
  <2>3. LanesInv'
    BY <1>0, <2>2 DEF LanesInv
  <2>4. inner.child = None /\ \A d \in Threads : call[d].step = "idle"
    BY <1>2, <2>1 DEF EndInv, Threads
  <2>5. Holding = {}
    BY <1>0, <1>2, <2>4 DEF HeldInv, Held, Holding
  <2>6. Holding' = {}
    BY <1>5, <2>1, <2>5
  <2> QED
    BY <1>0, <2>1, <2>2, <2>3, <2>6 DEF HeldInv, EndInv, LastShutdownBegun
<1>20. CASE UNCHANGED shellVars
  BY <1>2, <1>20
  DEF shellVars, LanesInv, HeldInv, EndInv, Clearing, Reaping, Held, Holding, LastShutdownBegun
<1> QED
  BY <1>0, <1>6, <1>7, <1>8, <1>9, <1>10, <1>11, <1>12, <1>13, <1>14, <1>15, <1>16, <1>17, <1>18,
     <1>19, <1>20
  DEF ShellNext, Shutdown, StartSteps

LEMMA OneInvInit == ShellInit => OneInv
<1> SUFFICES ASSUME ShellInit PROVE OneInv
  OBVIOUS
<1>1. \A c \in Threads : call[c].step = "idle"
  BY DEF ShellInit, Rest
<1>2. Holding = {} /\ shell.state = "running" /\ Main \in Threads /\ Starters \subseteq Threads
  BY DEF ShellInit, Holding, Threads
<1> QED
  BY <1>1, <1>2
  DEF OneInv, LanesInv, HeldInv, EndInv, Clearing, Reaping, LastShutdownBegun

\* Without an excuse the processes that run are all the same one.
LEMMA OneInvHolds == ShellTypeOK /\ OneInv => OneBackend
<1> SUFFICES ASSUME ShellTypeOK, OneInv, excuse = {}
             PROVE  Cardinality(Holding) <= IF shell.state = "exited" THEN 0 ELSE 1
  BY DEF OneBackend
<1>1. LanesInv /\ HeldInv /\ EndInv
  BY DEF OneInv
<1>2. Starters \subseteq Threads /\ Main \in Threads /\ Main \notin Starters
      /\ Threads = Starters \cup {Main} /\ None \notin Procs /\ Holding \subseteq Procs
  BY ShellNumbers DEF Threads, Holding
<1>3. \E x : Holding \subseteq {x}
  <2>1. CASE \E c \in Starters : Clearing(c)
    <3>1. PICK c \in Starters : Clearing(c)
      BY <2>1
    <3>2. /\ inner.child = None /\ ~Reaping(Main) /\ \A d \in Starters : Clearing(d) => d = c
      BY <1>1, <3>1 DEF LanesInv
    <3>3. \A d \in Threads : call[d].step \in {"kill", "wait", "record"} /\ d # Main => d = c
      BY <1>2, <3>2 DEF Clearing
    <3>4. ASSUME NEW b \in Holding
          PROVE  b = IF call[c].step = "record" THEN call[c].mine ELSE call[c].taken
      <4>1. Held(b) /\ b # None
        BY <1>1, <1>2, <3>4 DEF HeldInv
      <4> QED
        BY <1>2, <3>2, <3>3, <4>1 DEF Held, Reaping
    <3> QED
      BY <3>4
  <2>2. CASE (\A c \in Starters : ~Clearing(c)) /\ Reaping(Main)
    <3>1. inner.child = None
      BY <1>1, <2>2 DEF LanesInv
    <3>2. ASSUME NEW b \in Holding PROVE b = call[Main].taken
      BY <1>1, <1>2, <2>2, <3>1, <3>2 DEF HeldInv, Held, Clearing
    <3> QED
      BY <3>2
  <2>3. CASE (\A c \in Starters : ~Clearing(c)) /\ ~Reaping(Main)
    <3>1. ASSUME NEW b \in Holding PROVE b = inner.child
      BY <1>1, <1>2, <2>3, <3>1 DEF HeldInv, Held, Clearing, Reaping
    <3> QED
      BY <3>1
  <2> QED
    BY <2>1, <2>2, <2>3
<1>4. IsFiniteSet(Holding) /\ Cardinality(Holding) <= 1
  <2>1. PICK x : Holding \subseteq {x}
    BY <1>3
  <2>2. IsFiniteSet({x}) /\ Cardinality({x}) = 1
    BY FS_Singleton
  <2> QED
    BY <2>1, <2>2, FS_Subset
<1>5. shell.state = "exited" => Cardinality(Holding) = 0
  BY <1>1, FS_EmptySet DEF EndInv
<1> QED
  BY <1>4, <1>5

\* "There is at most one FastAPI process belonging to this shell, and it dies when we do"
\* (sidecar.rs 3-4), for any number of starts and processes, unless a start overtook
\* another or a shutdown, a kill or a wait failed, or a start ran into the last shutdown.
THEOREM OneBackendHolds == ShellSpec => []OneBackend
BY ShellTypesInit, ShellTypesStep, ProbeStep, OneInvInit, OneInvStep, OneInvHolds, PTL DEF ShellSpec

-----------------------------------------------------------------------------
(* Knowledge: types.                                                       *)

SourceRow == [status : {"absent", "pending", "indexing", "indexed", "stale", "failed"},
              hash : Texts \cup {NoHash}]
RemovalRow == [at : {"none", "commit", "chunks", "facts"}, of : Sources \cup {"none"},
               chunks : SUBSET (0..MaxChunks), claims : SUBSET Texts]
BacklogRow == [at : {"idle", "chunks", "facts"}, chunks : SUBSET (1..MaxChunks),
               claims : SUBSET Texts]

LEMMA KnowledgeRows ==
  /\ MaxChunks \in Nat /\ MaxEdits \in Nat /\ MaxMishaps \in Nat /\ 0 \in 0..MaxChunks
  /\ 0 \in 0..MaxEdits /\ 0 \in 0..MaxMishaps /\ 1 \in 1..(MaxChunks + 1)
  /\ NoSource \in SourceRow /\ NoDocument \in DocumentRow /\ NoFact \in FactRow
  /\ NoPass \in PassRow /\ NoRemoval \in RemovalRow /\ NoBacklog \in BacklogRow
<1>1. MaxChunks \in Nat /\ MaxEdits \in Nat /\ MaxMishaps \in Nat
  BY KnowledgeAssumption
<1>2. /\ 0 \in 0..MaxChunks /\ 0 \in 0..MaxEdits /\ 0 \in 0..MaxMishaps /\ 1 \in 1..(MaxChunks + 1)
  BY <1>1
<1>3. NoSource \in SourceRow
  BY DEF NoSource, SourceRow, NoHash
<1>4. NoDocument \in DocumentRow
  BY <1>2 DEF NoDocument, DocumentRow
<1>5. NoFact \in FactRow
  BY DEF NoFact, FactRow
<1>6. NoPass \in PassRow
  BY <1>2, <1>4, <1>5 DEF NoPass, PassRow, NoHash
<1>7. NoRemoval \in RemovalRow /\ NoBacklog \in BacklogRow
  BY DEF NoRemoval, RemovalRow, NoBacklog, BacklogRow
<1> QED
  BY <1>1, <1>2, <1>3, <1>4, <1>5, <1>6, <1>7

\* The named source and text of a pass.
Passing(q) ==
  /\ q.pc # "idle" => q.of \in Sources
  /\ q.pc \in {"documents", "rechunk", "facts", "finalize"} => q.text \in Texts

\* Only one pass changes, to a row of its type.
LEMMA PassMoves ==
  ASSUME pass \in [IndexTasks -> PassRow], \A t \in IndexTasks : Passing(pass[t]),
         NEW u \in IndexTasks, NEW q \in PassRow, Passing(q), pass' = [pass EXCEPT ![u] = q]
  PROVE  pass' \in [IndexTasks -> PassRow] /\ \A t \in IndexTasks : Passing(pass'[t])
<1>1. pass' \in [IndexTasks -> PassRow]
  OBVIOUS
<1>2. \A t \in IndexTasks : pass'[t] = IF t = u THEN q ELSE pass[t]
  OBVIOUS
<1> QED
  BY <1>1, <1>2

\* What the commit of a removal does, part by part.
LEMMA CommitIs ==
  RemoveCommit =>
    /\ removal.at = "commit" /\ IndexWriting = {}
    /\ source' = [source EXCEPT ![removal.of] = NoSource]
    /\ document' = [document EXCEPT ![removal.of] = NoDocument]
    /\ memo' = [memo EXCEPT ![removal.of] = NoHash]
    /\ removal' = [removal EXCEPT !.at = "chunks"]
    /\ UNCHANGED <<world, second, chunkVecs, factVecs, nextChunk, edits, mishaps, backlog>>
BY Zenon DEF RemoveCommit

LEMMA CommitRetires ==
  RemoveCommit => fact' = [c \in Texts |->
    [fact[c] EXCEPT !.from = IF @ = removal.of THEN "none" ELSE @,
                    !.state = IF c \in removal.claims THEN "retired" ELSE @]]
BY Zenon DEF RemoveCommit

LEMMA CommitOrphans ==
  RemoveCommit => orphans' = orphans \cup
    (IF document[removal.of].embedded THEN {document[removal.of].chunk} \ removal.chunks ELSE {})
BY Zenon DEF RemoveCommit

LEMMA CommitStrands ==
  RemoveCommit => pass' = [t \in IndexTasks |->
    IF pass[t].of = removal.of THEN [pass[t] EXCEPT !.gone = TRUE] ELSE pass[t]]
BY Zenon DEF RemoveCommit

LEMMA KnowledgeTypesStep == KnowledgeTypeOK /\ [KnowledgeNext]_knowledgeVars => KnowledgeTypeOK'
<1> DEFINE Passes == pass \in [IndexTasks -> PassRow] /\ \A t \in IndexTasks : Passing(pass[t])
<1> SUFFICES ASSUME KnowledgeTypeOK, [KnowledgeNext]_knowledgeVars PROVE KnowledgeTypeOK'
  OBVIOUS
<1>0. /\ world \in [Sources -> Texts] /\ source \in [Sources -> SourceRow]
      /\ document \in [Sources -> DocumentRow] /\ fact \in [Texts -> FactRow]
      /\ second \subseteq Texts /\ chunkVecs \subseteq 0..MaxChunks /\ factVecs \subseteq Texts
      /\ memo \in [Sources -> Texts \cup {NoHash}] /\ Passes
      /\ removal \in RemovalRow /\ (removal.at = "commit" => removal.of \in Sources)
      /\ orphans \subseteq 0..MaxChunks /\ backlog \in BacklogRow
      /\ nextChunk \in 1..(MaxChunks + 1) /\ edits \in 0..MaxEdits /\ mishaps \in 0..MaxMishaps
  BY DEF KnowledgeTypeOK, SourceRow, RemovalRow, BacklogRow, Passing
<1>1. \A t \in IndexTasks : pass[t] \in PassRow /\ Passing(pass[t])
  BY <1>0
<1>2. edits < MaxEdits => edits + 1 \in 0..MaxEdits
  BY <1>0, KnowledgeRows
<1>3. mishaps < MaxMishaps => mishaps + 1 \in 0..MaxMishaps
  BY <1>0, KnowledgeRows
<1>4. \A s \in Sources, st \in {"pending", "indexing", "indexed", "stale", "failed"} :
        [source EXCEPT ![s].status = st] \in [Sources -> SourceRow]
  BY <1>0 DEF SourceRow
<1>5. Passing(NoPass)
  BY DEF Passing, NoPass
<1>6. ASSUME NEW u \in IndexTasks, NEW q \in PassRow, Passing(q), pass' = [pass EXCEPT ![u] = q]
      PROVE  Passes'
  BY <1>0, <1>6, PassMoves
<1>7. pass' = pass => Passes'
  BY <1>0
<1>8. ASSUME NEW t \in IndexTasks, NEW s \in Sources, NEW force \in BOOLEAN, BeginIndex(t, s, force)
      PROVE  source' \in [Sources -> SourceRow] /\ Passes'
  <2> DEFINE q == [NoPass EXCEPT !.pc = "probe", !.of = s, !.force = force, !.hash = source[s].hash]
  <2>1. q \in PassRow
    BY <1>0, KnowledgeRows DEF PassRow, SourceRow
  <2>2. q.pc = "probe" /\ q.of = s
    BY KnowledgeRows DEF PassRow
  <2>3. pass' = [pass EXCEPT ![t] = q]
    BY <1>8 DEF BeginIndex
  <2> HIDE DEF q
  <2>4. Passes'
    BY <1>6, <2>1, <2>2, <2>3 DEF Passing
  <2> QED
    BY <1>4, <1>8, <2>4 DEF BeginIndex
<1>9. ASSUME NEW t \in IndexTasks, Probe(t)
      PROVE  source' \in [Sources -> SourceRow] /\ Passes' /\ memo' \in [Sources -> Texts \cup {NoHash}]
  <2> DEFINE s == pass[t].of
             seen == IF ~pass[t].force /\ memo[s] # NoHash THEN memo[s] ELSE world[s]
             skips == ~pass[t].force /\ pass[t].hash = seen
             q == [pass[t] EXCEPT !.pc = "analyze"]
             r == IF skips THEN NoPass ELSE q
  <2>1. s \in Sources /\ pass[t].pc = "probe"
    BY <1>1, <1>9 DEF Probe, Passing
  <2>2. seen \in Texts \cup {NoHash}
    BY <1>0, <2>1
  <2>3. q \in PassRow /\ q.pc = "analyze" /\ q.of = s
    BY <1>1 DEF PassRow
  <2>4. r \in PassRow /\ Passing(r)
    BY <1>5, <2>1, <2>3, KnowledgeRows DEF Passing
  <2>5. /\ memo' = [memo EXCEPT ![s] = seen]
        /\ source' = source \/ source' = [source EXCEPT ![s].status = "indexed"]
        /\ pass' = [pass EXCEPT ![t] = r]
    BY <1>0, <1>9 DEF Probe
  <2> HIDE DEF s, seen, skips, q, r
  <2> QED
    BY <1>0, <1>4, <1>6, <2>1, <2>2, <2>4, <2>5
<1>10. ASSUME NEW t \in IndexTasks, Analyze(t) PROVE Passes'
  <2> DEFINE q == [pass[t] EXCEPT !.pc = "documents", !.text = world[pass[t].of]]
  <2>1. pass[t].of \in Sources
    BY <1>1, <1>10 DEF Analyze, Passing
  <2>2. world[pass[t].of] \in Texts
    BY <1>0, <2>1
  <2>3. q \in PassRow /\ q.of = pass[t].of /\ q.text = world[pass[t].of]
    BY <1>1, <2>2 DEF PassRow
  <2>4. pass' = [pass EXCEPT ![t] = q]
    BY <1>10 DEF Analyze
  <2> HIDE DEF q
  <2> QED
    BY <1>6, <2>1, <2>2, <2>3, <2>4 DEF Passing
<1>11. ASSUME NEW t \in IndexTasks, pass[t].of \in Sources PROVE RowSeen(t) \in DocumentRow
  BY <1>0, <1>1, <1>11 DEF RowSeen, PassRow
<1>11a. ASSUME NEW t \in IndexTasks, Documents(t) PROVE Passes'
  <2>1. pass[t].of \in Sources /\ pass[t].text \in Texts
    BY <1>1, <1>11a DEF Documents, Passing
  <2> DEFINE next == IF Changed(t) THEN "rechunk" ELSE "facts"
  <2>2. PICK writes \in BOOLEAN :
          pass' = [pass EXCEPT ![t].pc = next, ![t].locked = writes,
                               ![t].stale = document[pass[t].of].chunk,
                               ![t].doc = [document[pass[t].of] EXCEPT !.text = pass[t].text]]
    BY <1>11a, Zenon DEF Documents
  <2>2a. next \in {"rechunk", "facts"}
    OBVIOUS
  <2> HIDE DEF next
  <2> DEFINE k == document[pass[t].of].chunk
             d == [document[pass[t].of] EXCEPT !.text = pass[t].text]
             q == [pass[t] EXCEPT !.pc = next, !.locked = writes, !.stale = k, !.doc = d]
  <2>3. document[pass[t].of] \in DocumentRow
    BY <1>0, <2>1
  <2>4. k \in 0..MaxChunks /\ d \in DocumentRow
    BY <2>1, <2>3 DEF DocumentRow
  <2>5. pass' = [pass EXCEPT ![t] = q]
    BY <2>2
  <2> HIDE DEF k, d
  <2>6. q \in PassRow /\ q.of = pass[t].of /\ q.text = pass[t].text
    BY <1>1, <2>2a, <2>4 DEF PassRow
  <2> HIDE DEF q
  <2> QED
    BY <1>6, <2>1, <2>5, <2>6 DEF Passing
<1>11b. ASSUME NEW t \in IndexTasks, Rechunk(t)
        PROVE  /\ Passes' /\ nextChunk' \in 1..(MaxChunks + 1)
               /\ chunkVecs' \subseteq 0..MaxChunks /\ orphans' \subseteq 0..MaxChunks
  <2>1. pass[t].of \in Sources /\ pass[t].text \in Texts
    BY <1>1, <1>11b DEF Rechunk, Passing
  <2>2. nextChunk \in 1..MaxChunks /\ nextChunk \in 0..MaxChunks
        /\ nextChunk' = nextChunk + 1 /\ nextChunk + 1 \in 1..(MaxChunks + 1)
    BY <1>0, <1>11b, KnowledgeRows DEF Rechunk
  <2>3. PICK embedded \in BOOLEAN :
          /\ pass' = [pass EXCEPT ![t].pc = "facts", ![t].locked = TRUE,
                 ![t].doc = [RowSeen(t) EXCEPT !.chunk = nextChunk, !.embedded = embedded]]
          /\ chunkVecs' = Swapped(t, IF embedded THEN {nextChunk} ELSE {})
    BY <1>11b, Zenon DEF Rechunk
  <2> DEFINE d == [RowSeen(t) EXCEPT !.chunk = nextChunk, !.embedded = embedded]
             q == [pass[t] EXCEPT !.pc = "facts", !.locked = TRUE, !.doc = d]
  <2>4. RowSeen(t) \in DocumentRow
    BY <1>11, <2>1
  <2>5. d \in DocumentRow
    BY <2>2, <2>4 DEF DocumentRow
  <2>6. pass' = [pass EXCEPT ![t] = q]
    BY <2>3
  <2> HIDE DEF d
  <2>7. q \in PassRow /\ q.of = pass[t].of /\ q.text = pass[t].text
    BY <1>1, <2>5 DEF PassRow
  <2> HIDE DEF q
  <2>8. Passes'
    BY <1>6, <2>1, <2>6, <2>7 DEF Passing
  <2>9. chunkVecs' \subseteq 0..MaxChunks
    BY <1>0, <2>2, <2>3 DEF Swapped, Stored, Dropped
  <2>10. orphans' \subseteq 0..MaxChunks
    <3>1. RowSeen(t).chunk \in 0..MaxChunks
      BY <2>4 DEF DocumentRow
    <3> QED
      BY <1>0, <1>11b, <3>1 DEF Rechunk, Dropped
  <2> QED
    BY <2>2, <2>8, <2>9, <2>10
<1>12. ASSUME NEW t \in IndexTasks, MergeFacts(t) PROVE Passes' /\ factVecs' \subseteq Texts
  <2>1. pass[t].of \in Sources /\ pass[t].text \in Texts /\ pass[t].pc = "facts"
    BY <1>1, <1>12 DEF MergeFacts, Passing
  <2>2. ASSUME NEW row \in FactRow, NEW again \in BOOLEAN, Merged(t, row, again) PROVE Passes'
    <3>0. PICK writes \in BOOLEAN :
            pass' = [pass EXCEPT ![t].pc = "finalize", ![t].locked = writes,
                                 ![t].doc = RowSeen(t), ![t].row = row, ![t].again = again]
      BY <2>2, Zenon DEF Merged
    <3> DEFINE q == [pass[t] EXCEPT !.pc = "finalize", !.locked = writes, !.doc = RowSeen(t),
                                    !.row = row, !.again = again]
    <3>1. q \in PassRow /\ q.of = pass[t].of /\ q.text = pass[t].text
      BY <1>1, <1>11, <2>1 DEF PassRow
    <3>2. pass' = [pass EXCEPT ![t] = q]
      BY <3>0
    <3> HIDE DEF q
    <3> QED
      BY <1>6, <2>1, <3>1, <3>2 DEF Passing
  <2>3. fact[pass[t].text] \in FactRow
    BY <1>0, <2>1
  <2>4. CASE InsertFact(t)
    <3>1. \A embedded \in BOOLEAN :
            [state |-> "active", from |-> pass[t].of, wording |-> "source", embedded |-> embedded]
              \in FactRow
      BY <2>1 DEF FactRow
    <3> QED
      BY <1>0, <2>1, <2>2, <2>4, <3>1 DEF InsertFact, Stored
  <2>5. CASE MergeSame(t)
    BY <1>0, <2>2, <2>3, <2>5 DEF MergeSame
  <2>6. CASE MergeNear(t)
    <3>1. PICK near \in {FALSE, fact[pass[t].text].state = "active" /\ pass[t].text \in factVecs} :
            Merged(t, fact[pass[t].text], ~near)
      BY <2>6 DEF MergeNear
    <3>2. (~near) \in BOOLEAN
      OBVIOUS
    <3> QED
      BY <1>0, <2>2, <2>3, <2>6, <3>1, <3>2 DEF MergeNear
  <2> QED
    BY <1>12, <2>4, <2>5, <2>6 DEF MergeFacts
<1>13. ASSUME NEW t \in IndexTasks, Finalize(t)
       PROVE  /\ document' \in [Sources -> DocumentRow] /\ fact' \in [Texts -> FactRow]
              /\ second' \subseteq Texts /\ source' \in [Sources -> SourceRow] /\ Passes'
  <2> DEFINE s == pass[t].of
             c == pass[t].text
             h == IF c = pass[t].hash THEN source[s].hash ELSE c
             row == [source[s] EXCEPT !.status = "indexed", !.hash = h]
  <2>1. s \in Sources /\ c \in Texts /\ RowSeen(t) \in DocumentRow /\ pass[t].row \in FactRow
    BY <1>1, <1>11, <1>13 DEF Finalize, Passing, PassRow
  <2>2. row \in SourceRow
    BY <1>0, <2>1, ZenonT(40) DEF SourceRow
  <2>3. source' = [source EXCEPT ![s] = row]
    BY <1>13 DEF Finalize
  <2>4. /\ document' = [document EXCEPT ![s] = RowSeen(t)]
        /\ fact' = [fact EXCEPT ![c] = IF pass[t].locked THEN pass[t].row ELSE fact[c]]
        /\ second' = IF pass[t].again THEN second \cup {c} ELSE second
        /\ pass' = [pass EXCEPT ![t] = NoPass]
    BY <1>13 DEF Finalize
  <2> HIDE DEF row, s, c
  <2> QED
    BY <1>0, <1>5, <1>6, <2>1, <2>2, <2>3, <2>4, KnowledgeRows
<1>14. ASSUME NEW t \in IndexTasks, FailIndex(t) \/ IndexDies(t)
       PROVE  source' \in [Sources -> SourceRow] /\ Passes' /\ mishaps' \in 0..MaxMishaps
  <2>1. pass[t].of \in Sources
    BY <1>1, <1>14 DEF FailIndex, IndexDies, Passing
  <2>2. /\ pass' = [pass EXCEPT ![t] = NoPass]
        /\ source' = source \/ source' = [source EXCEPT ![pass[t].of].status = "failed"]
        /\ mishaps' = mishaps \/ (mishaps < MaxMishaps /\ mishaps' = mishaps + 1)
    BY <1>14 DEF FailIndex, IndexDies
  <2> QED
    BY <1>0, <1>3, <1>4, <1>5, <1>6, <2>1, <2>2, KnowledgeRows
<1>15. ASSUME NEW s \in Sources, AddSource(s) \/ UpdateSource(s)
       PROVE  /\ source' \in [Sources -> SourceRow] /\ memo' \in [Sources -> Texts \cup {NoHash}]
              /\ edits' \in 0..MaxEdits
  <2>1. [NoSource EXCEPT !.status = "pending"] \in SourceRow
        /\ [status |-> "stale", hash |-> NoHash] \in SourceRow
    BY KnowledgeRows DEF SourceRow
  <2> QED
    BY <1>0, <1>2, <1>15, <2>1 DEF AddSource, UpdateSource
<1>16. ASSUME NEW s \in Sources, RemoveRead(s)
       PROVE  removal' \in RemovalRow /\ (removal'.at = "commit" => removal'.of \in Sources)
  <2>1. document[s].chunk \in 0..MaxChunks
    BY <1>0 DEF DocumentRow
  <2>2. \A claims \in SUBSET Texts :
          [at |-> "commit", of |-> s, chunks |-> {document[s].chunk}, claims |-> claims] \in RemovalRow
    BY <2>1 DEF RemovalRow
  <2> QED
    BY <1>16, <2>2 DEF RemoveRead
<1>16a. ASSUME RemoveCommit
        PROVE  /\ source' \in [Sources -> SourceRow] /\ document' \in [Sources -> DocumentRow]
               /\ fact' \in [Texts -> FactRow] /\ removal' \in RemovalRow /\ removal'.at = "chunks"
               /\ memo' \in [Sources -> Texts \cup {NoHash}] /\ orphans' \subseteq 0..MaxChunks
               /\ Passes'
  <2> DEFINE s == removal.of
  <2>1. s \in Sources
    BY <1>0, <1>16a, CommitIs
  <2>2. document[s].chunk \in 0..MaxChunks
    BY <1>0, <2>1 DEF DocumentRow
  <2>3. fact' \in [Texts -> FactRow]
    <3> DEFINE r(c) == [fact[c] EXCEPT !.from = IF @ = s THEN "none" ELSE @,
                              !.state = IF c \in removal.claims THEN "retired" ELSE @]
    <3>1. ASSUME NEW c \in Texts PROVE r(c) \in FactRow
      BY <1>0 DEF FactRow
    <3>2. fact' = [c \in Texts |-> r(c)]
      BY <1>16a, CommitRetires, Zenon
    <3> HIDE DEF r
    <3> QED
      BY <3>1, <3>2
  <2>4. Passes'
    <3>1. ASSUME NEW t \in IndexTasks
          PROVE  /\ pass'[t] \in PassRow /\ pass'[t].pc = pass[t].pc /\ pass'[t].of = pass[t].of
                 /\ pass'[t].text = pass[t].text
      <4>1. pass'[t] = IF pass[t].of = s THEN [pass[t] EXCEPT !.gone = TRUE] ELSE pass[t]
        BY <1>16a, CommitStrands
      <4> QED
        BY <1>1, <4>1 DEF PassRow
    <3>2. pass' = [t \in IndexTasks |-> pass'[t]]
      BY <1>16a, CommitStrands, Zenon
    <3> QED
      BY <1>1, <3>1, <3>2 DEF Passing
  <2>5. removal' = [removal EXCEPT !.at = "chunks"]
    BY <1>16a, CommitIs
  <2>6. removal' \in RemovalRow /\ removal'.at = "chunks"
    BY <1>0, <2>5 DEF RemovalRow
  <2>7. orphans' \subseteq 0..MaxChunks
    BY <1>0, <1>16a, <2>2, CommitOrphans
  <2> QED
    BY <1>0, <1>16a, <2>1, <2>3, <2>4, <2>6, <2>7, CommitIs, KnowledgeRows
<1>17. ASSUME RemoveVectors \/ RemovalDies
       PROVE  /\ removal' \in RemovalRow /\ removal'.at # "commit"
              /\ chunkVecs' \subseteq 0..MaxChunks /\ orphans' \subseteq 0..MaxChunks
              /\ factVecs' \subseteq Texts /\ mishaps' \in 0..MaxMishaps
  <2>1. [removal EXCEPT !.at = "facts"] \in RemovalRow /\ [removal EXCEPT !.at = "facts"].at = "facts"
    BY <1>0 DEF RemovalRow
  <2>2. NoRemoval.at = "none"
    BY DEF NoRemoval
  <2> QED
    BY <1>0, <1>3, <1>17, <2>1, <2>2, KnowledgeRows DEF RemoveVectors, RemovalDies, Dropped
<1>18. ASSUME NEW c \in Texts, EditFact(c) \/ SetActive(c)
       PROVE  fact' \in [Texts -> FactRow] /\ factVecs' \subseteq Texts /\ edits' \in 0..MaxEdits
  <2>1. fact[c] \in FactRow
    BY <1>0
  <2>2. \A embedded \in BOOLEAN :
          [fact EXCEPT ![c].wording = "user", ![c].embedded = embedded] \in [Texts -> FactRow]
    BY <1>0, <2>1 DEF FactRow
  <2>3. \A st \in {"active", "retired"} : [fact EXCEPT ![c].state = st] \in [Texts -> FactRow]
    BY <1>0, <2>1 DEF FactRow
  <2>4. CASE EditFact(c)
    <3>1. /\ factVecs' \subseteq factVecs \cup {c} /\ edits < MaxEdits /\ edits' = edits + 1
          /\ \E embedded \in BOOLEAN :
               fact' = [fact EXCEPT ![c].wording = "user", ![c].embedded = embedded]
      BY <2>4 DEF EditFact
    <3>2. edits' \in 0..MaxEdits /\ factVecs' \subseteq Texts
      BY <1>0, <1>2, <3>1
    <3>3. fact' \in [Texts -> FactRow]
      BY <2>2, <3>1, Zenon
    <3> QED
      BY <3>2, <3>3
  <2>5. CASE SetActive(c)
    <3>1. factVecs' \subseteq factVecs \cup {c} /\ edits' \in 0..MaxEdits
      BY <1>2, <2>5 DEF SetActive, Dropped
    <3>2. \E st \in {"active", "retired"} : fact' = [fact EXCEPT ![c].state = st]
      BY <2>5 DEF SetActive
    <3> QED
      BY <1>0, <2>3, <3>1, <3>2
  <2> QED
    BY <1>18, <2>4, <2>5
<1>19. ASSUME BacklogSelect \/ ChunksEmbedded \/ FactsEmbedded
       PROVE  /\ backlog' \in BacklogRow /\ document' \in [Sources -> DocumentRow]
              /\ chunkVecs' \subseteq 0..MaxChunks /\ fact' \in [Texts -> FactRow]
              /\ factVecs' \subseteq Texts
  <2>1. ASSUME BacklogSelect PROVE backlog' \in BacklogRow
    <3>1. \A s \in Sources : document[s].chunk # 0 => document[s].chunk \in 1..MaxChunks
      BY <1>0 DEF DocumentRow
    <3> QED
      BY <1>0, <2>1, <3>1 DEF BacklogSelect, BacklogRow
  <2>2. \A k \in backlog.chunks : k \in 0..MaxChunks
    BY <1>0, KnowledgeRows DEF BacklogRow
  <2>3. [backlog EXCEPT !.at = "facts", !.chunks = {}] \in BacklogRow
    BY <1>0 DEF BacklogRow
  <2>4. \A due : [s \in Sources |-> [document[s] EXCEPT !.embedded = @ \/ s \in due]]
                   \in [Sources -> DocumentRow]
    BY <1>0 DEF DocumentRow
  <2>5. [c \in Texts |-> [fact[c] EXCEPT !.embedded = @ \/ c \in backlog.claims]]
          \in [Texts -> FactRow]
    BY <1>0 DEF FactRow
  <2>6. backlog.claims \subseteq Texts
    BY <1>0 DEF BacklogRow
  <2>7. CASE BacklogSelect
    BY <1>0, <2>1, <2>7 DEF BacklogSelect
  <2>8. CASE ChunksEmbedded
    <3>1. /\ document' = document \/ (\E due :
               document' = [s \in Sources |-> [document[s] EXCEPT !.embedded = @ \/ s \in due]])
          /\ chunkVecs' \subseteq chunkVecs \cup backlog.chunks
          /\ backlog' = NoBacklog \/ backlog' = [backlog EXCEPT !.at = "facts", !.chunks = {}]
          /\ UNCHANGED <<fact, factVecs>>
      BY <2>8 DEF ChunksEmbedded, Stored
    <3>2. document' \in [Sources -> DocumentRow]
      BY <1>0, <2>4, <3>1
    <3>3. backlog' \in BacklogRow
      BY <2>3, <3>1, KnowledgeRows
    <3> QED
      BY <1>0, <2>2, <3>1, <3>2, <3>3
  <2>9. CASE FactsEmbedded
    BY <1>0, <2>5, <2>6, <2>9, KnowledgeRows DEF FactsEmbedded, Stored
  <2> QED
    BY <1>19, <2>7, <2>8, <2>9
<1>20. ASSUME NEW s \in Sources, SourceChanges(s) \/ MemoExpires(s)
       PROVE  /\ world' \in [Sources -> Texts] /\ memo' \in [Sources -> Texts \cup {NoHash}]
              /\ edits' \in 0..MaxEdits
  BY <1>0, <1>2, <1>20 DEF SourceChanges, MemoExpires
<1>21. ASSUME NEW t \in IndexTasks, RefreshStale(t) \/ IndexStep(t) \/ FailIndex(t) \/ IndexDies(t)
                                   \/ \E s \in Sources : BeginIndex(t, s, TRUE)
       PROVE  KnowledgeTypeOK'
  <2>1. CASE RefreshStale(t) \/ \E s \in Sources : BeginIndex(t, s, TRUE)
    <3>1. PICK s \in Sources, force \in BOOLEAN : BeginIndex(t, s, force)
      BY <2>1 DEF RefreshStale
    <3>2. UNCHANGED <<world, document, fact, second, chunkVecs, factVecs, memo, removal, orphans,
                      nextChunk, edits, mishaps, backlog>>
      BY <3>1 DEF BeginIndex
    <3> QED
      BY <1>0, <1>8, <3>1, <3>2
      DEF KnowledgeTypeOK, SourceRow, RemovalRow, BacklogRow, Passing
  <2>2. CASE Probe(t)
    <3>1. UNCHANGED <<world, document, fact, second, chunkVecs, factVecs, removal, orphans,
                      nextChunk, edits, mishaps, backlog>>
      BY <2>2 DEF Probe
    <3> QED
      BY <1>0, <1>9, <2>2, <3>1 DEF KnowledgeTypeOK, SourceRow, RemovalRow, BacklogRow, Passing
  <2>3. CASE Analyze(t)
    <3>1. UNCHANGED <<world, source, document, fact, second, chunkVecs, factVecs, memo, removal,
                      orphans, nextChunk, edits, mishaps, backlog>>
      BY <2>3 DEF Analyze
    <3> QED
      BY <1>0, <1>10, <2>3, <3>1 DEF KnowledgeTypeOK, SourceRow, RemovalRow, BacklogRow, Passing
  <2>4. CASE Documents(t)
    <3>1. UNCHANGED <<world, source, document, fact, second, chunkVecs, factVecs, memo, removal,
                      orphans, nextChunk, edits, mishaps, backlog>>
      BY <2>4 DEF Documents
    <3> QED
      BY <1>0, <1>11a, <2>4, <3>1 DEF KnowledgeTypeOK, SourceRow, RemovalRow, BacklogRow, Passing
  <2>4a. CASE Rechunk(t)
    <3>1. UNCHANGED <<world, source, document, fact, second, factVecs, memo, removal, edits,
                      mishaps, backlog>>
      BY <2>4a DEF Rechunk
    <3> QED
      BY <1>0, <1>11b, <2>4a, <3>1 DEF KnowledgeTypeOK, SourceRow, RemovalRow, BacklogRow, Passing
  <2>5. CASE MergeFacts(t)
    <3>1. UNCHANGED <<world, source, document, fact, second, chunkVecs, memo, backlog, removal,
                      orphans, nextChunk, edits, mishaps>>
      BY <2>5 DEF MergeFacts
    <3> QED
      BY <1>0, <1>12, <2>5, <3>1 DEF KnowledgeTypeOK, SourceRow, RemovalRow, BacklogRow, Passing
  <2>6. CASE Finalize(t)
    <3>1. UNCHANGED <<world, chunkVecs, factVecs, memo, backlog, removal, orphans, nextChunk,
                      edits, mishaps>>
      BY <2>6 DEF Finalize
    <3> QED
      BY <1>0, <1>13, <2>6, <3>1 DEF KnowledgeTypeOK, SourceRow, RemovalRow, BacklogRow, Passing
  <2>7. CASE FailIndex(t) \/ IndexDies(t)
    BY <1>0, <1>14, <2>7
    DEF FailIndex, IndexDies, KnowledgeTypeOK, SourceRow, RemovalRow, BacklogRow, Passing
  <2> QED
    BY <1>21, <2>1, <2>2, <2>3, <2>4, <2>4a, <2>5, <2>6, <2>7 DEF IndexStep
<1>22. ASSUME NEW s \in Sources,
              \/ AddSource(s) \/ UpdateSource(s) \/ RemoveRead(s) \/ SourceChanges(s)
              \/ MemoExpires(s)
       PROVE  KnowledgeTypeOK'
  BY <1>0, <1>7, <1>15, <1>16, <1>20, <1>22
  DEF AddSource, UpdateSource, RemoveRead, SourceChanges, MemoExpires, KnowledgeTypeOK,
      SourceRow, RemovalRow, BacklogRow, Passing
<1>22a. ASSUME RemoveCommit PROVE KnowledgeTypeOK'
  BY <1>0, <1>16a, <1>22a, CommitIs
  DEF KnowledgeTypeOK, SourceRow, RemovalRow, BacklogRow, Passing
<1>23. ASSUME \/ RemoveVectors \/ RemovalDies \/ BacklogSelect \/ ChunksEmbedded \/ FactsEmbedded
              \/ \E c \in Texts : EditFact(c) \/ SetActive(c)
       PROVE  KnowledgeTypeOK'
  BY <1>0, <1>7, <1>17, <1>18, <1>19, <1>23
  DEF RemoveVectors, RemovalDies, BacklogSelect, ChunksEmbedded, FactsEmbedded, EditFact, SetActive,
      KnowledgeTypeOK, SourceRow, RemovalRow, BacklogRow, Passing
<1>24. ASSUME UNCHANGED knowledgeVars PROVE KnowledgeTypeOK'
  BY <1>0, <1>7, <1>24
  DEF knowledgeVars, KnowledgeTypeOK, SourceRow, RemovalRow, BacklogRow, Passing
<1> QED
  BY <1>21, <1>22, <1>22a, <1>23, <1>24 DEF KnowledgeNext

LEMMA KnowledgeTypesInit == KnowledgeInit => KnowledgeTypeOK
<1> SUFFICES ASSUME KnowledgeInit PROVE KnowledgeTypeOK
  OBVIOUS
<1>1. /\ source \in [Sources -> SourceRow] /\ document \in [Sources -> DocumentRow]
      /\ fact \in [Texts -> FactRow] /\ pass \in [IndexTasks -> PassRow]
      /\ removal \in RemovalRow /\ backlog \in BacklogRow
      /\ memo \in [Sources -> Texts \cup {NoHash}]
  BY KnowledgeRows DEF KnowledgeInit
<1>2. removal.at = "none" /\ \A t \in IndexTasks : pass[t].pc = "idle"
  BY DEF KnowledgeInit, NoPass, NoRemoval
<1> QED
  BY <1>1, <1>2, KnowledgeRows DEF KnowledgeInit, KnowledgeTypeOK, SourceRow, RemovalRow, BacklogRow

\* The knowledge base's state has its types, for any sources, tasks and bounds.
THEOREM KnowledgeTypes == KnowledgeSpec => []KnowledgeTypeOK
BY KnowledgeTypesInit, KnowledgeTypesStep, PTL DEF KnowledgeSpec

-----------------------------------------------------------------------------
(* Knowledge: one writer at a time, and the person's last word.            *)

\* At most one pass has written and not committed; it is past its first write, and its
\* source is still there.
WriterInv ==
  /\ \A t, u \in IndexWriting : t = u
  /\ \A t \in IndexWriting : pass[t].pc \in {"rechunk", "facts", "finalize"} /\ ~pass[t].gone

\* The writers go on as they are.
Undisturbed == IndexWriting' = IndexWriting /\ \A u \in IndexWriting : pass'[u] = pass[u]

\* One pass moves: it is a writer afterwards if it holds the lock then.
LEMMA OnePassMoves ==
  ASSUME KnowledgeTypeOK, NEW t \in IndexTasks, NEW q \in PassRow, pass' = [pass EXCEPT ![t] = q]
  PROVE  /\ pass'[t] = q /\ \A u \in IndexTasks \ {t} : pass'[u] = pass[u]
         /\ IndexWriting' = IF q.locked THEN IndexWriting \cup {t} ELSE IndexWriting \ {t}
<1>1. pass'[t] = q /\ \A u \in IndexTasks \ {t} : pass'[u] = pass[u]
  BY DEF KnowledgeTypeOK
<1>2. IndexWriting' = {u \in IndexTasks : pass'[u].locked}
  BY DEF IndexWriting
<1> QED
  BY <1>1, <1>2 DEF IndexWriting

\* Without the lock a pass may not be among the writers; with it the writers are none or it.
LEMMA LockIs ==
  ASSUME KnowledgeTypeOK, NEW t \in IndexTasks
  PROVE  /\ t \in IndexWriting <=> pass[t].locked
         /\ pass[t].locked \in BOOLEAN /\ pass[t] \in PassRow /\ NoPass \in PassRow
         /\ ~NoPass.locked /\ ~NoPass.gone /\ NoPass.pc = "idle"
BY KnowledgeRows DEF KnowledgeTypeOK, IndexWriting, PassRow, NoPass

\* What a step of a pass makes of the pass ...
LEMMA PassMovesOnly ==
  ASSUME KnowledgeTypeOK, KnowledgeTypeOK', NEW t \in IndexTasks,
         \/ \E s \in Sources, force \in BOOLEAN : BeginIndex(t, s, force)
         \/ Probe(t) \/ Analyze(t) \/ Documents(t) \/ Rechunk(t) \/ MergeFacts(t) \/ Finalize(t)
         \/ FailIndex(t) \/ IndexDies(t)
  PROVE  \E q \in PassRow : pass' = [pass EXCEPT ![t] = q]
<1>0. pass \in [IndexTasks -> PassRow] /\ pass' \in [IndexTasks -> PassRow]
  BY DEF KnowledgeTypeOK
<1>1. \A u \in IndexTasks \ {t} : pass'[u] = pass[u]
  <2>0. ASSUME NEW q, pass' = [pass EXCEPT ![t] = q]
        PROVE  \A u \in IndexTasks \ {t} : pass'[u] = pass[u]
    BY <1>0, <2>0
  <2>1. CASE \E s \in Sources, force \in BOOLEAN : BeginIndex(t, s, force)
    <3>1. \E q : pass' = [pass EXCEPT ![t] = q]
      BY <2>1, Zenon DEF BeginIndex
    <3> QED
      BY <2>0, <3>1
  <2>2. CASE Probe(t)
    <3>1. \E s, skips : pass' = [pass EXCEPT ![t] = IF skips THEN NoPass ELSE [@ EXCEPT !.pc = "analyze"]]
      BY <2>2, Zenon DEF Probe
    <3> QED
      BY <1>0, <3>1
  <2>3. CASE Analyze(t)
    BY <1>0, <2>3 DEF Analyze
  <2>4. CASE Documents(t)
    <3> DEFINE next == IF Changed(t) THEN "rechunk" ELSE "facts"
               old == document[pass[t].of].chunk
               d == [document[pass[t].of] EXCEPT !.text = pass[t].text]
    <3>1. PICK writes : pass' = [pass EXCEPT ![t].pc = next, ![t].locked = writes, ![t].stale = old,
                                             ![t].doc = d]
      BY <2>4, Zenon DEF Documents
    <3> HIDE DEF next, old, d
    <3> QED
      BY <1>0, <3>1
  <2>5. CASE Rechunk(t)
    <3>1. \E doc : pass' = [pass EXCEPT ![t].pc = "facts", ![t].locked = TRUE, ![t].doc = doc]
      BY <2>5, Zenon DEF Rechunk
    <3> QED
      BY <1>0, <3>1
  <2>6. CASE MergeFacts(t)
    <3>1. \E row, again : Merged(t, row, again)
      BY <2>6, Zenon DEF MergeFacts, InsertFact, MergeSame, MergeNear
    <3>2. PICK row, again : Merged(t, row, again)
      BY <3>1
    <3>3. PICK writes : pass' = [pass EXCEPT ![t].pc = "finalize", ![t].locked = writes,
                                   ![t].doc = RowSeen(t), ![t].row = row, ![t].again = again]
      BY <3>2, Zenon DEF Merged
    <3> QED
      BY <1>0, <3>3
  <2>7. CASE Finalize(t) \/ FailIndex(t) \/ IndexDies(t)
    <3>1. pass' = [pass EXCEPT ![t] = NoPass]
      BY <2>7, Zenon DEF Finalize, FailIndex, IndexDies
    <3> QED
      BY <2>0, <3>1
  <2> QED
    BY <2>1, <2>2, <2>3, <2>4, <2>5, <2>6, <2>7
<1>2. pass' = [pass EXCEPT ![t] = pass'[t]]
  BY <1>0, <1>1
<1> QED
  BY <1>0, <1>2

\* ... and of the writers.
LEMMA PassEffects ==
  ASSUME KnowledgeTypeOK, KnowledgeTypeOK', WriterInv, NEW t \in IndexTasks
  PROVE  /\ \A s \in Sources, force \in BOOLEAN :
              BeginIndex(t, s, force) => /\ IndexWriting = {} /\ IndexWriting' = {}
                                         /\ pass'[t].pc = "probe"
         /\ Probe(t) \/ Analyze(t) => Undisturbed /\ pass'[t].pc \notin {"rechunk", "finalize"}
         /\ Documents(t) =>
              /\ ~pass[t].locked /\ pass'[t].of = pass[t].of /\ pass'[t].pc \in {"rechunk", "facts"}
              /\ pass'[t].stale = document[pass[t].of].chunk
              /\ pass'[t].doc.chunk = document[pass[t].of].chunk
              /\ pass'[t].doc.embedded = document[pass[t].of].embedded
              /\ \/ Undisturbed
                 \/ IndexWriting = {} /\ IndexWriting' = {t} /\ ~pass'[t].gone
         /\ Rechunk(t) =>
              /\ IndexWriting \subseteq {t} /\ IndexWriting' = {t} /\ ~pass'[t].gone
              /\ pass'[t].of = pass[t].of /\ pass'[t].pc = "facts"
         /\ MergeFacts(t) =>
              /\ pass'[t].of = pass[t].of /\ pass'[t].text = pass[t].text
              /\ pass'[t].pc = "finalize"
              /\ \/ ~pass'[t].locked /\ Undisturbed
                 \/ /\ IndexWriting \subseteq {t} /\ IndexWriting' = {t} /\ ~pass'[t].gone
                    /\ pass'[t].doc = RowSeen(t)
         /\ Finalize(t) => IndexWriting \subseteq {t} /\ IndexWriting' = {} /\ pass'[t].pc = "idle"
         /\ FailIndex(t) => IndexWriting \subseteq {t} /\ IndexWriting' = {} /\ pass'[t].pc = "idle"
         /\ IndexDies(t) => /\ IndexWriting' = IndexWriting \ {t} /\ mishaps' # 0
                            /\ pass'[t].pc = "idle"
<1> DEFINE Others == \A u \in IndexTasks \ {t} : pass'[u] = pass[u]
<1>0. /\ pass \in [IndexTasks -> PassRow] /\ pass[t] \in PassRow /\ pass'[t] \in PassRow
      /\ IndexWriting \subseteq IndexTasks /\ mishaps \in Nat
  BY KnowledgeRows DEF KnowledgeTypeOK, IndexWriting
<1>1. ASSUME NEW q \in PassRow, pass' = [pass EXCEPT ![t] = q]
      PROVE  /\ pass'[t] = q /\ Others
             /\ IndexWriting' = IF q.locked THEN IndexWriting \cup {t} ELSE IndexWriting \ {t}
  BY <1>1, OnePassMoves
<1>2. t \in IndexWriting <=> pass[t].locked
  BY LockIs
<1>3. ASSUME NEW s \in Sources, NEW force \in BOOLEAN, BeginIndex(t, s, force)
      PROVE  IndexWriting = {} /\ IndexWriting' = {} /\ pass'[t].pc = "probe"
  <2>1. PICK q \in PassRow : pass' = [pass EXCEPT ![t] = q]
    BY <1>3, PassMovesOnly
  <2>2. IndexWriting = {} /\ ~pass'[t].locked /\ pass'[t].pc = "probe"
    BY <1>0, <1>3 DEF BeginIndex, NoPass
  <2> QED
    BY <1>1, <2>1, <2>2
<1>4. ASSUME Probe(t) \/ Analyze(t) PROVE Undisturbed /\ pass'[t].pc \notin {"rechunk", "finalize"}
  <2>1. PICK q \in PassRow : pass' = [pass EXCEPT ![t] = q]
    BY <1>4, PassMovesOnly
  <2>2. t \notin IndexWriting
    BY <1>4 DEF WriterInv, Probe, Analyze
  <2>3. ~pass'[t].locked /\ pass'[t].pc \notin {"rechunk", "finalize"}
    <3>1. CASE Probe(t)
      <4>1. pass'[t] = NoPass \/ pass'[t] = [pass[t] EXCEPT !.pc = "analyze"]
        BY <1>0, <3>1 DEF Probe
      <4> QED
        BY <1>0, <1>2, <2>2, <4>1 DEF NoPass, PassRow
    <3>2. CASE Analyze(t)
      BY <1>0, <1>2, <2>2, <3>2 DEF Analyze, PassRow
    <3> QED
      BY <1>4, <3>1, <3>2
  <2> QED
    BY <1>0, <1>1, <2>1, <2>2, <2>3 DEF Undisturbed
<1>5. ASSUME Documents(t)
      PROVE  /\ ~pass[t].locked /\ pass'[t].of = pass[t].of /\ pass'[t].pc \in {"rechunk", "facts"}
             /\ pass'[t].stale = document[pass[t].of].chunk
             /\ pass'[t].doc.chunk = document[pass[t].of].chunk
             /\ pass'[t].doc.embedded = document[pass[t].of].embedded
             /\ \/ Undisturbed
                \/ IndexWriting = {} /\ IndexWriting' = {t} /\ ~pass'[t].gone
  <2>1. PICK q \in PassRow : pass' = [pass EXCEPT ![t] = q]
    BY <1>5, PassMovesOnly
  <2>2. t \notin IndexWriting /\ ~pass[t].gone
    BY <1>5 DEF WriterInv, Documents
  <2> DEFINE next == IF Changed(t) THEN "rechunk" ELSE "facts"
             d == [document[pass[t].of] EXCEPT !.text = pass[t].text]
  <2>3. PICK writes \in BOOLEAN :
          /\ writes => IndexWriting = {}
          /\ pass' = [pass EXCEPT ![t].pc = next, ![t].locked = writes,
                               ![t].stale = document[pass[t].of].chunk, ![t].doc = d]
    BY <1>5, Zenon DEF Documents
  <2>4. document[pass[t].of] \in DocumentRow
    BY <1>5 DEF Documents, KnowledgeTypeOK
  <2>5. d.chunk = document[pass[t].of].chunk /\ d.embedded = document[pass[t].of].embedded
    BY <2>4 DEF DocumentRow
  <2>6. next \in {"rechunk", "facts"}
    OBVIOUS
  <2> HIDE DEF next, d
  <2>7. /\ pass'[t].of = pass[t].of /\ pass'[t].pc = next /\ pass'[t].locked = writes
        /\ pass'[t].stale = document[pass[t].of].chunk /\ pass'[t].doc = d
        /\ pass'[t].gone = pass[t].gone
    BY <1>0, <2>3 DEF PassRow
  <2>8. CASE writes
    BY <1>1, <1>2, <2>1, <2>2, <2>3, <2>5, <2>6, <2>7, <2>8
  <2>9. CASE ~writes
    BY <1>0, <1>1, <1>2, <2>1, <2>2, <2>5, <2>6, <2>7, <2>9 DEF Undisturbed
  <2> QED
    BY <2>8, <2>9
<1>6. ASSUME Rechunk(t)
      PROVE  /\ IndexWriting \subseteq {t} /\ IndexWriting' = {t} /\ ~pass'[t].gone
             /\ pass'[t].of = pass[t].of /\ pass'[t].pc = "facts"
  <2>1. PICK q \in PassRow : pass' = [pass EXCEPT ![t] = q]
    BY <1>6, PassMovesOnly
  <2>2. \E d : pass' = [pass EXCEPT ![t].pc = "facts", ![t].locked = TRUE, ![t].doc = d]
    BY <1>6, Zenon DEF Rechunk
  <2>3. PICK d : pass' = [pass EXCEPT ![t].pc = "facts", ![t].locked = TRUE, ![t].doc = d]
    BY <2>2
  <2>4. /\ pass'[t].pc = "facts" /\ pass'[t].locked /\ pass'[t].of = pass[t].of
        /\ pass'[t].gone = pass[t].gone
    BY <1>0, <2>3 DEF PassRow
  <2>5. IndexWriting \subseteq {t} /\ ~pass[t].gone
    BY <1>6 DEF Rechunk, MayWrite
  <2> QED
    BY <1>1, <2>1, <2>4, <2>5
<1>7. ASSUME MergeFacts(t)
      PROVE  /\ pass'[t].of = pass[t].of /\ pass'[t].text = pass[t].text /\ pass'[t].pc = "finalize"
             /\ \/ ~pass'[t].locked /\ Undisturbed
                \/ /\ IndexWriting \subseteq {t} /\ IndexWriting' = {t} /\ ~pass'[t].gone
                   /\ pass'[t].doc = RowSeen(t)
  <2>1. PICK q \in PassRow : pass' = [pass EXCEPT ![t] = q]
    BY <1>7, PassMovesOnly
  <2>2. \E row, again : Merged(t, row, again)
    BY <1>7 DEF MergeFacts, InsertFact, MergeSame, MergeNear
  <2>3. PICK row, again : Merged(t, row, again)
    BY <2>2
  <2>4. PICK writes \in BOOLEAN :
          /\ pass[t].locked => writes
          /\ writes => MayWrite(t)
          /\ pass' = [pass EXCEPT ![t].pc = "finalize", ![t].locked = writes,
                            ![t].doc = RowSeen(t), ![t].row = row, ![t].again = again]
    BY <2>3, Zenon DEF Merged
  <2>5. /\ pass'[t].of = pass[t].of /\ pass'[t].text = pass[t].text /\ pass'[t].pc = "finalize"
        /\ pass'[t].locked = writes /\ pass'[t].doc = RowSeen(t) /\ pass'[t].gone = pass[t].gone
    BY <1>0, <2>4 DEF PassRow
  <2>6. ~pass[t].gone
    BY <1>7 DEF MergeFacts
  <2>7. CASE writes
    BY <1>1, <2>1, <2>4, <2>5, <2>6, <2>7 DEF MayWrite
  <2>8. CASE ~writes
    <3>1. t \notin IndexWriting /\ IndexWriting' = IndexWriting /\ Others
      BY <1>1, <1>2, <2>1, <2>4, <2>5, <2>8
    <3> QED
      BY <1>0, <2>5, <2>8, <3>1 DEF Undisturbed
  <2> QED
    BY <2>5, <2>7, <2>8
<1>8. ASSUME Finalize(t) \/ FailIndex(t)
      PROVE  IndexWriting \subseteq {t} /\ IndexWriting' = {} /\ pass'[t].pc = "idle"
  <2>1. IndexWriting \subseteq {t} /\ pass' = [pass EXCEPT ![t] = NoPass]
    BY <1>8 DEF Finalize, FailIndex, MayWrite
  <2> QED
    BY <1>1, <2>1, LockIs
<1>9. ASSUME IndexDies(t)
      PROVE  IndexWriting' = IndexWriting \ {t} /\ mishaps' # 0 /\ pass'[t].pc = "idle"
  <2>1. pass' = [pass EXCEPT ![t] = NoPass] /\ mishaps' = mishaps + 1
    BY <1>9 DEF IndexDies
  <2>2. IndexWriting' = IndexWriting \ {t} /\ pass'[t].pc = "idle"
    BY <1>1, <2>1, LockIs
  <2> QED
    BY <1>0, <2>1, <2>2
<1> QED
  BY <1>3, <1>4, <1>5, <1>6, <1>7, <1>8, <1>9

\* The other passes stay as they are.
LEMMA OthersStay ==
  ASSUME KnowledgeTypeOK, KnowledgeTypeOK', NEW t \in IndexTasks,
         \/ \E s \in Sources, force \in BOOLEAN : BeginIndex(t, s, force)
         \/ Probe(t) \/ Analyze(t) \/ Documents(t) \/ Rechunk(t) \/ MergeFacts(t) \/ Finalize(t)
         \/ FailIndex(t) \/ IndexDies(t)
  PROVE  \A u \in IndexTasks \ {t} : pass'[u] = pass[u]
<1>1. PICK q \in PassRow : pass' = [pass EXCEPT ![t] = q]
  BY PassMovesOnly
<1> QED
  BY <1>1 DEF KnowledgeTypeOK

\* A step that leaves the passes alone.
Apart ==
  \/ \E s \in Sources : \/ AddSource(s) \/ UpdateSource(s) \/ RemoveRead(s) \/ SourceChanges(s)
                        \/ MemoExpires(s)
  \/ \E c \in Texts : EditFact(c) \/ SetActive(c)
  \/ RemoveVectors \/ RemovalDies \/ BacklogSelect \/ ChunksEmbedded \/ FactsEmbedded
  \/ UNCHANGED knowledgeVars

LEMMA ApartEffects == Apart => pass' = pass /\ IndexWriting' = IndexWriting
BY DEF Apart, IndexWriting, knowledgeVars, AddSource, UpdateSource, RemoveRead, SourceChanges,
       MemoExpires, EditFact, SetActive, RemoveVectors, RemovalDies, BacklogSelect, ChunksEmbedded,
       FactsEmbedded

\* The commit of a removal finds no writer and makes none.
LEMMA CommitEffects ==
  ASSUME KnowledgeTypeOK, RemoveCommit
  PROVE  /\ IndexWriting = {} /\ IndexWriting' = {}
         /\ \A t \in IndexTasks : /\ pass'[t].pc = pass[t].pc /\ pass'[t].of = pass[t].of
                                  /\ pass'[t].stale = pass[t].stale
<1>1. \A t \in IndexTasks :
        pass'[t] = IF pass[t].of = removal.of THEN [pass[t] EXCEPT !.gone = TRUE] ELSE pass[t]
  BY CommitStrands
<1>2. ASSUME NEW t \in IndexTasks
      PROVE  /\ pass'[t].pc = pass[t].pc /\ pass'[t].of = pass[t].of
             /\ pass'[t].stale = pass[t].stale /\ pass'[t].locked = pass[t].locked
  <2>1. pass[t] \in PassRow /\ pass'[t] \in {pass[t], [pass[t] EXCEPT !.gone = TRUE]}
    BY <1>1 DEF KnowledgeTypeOK
  <2> QED
    BY <2>1 DEF PassRow
<1>3. IndexWriting = {}
  BY CommitIs
<1> QED
  BY <1>2, <1>3 DEF IndexWriting

\* The commit of a removal retires facts and gives up no words.
LEMMA CommitKeepsWords ==
  ASSUME KnowledgeTypeOK, RemoveCommit, NEW c \in Texts
  PROVE  /\ fact'[c].wording = fact[c].wording
         /\ fact'[c].state = "retired" \/ fact'[c].state = fact[c].state
<1>1. fact[c] \in FactRow
  BY DEF KnowledgeTypeOK
<1>2. fact'[c] = [fact[c] EXCEPT !.from = IF @ = removal.of THEN "none" ELSE @,
                      !.state = IF c \in removal.claims THEN "retired" ELSE @]
  BY CommitRetires, Zenon
<1> QED
  BY <1>1, <1>2 DEF FactRow

LEMMA WriterStep == KnowledgeTypeOK /\ WriterInv /\ [KnowledgeNext]_knowledgeVars => WriterInv'
<1> SUFFICES ASSUME KnowledgeTypeOK, WriterInv, [KnowledgeNext]_knowledgeVars PROVE WriterInv'
  OBVIOUS
<1>0. KnowledgeTypeOK'
  BY KnowledgeTypesStep
<1>1. CASE Apart
  BY <1>1, ApartEffects DEF WriterInv
<1>2. CASE RemoveCommit
  BY <1>2, CommitEffects DEF WriterInv
<1>3. ASSUME NEW t \in IndexTasks, NEW s \in Sources, NEW force \in BOOLEAN, BeginIndex(t, s, force)
      PROVE  WriterInv'
  <2>1. IndexWriting' = {}
    BY <1>0, <1>3, PassEffects
  <2> QED
    BY <2>1 DEF WriterInv
<1>4. ASSUME Undisturbed PROVE WriterInv'
  BY <1>4 DEF WriterInv, Undisturbed
<1>5. ASSUME NEW t \in IndexTasks, IndexWriting' = {t}, ~pass'[t].gone,
             pass'[t].pc \in {"rechunk", "facts", "finalize"}
      PROVE  WriterInv'
  BY <1>5 DEF WriterInv
<1>6. ASSUME NEW t \in IndexTasks, IndexStep(t) \/ FailIndex(t) PROVE WriterInv'
  <2>1. CASE Probe(t) \/ Analyze(t)
    BY <1>0, <1>4, <2>1, PassEffects
  <2>2. CASE Documents(t)
    BY <1>0, <1>4, <1>5, <2>2, PassEffects
  <2>3. CASE Rechunk(t)
    BY <1>0, <1>5, <2>3, PassEffects
  <2>4. CASE MergeFacts(t)
    BY <1>0, <1>4, <1>5, <2>4, PassEffects
  <2>5. CASE Finalize(t) \/ FailIndex(t)
    <3>1. IndexWriting' = {}
      BY <1>0, <2>5, PassEffects
    <3> QED
      BY <3>1 DEF WriterInv
  <2> QED
    BY <1>6, <2>1, <2>2, <2>3, <2>4, <2>5 DEF IndexStep
<1>7. ASSUME NEW t \in IndexTasks, IndexDies(t) PROVE WriterInv'
  <2>1. IndexWriting' = IndexWriting \ {t} /\ \A u \in IndexTasks \ {t} : pass'[u] = pass[u]
    BY <1>0, <1>7, PassEffects, OthersStay
  <2> QED
    BY <2>1 DEF WriterInv, IndexWriting
<1> QED
  BY <1>1, <1>2, <1>3, <1>6, <1>7 DEF KnowledgeNext, RefreshStale, Apart

\* A claim nobody has made has no words of a person's, and what a pass is about to commit
\* of a claim is the fact as it stands, or the first fact of that claim.
WordInv ==
  /\ \A c \in Texts : fact[c].state = "none" => fact[c].wording = "source"
  /\ \A t \in IndexTasks : pass[t].pc = "finalize" /\ pass[t].locked =>
       \/ pass[t].row = fact[pass[t].text]
       \/ fact[pass[t].text].state = "none" /\ pass[t].row.state = "active"

\* Of a claim, a merge takes the fact as it stands, or makes the first.
LEMMA MergeTakes ==
  ASSUME KnowledgeTypeOK, NEW t \in IndexTasks, MergeFacts(t)
  PROVE  /\ fact' = fact /\ pass'[t].text = pass[t].text
         /\ \/ pass'[t].row = fact[pass[t].text]
            \/ fact[pass[t].text].state = "none" /\ pass'[t].row.state = "active"
<1> DEFINE c == pass[t].text
<1>0. pass \in [IndexTasks -> PassRow]
  BY DEF KnowledgeTypeOK
<1>1. \E row, again : /\ Merged(t, row, again)
                      /\ row = fact[c] \/ (fact[c].state = "none" /\ row.state = "active")
  <2>1. CASE InsertFact(t)
    <3>1. PICK embedded \in BOOLEAN :
            Merged(t, [state |-> "active", from |-> pass[t].of, wording |-> "source",
                       embedded |-> embedded], FALSE)
      BY <2>1 DEF InsertFact
    <3> DEFINE new == [state |-> "active", from |-> pass[t].of, wording |-> "source",
                       embedded |-> embedded]
    <3>2. new.state = "active" /\ fact[c].state = "none"
      BY <2>1 DEF InsertFact
    <3>3. Merged(t, new, FALSE)
      BY <3>1
    <3> HIDE DEF new
    <3> QED
      BY <3>2, <3>3
  <2>2. CASE MergeSame(t) \/ MergeNear(t)
    <3>1. \E again : Merged(t, fact[c], again)
      BY <2>2 DEF MergeSame, MergeNear
    <3> QED
      BY <3>1
  <2> QED
    BY <2>1, <2>2 DEF MergeFacts
<1>2. PICK row, again : /\ Merged(t, row, again)
                        /\ row = fact[c] \/ (fact[c].state = "none" /\ row.state = "active")
  BY <1>1
<1>3. \E writes : pass' = [pass EXCEPT ![t].pc = "finalize", ![t].locked = writes,
                             ![t].doc = RowSeen(t), ![t].row = row, ![t].again = again]
  BY <1>2, Zenon DEF Merged
<1>4. pass'[t].row = row /\ pass'[t].text = c
  BY <1>0, <1>3 DEF PassRow
<1>5. fact' = fact
  BY DEF MergeFacts
<1> QED
  BY <1>2, <1>4, <1>5

LEMMA WordStep ==
  KnowledgeTypeOK /\ WriterInv /\ WordInv /\ [KnowledgeNext]_knowledgeVars => WordInv'
<1> SUFFICES ASSUME KnowledgeTypeOK, WriterInv, WordInv, [KnowledgeNext]_knowledgeVars
             PROVE  WordInv'
  OBVIOUS
<1>0. /\ pass \in [IndexTasks -> PassRow] /\ fact \in [Texts -> FactRow] /\ NoPass.pc = "idle"
      /\ \A t \in IndexTasks : /\ pass[t].pc \in {"documents", "rechunk", "facts", "finalize"}
                                    => pass[t].text \in Texts
                               /\ pass[t].locked \in BOOLEAN
      /\ KnowledgeTypeOK'
  BY KnowledgeTypesStep DEF KnowledgeTypeOK, NoPass, PassRow
<1>1. \A t \in IndexTasks : pass[t].locked => t \in IndexWriting
  BY DEF IndexWriting
<1>1a. \A t \in IndexTasks : pass'[t].locked => t \in IndexWriting'
  BY DEF IndexWriting
<1>2. ASSUME pass' = pass, fact' = fact \/ IndexWriting = {},
             \A c \in Texts : fact'[c].state = "none" => fact'[c].wording = "source"
      PROVE  WordInv'
  BY <1>1, <1>2 DEF WordInv
<1>2a. ASSUME IndexWriting' = {},
              \A c \in Texts : fact'[c].state = "none" => fact'[c].wording = "source"
       PROVE  WordInv'
  BY <1>1a, <1>2a DEF WordInv
<1>3. CASE Apart
  <2>1. CASE \E c \in Texts : EditFact(c) \/ SetActive(c)
    <3>1. PICK c \in Texts : EditFact(c) \/ SetActive(c)
      BY <2>1
    <3>2. /\ IndexWriting = {} /\ pass' = pass /\ fact[c].state # "none" /\ fact[c] \in FactRow
      BY <1>0, <3>1 DEF EditFact, SetActive
    <3>3. fact'[c].state # "none" /\ \A d \in Texts \ {c} : fact'[d] = fact[d]
      <4>1. CASE EditFact(c)
        <5>1. PICK embedded : fact' = [fact EXCEPT ![c].wording = "user", ![c].embedded = embedded]
          BY <4>1 DEF EditFact
        <5> QED
          BY <1>0, <3>2, <5>1 DEF FactRow
      <4>2. CASE SetActive(c)
        <5>1. \E st \in {"active", "retired"} : fact' = [fact EXCEPT ![c].state = st]
          BY <4>2 DEF SetActive
        <5> QED
          BY <1>0, <3>2, <5>1 DEF FactRow
      <4> QED
        BY <3>1, <4>1, <4>2
    <3> QED
      BY <1>2, <3>2, <3>3 DEF WordInv
  <2>2. CASE FactsEmbedded
    <3>1. \A c \in Texts : fact'[c].wording = fact[c].wording /\ fact'[c].state = fact[c].state
      BY <1>0, <2>2 DEF FactsEmbedded, FactRow
    <3> QED
      BY <1>2, <2>2, <3>1 DEF WordInv, FactsEmbedded
  <2>3. CASE fact' = fact
    BY <1>2, <1>3, <2>3, ApartEffects DEF WordInv
  <2> QED
    BY <1>3, <2>1, <2>2, <2>3
    DEF Apart, AddSource, UpdateSource, RemoveRead, SourceChanges, MemoExpires, RemoveVectors,
        RemovalDies, BacklogSelect, ChunksEmbedded, knowledgeVars
<1>4. CASE RemoveCommit
  <2>1. \A c \in Texts : /\ fact'[c].wording = fact[c].wording
                         /\ fact'[c].state = "none" => fact[c].state = "none"
    BY <1>4, CommitKeepsWords
  <2> QED
    BY <1>2a, <1>4, <2>1, CommitEffects DEF WordInv
<1>5. ASSUME NEW t \in IndexTasks, fact' = fact, \A u \in IndexTasks \ {t} : pass'[u] = pass[u],
             pass'[t].pc # "finalize"
      PROVE  WordInv'
  BY <1>5 DEF WordInv
<1>6. ASSUME NEW t \in IndexTasks, NEW s \in Sources, NEW force \in BOOLEAN, BeginIndex(t, s, force)
      PROVE  WordInv'
  <2>1. fact' = fact
    BY <1>6 DEF BeginIndex
  <2>2. pass'[t].pc = "probe"
    BY <1>0, <1>6, PassEffects
  <2> QED
    BY <1>0, <1>5, <1>6, <2>1, <2>2, OthersStay
<1>7. ASSUME NEW t \in IndexTasks, IndexStep(t) \/ FailIndex(t) \/ IndexDies(t) PROVE WordInv'
  <2>1. CASE Probe(t) \/ Analyze(t) \/ Documents(t) \/ Rechunk(t) \/ FailIndex(t) \/ IndexDies(t)
    <3>1. fact' = fact
      BY <2>1, Zenon DEF Probe, Analyze, Documents, Rechunk, FailIndex, IndexDies
    <3>2. pass'[t].pc # "finalize"
      BY <1>0, <2>1, PassEffects
    <3> QED
      BY <1>0, <1>5, <2>1, <3>1, <3>2, OthersStay
  <2>2. CASE MergeFacts(t)
    <3>1. /\ fact' = fact /\ pass'[t].text = pass[t].text
          /\ \A u \in IndexTasks \ {t} : pass'[u] = pass[u]
          /\ \/ pass'[t].row = fact[pass[t].text]
             \/ fact[pass[t].text].state = "none" /\ pass'[t].row.state = "active"
      BY <1>0, <2>2, MergeTakes, OthersStay
    <3> QED
      BY <3>1 DEF WordInv
  <2>3. CASE Finalize(t)
    <3> DEFINE c == pass[t].text
    <3>1. c \in Texts /\ pass[t].pc = "finalize"
      BY <1>0, <2>3 DEF Finalize
    <3>2. /\ fact'[c] = IF pass[t].locked THEN pass[t].row ELSE fact[c]
          /\ \A d \in Texts \ {c} : fact'[d] = fact[d]
      BY <1>0, <2>3, <3>1 DEF Finalize
    <3>3. IndexWriting' = {}
      BY <1>0, <2>3, PassEffects
    <3>4. fact'[c].state = "none" => fact'[c].wording = "source"
      BY <3>1, <3>2 DEF WordInv
    <3> QED
      BY <1>2a, <3>2, <3>3, <3>4 DEF WordInv
  <2> QED
    BY <1>7, <2>1, <2>2, <2>3 DEF IndexStep
<1> QED
  BY <1>3, <1>4, <1>6, <1>7 DEF KnowledgeNext, RefreshStale, Apart

LEMMA WordInit == KnowledgeInit => WriterInv /\ WordInv
BY DEF KnowledgeInit, WriterInv, WordInv, IndexWriting, NoPass, NoFact

\* What a person does to a fact outlives the indexing: of all the steps only the person's
\* own brings a retired fact back, and no step gives up the person's words, although a pass
\* commits a row it read before and a removal retires the facts it read before.
THEOREM LastWordHolds == KnowledgeSpec => PersonHasTheLastWord
<1>1. ASSUME KnowledgeTypeOK, WriterInv, WordInv, [KnowledgeNext]_knowledgeVars, NEW c \in Texts
      PROVE  /\ fact[c].state = "retired" /\ fact'[c].state = "active" => SetActive(c)
             /\ fact[c].wording = "user" => fact'[c].wording = "user"
  <2>0. fact \in [Texts -> FactRow] /\ pass \in [IndexTasks -> PassRow]
    BY <1>1 DEF KnowledgeTypeOK
  <2>1. CASE fact' = fact
    BY <2>0, <2>1 DEF FactRow
  <2>2. CASE \E d \in Texts : EditFact(d)
    <3>1. PICK d \in Texts, embedded \in BOOLEAN :
            fact' = [fact EXCEPT ![d].wording = "user", ![d].embedded = embedded]
      BY <2>2 DEF EditFact
    <3> QED
      BY <2>0, <3>1 DEF FactRow
  <2>3. CASE \E d \in Texts : SetActive(d)
    <3>1. PICK d \in Texts : SetActive(d)
      BY <2>3
    <3>2. \E st \in {"active", "retired"} : fact' = [fact EXCEPT ![d].state = st]
      BY <3>1 DEF SetActive
    <3>3. d # c => fact'[c] = fact[c]
      BY <2>0, <3>2
    <3>4. fact'[c].wording = fact[c].wording
      BY <2>0, <3>2 DEF FactRow
    <3> QED
      BY <3>1, <3>3, <3>4
  <2>4. CASE RemoveCommit
    BY <1>1, <2>4, CommitKeepsWords
  <2>5. CASE FactsEmbedded
    BY <2>0, <2>5 DEF FactsEmbedded, FactRow
  <2>6. CASE \E t \in IndexTasks : Finalize(t)
    <3>1. PICK t \in IndexTasks : Finalize(t)
      BY <2>6
    <3>2. /\ pass[t].pc = "finalize"
          /\ fact' = [fact EXCEPT ![pass[t].text] = IF pass[t].locked THEN pass[t].row ELSE @]
      BY <3>1 DEF Finalize
    <3>3. CASE c = pass[t].text
      <4>1. fact'[c] = fact[c] \/ fact[c].state = "none"
        BY <1>1, <2>0, <3>2, <3>3 DEF WordInv
      <4> QED
        BY <1>1, <4>1 DEF WordInv
    <3>4. CASE c # pass[t].text
      BY <2>0, <3>2, <3>4
    <3> QED
      BY <3>3, <3>4
  <2>7. ASSUME NEW t \in IndexTasks, NEW s \in Sources, NEW force \in BOOLEAN,
               BeginIndex(t, s, force)
        PROVE  fact' = fact
    BY <2>7, Zenon DEF BeginIndex
  <2>8. ASSUME NEW t \in IndexTasks, IndexStep(t) \/ FailIndex(t) \/ IndexDies(t)
        PROVE  fact' = fact \/ Finalize(t)
    BY <2>8, Zenon DEF IndexStep, Probe, Analyze, Documents, Rechunk, MergeFacts, FailIndex, IndexDies
  <2>9. ASSUME Apart
        PROVE  fact' = fact \/ FactsEmbedded \/ \E d \in Texts : EditFact(d) \/ SetActive(d)
    BY <2>9, Zenon
    DEF Apart, AddSource, UpdateSource, RemoveRead, SourceChanges, MemoExpires, RemoveVectors,
        RemovalDies, BacklogSelect, ChunksEmbedded, knowledgeVars
  <2>10. \/ Apart \/ RemoveCommit
         \/ \E t \in IndexTasks, s \in Sources, force \in BOOLEAN : BeginIndex(t, s, force)
         \/ \E t \in IndexTasks : IndexStep(t) \/ FailIndex(t) \/ IndexDies(t)
    BY <1>1 DEF KnowledgeNext, RefreshStale, Apart
  <2> QED
    BY <2>1, <2>2, <2>3, <2>4, <2>5, <2>6, <2>7, <2>8, <2>9, <2>10
<1>2. KnowledgeTypeOK /\ WriterInv /\ WordInv /\ [KnowledgeNext]_knowledgeVars =>
        [\A c \in Texts :
           /\ fact[c].state = "retired" /\ fact'[c].state = "active" => SetActive(c)
           /\ fact[c].wording = "user" => fact'[c].wording = "user"]_knowledgeVars
  BY <1>1
<1> QED
  BY <1>2, KnowledgeTypesInit, KnowledgeTypesStep, WordInit, WriterStep, WordStep, PTL
  DEF KnowledgeSpec, PersonHasTheLastWord

-----------------------------------------------------------------------------
(* Knowledge: the vectors follow the rows.                                 *)

\* The document of a source as it will be once the pass that writes has committed.
Effective(s) ==
  IF \E t \in IndexWriting : pass[t].of = s
  THEN pass[CHOOSE t \in IndexWriting : pass[t].of = s].doc ELSE document[s]
EffectiveFact ==
  \A s \in Sources :
    /\ \A t \in IndexWriting : pass[t].of = s => Effective(s) = pass[t].doc
    /\ (\A t \in IndexWriting : pass[t].of # s) => Effective(s) = document[s]

LEMMA EffectiveIs == WriterInv => EffectiveFact
BY DEF WriterInv, EffectiveFact, Effective

\* The vectors a removal has committed to delete and not deleted yet.
PendingRemoval(k) == removal.at = "chunks" /\ k \in removal.chunks

\* A generation that is no other source's, nor will be.
Own(s, k) == k < nextChunk /\ \A u \in Sources \ {s} : k = 0 \/ Effective(u).chunk # k

\* Whose ids are read are the source's own, as are those the source has, and what a removal
\* still deletes is shown no more.
ChunkInv ==
  /\ \A s \in Sources : /\ Own(s, document[s].chunk) /\ Own(s, Effective(s).chunk)
                        /\ Effective(s).embedded => Effective(s).chunk # 0
  /\ \A t \in IndexTasks : pass[t].pc = "rechunk" => Own(pass[t].of, pass[t].stale)
  /\ \A k \in removal.chunks :
       /\ k < nextChunk
       /\ removal.at = "commit" => Own(removal.of, k)
       /\ removal.at = "chunks" /\ k # 0 => \A s \in Sources : Effective(s).chunk # k
  /\ \A k \in orphans : k # 0 /\ k < nextChunk

\* The vectors not about to go are those of the chunks that are shown as embedded, and
\* the orphans.
Embedded(s, k) == Effective(s).embedded /\ Effective(s).chunk = k
ShownInv ==
  \A k \in 1..MaxChunks : ~PendingRemoval(k) =>
    (k \in chunkVecs <=> k \in orphans \/ \E s \in Sources : Embedded(s, k))

VectorInv == mishaps = 0 => ChunkInv /\ ShownInv

\* A source's generation is the one it had, none, or the next.
Renewed(s) ==
  \/ Effective(s)'.chunk \in {Effective(s).chunk, 0}
  \/ /\ Effective(s)'.chunk = nextChunk /\ nextChunk' = nextChunk + 1
     /\ \A u \in Sources \ {s} : Effective(u)'.chunk # nextChunk

LEMMA OwnKept ==
  ASSUME nextChunk \in Nat \ {0}, nextChunk' \in {nextChunk, nextChunk + 1},
         \A s \in Sources : Renewed(s)
  PROVE  \A s \in Sources, k \in Nat : Own(s, k) => Own(s, k)'
<1> SUFFICES ASSUME NEW s \in Sources, NEW k \in Nat, Own(s, k) PROVE Own(s, k)'
  OBVIOUS
<1>1. k < nextChunk' /\ k # nextChunk
  BY DEF Own
<1>2. ASSUME NEW u \in Sources \ {s}, k # 0 PROVE Effective(u)'.chunk # k
  BY <1>1, <1>2 DEF Own, Renewed
<1> QED
  BY <1>1, <1>2 DEF Own

\* What keeps the generations apart: a pass and a removal read what is committed, a commit
\* shows what was effective, and an orphan was a source's.
LEMMA ChunksKept ==
  ASSUME KnowledgeTypeOK, KnowledgeTypeOK', ChunkInv,
         nextChunk' \in {nextChunk, nextChunk + 1},
         \A s \in Sources : Effective(s).chunk \in Nat /\ Renewed(s),
         \A s \in Sources : Effective(s)'.embedded => Effective(s)'.chunk # 0,
         \A s \in Sources : document'[s].chunk \in {document[s].chunk, Effective(s).chunk, 0},
         \A t \in IndexTasks : pass'[t].pc = "rechunk" =>
           \/ pass[t].pc = "rechunk" /\ pass'[t].of = pass[t].of /\ pass'[t].stale = pass[t].stale
           \/ pass'[t].of \in Sources /\ pass'[t].stale = document[pass'[t].of].chunk,
         \/ removal' = removal
         \/ /\ removal'.at = "commit" /\ removal'.of \in Sources
            /\ removal'.chunks = {document[removal'.of].chunk}
         \/ /\ removal.at = "commit" /\ removal'.at = "chunks"
            /\ removal'.chunks = removal.chunks
            /\ \E o \in Sources : o = removal.of /\ Effective(o)'.chunk = 0
         \/ removal'.at \notin {"commit", "chunks"} /\ removal'.chunks \subseteq removal.chunks,
         \A k \in orphans' : k \in orphans \/ (k # 0 /\ \E s \in Sources : k = Effective(s).chunk)
  PROVE  ChunkInv'
<1>0. /\ nextChunk \in Nat \ {0} /\ MaxChunks \in Nat
      /\ \A s \in Sources : document[s].chunk \in Nat
      /\ \A t \in IndexTasks : pass[t].stale \in Nat /\ (pass[t].pc = "rechunk" => pass[t].of \in Sources)
      /\ \A k \in removal.chunks : k \in Nat
      /\ \A k \in orphans : k \in Nat
      /\ removal.at = "commit" => removal.of \in Sources
  <2>1. /\ document \in [Sources -> DocumentRow] /\ pass \in [IndexTasks -> PassRow]
        /\ \A t \in IndexTasks : pass[t].pc # "idle" => pass[t].of \in Sources
        /\ removal.chunks \subseteq 0..MaxChunks /\ orphans \subseteq 0..MaxChunks
        /\ nextChunk \in 1..(MaxChunks + 1) /\ MaxChunks \in Nat
        /\ removal.at = "commit" => removal.of \in Sources
    BY KnowledgeRows DEF KnowledgeTypeOK
  <2> QED
    BY <2>1 DEF DocumentRow, PassRow
<1>1. \A s \in Sources, k \in Nat : Own(s, k) => Own(s, k)'
  BY <1>0, OwnKept
<1>2. ASSUME NEW s \in Sources
      PROVE  Own(s, document[s].chunk)' /\ Own(s, Effective(s).chunk)'
  <2>1. \A k \in {document[s].chunk, Effective(s).chunk, 0} : k \in Nat /\ Own(s, k)
    BY <1>0 DEF ChunkInv, Own
  <2>2. \A k \in {document[s].chunk, Effective(s).chunk, 0} : Own(s, k)'
    BY <1>1, <2>1
  <2>3. Own(s, document[s].chunk)'
    <3>1. document'[s].chunk \in {document[s].chunk, Effective(s).chunk, 0}
      OBVIOUS
    <3> QED
      BY <2>2, <3>1 DEF Own
  <2>4. CASE Effective(s)'.chunk \in {Effective(s).chunk, 0}
    BY <2>2, <2>3, <2>4 DEF Own
  <2>5. CASE /\ Effective(s)'.chunk = nextChunk /\ nextChunk' = nextChunk + 1
             /\ \A u \in Sources \ {s} : Effective(u)'.chunk # nextChunk
    BY <1>0, <2>3, <2>5 DEF Own
  <2> QED
    BY <2>4, <2>5 DEF Renewed
<1>3. ASSUME NEW t \in IndexTasks, pass'[t].pc = "rechunk"
      PROVE  Own(pass[t].of, pass[t].stale)'
  <2>1. PICK o \in Sources, k \in Nat : o = pass'[t].of /\ k = pass'[t].stale /\ Own(o, k)
    BY <1>0, <1>3 DEF ChunkInv
  <2>2. Own(o, k)'
    BY <1>1, <2>1
  <2> QED
    BY <2>1, <2>2 DEF Own
<1>4. \A k \in orphans' : k # 0 /\ k < nextChunk'
  BY <1>0 DEF ChunkInv, Own
<1>5. ASSUME NEW k \in removal'.chunks
      PROVE  /\ k < nextChunk'
             /\ removal'.at = "commit" => Own(removal.of, k)'
             /\ removal'.at = "chunks" /\ k # 0 => \A s \in Sources : Effective(s)'.chunk # k
  <2>1. CASE removal' = removal
    <3>1. k \in Nat /\ k < nextChunk
      BY <1>0, <2>1 DEF ChunkInv
    <3>2. removal.at = "commit" => Own(removal.of, k)'
      <4>1. removal.at = "commit" => Own(removal.of, k)
        BY <2>1 DEF ChunkInv
      <4>2. ASSUME NEW o \in Sources, o = removal.of, Own(o, k)' PROVE Own(removal.of, k)'
        BY <2>1, <4>2 DEF Own
      <4> QED
        BY <1>0, <1>1, <3>1, <4>1, <4>2
    <3>3. removal.at = "chunks" /\ k # 0 => \A s \in Sources : Effective(s)'.chunk # k
      BY <1>0, <2>1, <3>1 DEF ChunkInv, Renewed
    <3> QED
      BY <1>0, <2>1, <3>1, <3>2, <3>3
  <2>2. CASE /\ removal'.at = "commit" /\ removal'.of \in Sources
             /\ removal'.chunks = {document[removal'.of].chunk}
    <3>1. PICK o \in Sources : o = removal'.of /\ k = document[o].chunk
      BY <2>2
    <3>2. k \in Nat /\ Own(o, k)
      BY <1>0, <3>1 DEF ChunkInv
    <3>3. Own(o, k)'
      BY <1>1, <3>2
    <3> QED
      BY <2>2, <3>1, <3>3 DEF Own
  <2>3. CASE /\ removal.at = "commit" /\ removal'.at = "chunks"
             /\ removal'.chunks = removal.chunks
            /\ \E o \in Sources : o = removal.of /\ Effective(o)'.chunk = 0
    <3>1. k \in Nat /\ Own(removal.of, k) /\ removal.of \in Sources
      BY <1>0, <2>3 DEF ChunkInv
    <3>2. PICK o \in Sources : o = removal.of /\ Own(o, k) /\ Effective(o)'.chunk = 0
      BY <2>3, <3>1
    <3>3. Own(o, k)'
      BY <1>1, <3>1, <3>2
    <3> QED
      BY <2>3, <3>2, <3>3 DEF Own
  <2>4. CASE removal'.at \notin {"commit", "chunks"} /\ removal'.chunks \subseteq removal.chunks
    BY <1>0, <2>4 DEF ChunkInv
  <2> QED
    BY <2>1, <2>2, <2>3, <2>4
<1> QED
  BY <1>2, <1>3, <1>4, <1>5 DEF ChunkInv

\* A step that changes neither what is shown nor the vectors.
LEMMA ShownKept ==
  ASSUME ShownInv,
         \A s \in Sources : /\ Effective(s)'.chunk = Effective(s).chunk
                            /\ Effective(s)'.embedded = Effective(s).embedded,
         removal' = removal \/ (removal.at # "chunks" /\ removal'.at # "chunks"),
         chunkVecs' = chunkVecs, orphans' = orphans
  PROVE  ShownInv'
<1>1. \A k \in 1..MaxChunks : PendingRemoval(k)' <=> PendingRemoval(k)
  BY DEF PendingRemoval
<1>2. \A k \in 1..MaxChunks, s \in Sources : Embedded(s, k)' <=> Embedded(s, k)
  BY DEF Embedded
<1> QED
  BY <1>1, <1>2 DEF ShownInv

\* _rechunk: the vectors read as old go as the new ones come.
LEMMA ShownOfRechunk ==
  ASSUME KnowledgeTypeOK, ChunkInv, ShownInv, NEW t \in IndexTasks, NEW o \in Sources,
         pass[t].pc = "rechunk", pass[t].of = o, Effective(o) = RowSeen(t),
         NEW embedded \in BOOLEAN,
         Effective(o)'.chunk = nextChunk, Effective(o)'.embedded = embedded,
         \A s \in Sources \ {o} : Effective(s)' = Effective(s),
         \A s \in Sources : Effective(s).chunk \in Nat,
         removal' = removal, chunkVecs' = Swapped(t, IF embedded THEN {nextChunk} ELSE {}),
         orphans' = Dropped(orphans \cup IF RowSeen(t).embedded THEN {RowSeen(t).chunk} ELSE {},
                            {pass[t].stale})
  PROVE  ShownInv'
<1>0. nextChunk \in Nat \ {0} /\ MaxChunks \in Nat /\ pass[t].stale \in Nat
  <2>1. pass[t] \in PassRow /\ nextChunk \in 1..(MaxChunks + 1) /\ MaxChunks \in Nat
    BY KnowledgeRows DEF KnowledgeTypeOK
  <2> QED
    BY <2>1 DEF PassRow
<1>1. Own(o, pass[t].stale) /\ \A s \in Sources : Effective(s).chunk < nextChunk
  BY DEF ChunkInv, Own
<1>2. ASSUME NEW k \in 1..MaxChunks, ~PendingRemoval(k)'
      PROVE  k \in chunkVecs' <=> k \in orphans' \/ \E s \in Sources : Embedded(s, k)'
  <2>1. /\ ~PendingRemoval(k)
        /\ k \in chunkVecs <=> k \in orphans \/ \E s \in Sources : Embedded(s, k)
    BY <1>2 DEF PendingRemoval, ShownInv
  <2>2. CASE k = nextChunk
    <3>1. k # pass[t].stale /\ k \notin orphans
      BY <1>0, <1>1, <2>2 DEF ChunkInv, Own
    <3>2. \A s \in Sources : ~Embedded(s, k)
      BY <1>0, <1>1, <2>2 DEF Embedded
    <3>3. k \in chunkVecs' <=> embedded
      BY <2>1, <2>2, <3>1, <3>2 DEF Swapped, Stored, Dropped
    <3>4. Embedded(o, k)' <=> embedded
      BY <2>2 DEF Embedded
    <3>5. \A s \in Sources \ {o} : ~Embedded(s, k)'
      BY <3>2 DEF Embedded
    <3>6. k \notin orphans'
      BY <1>0, <1>1, <2>2, <3>1 DEF Dropped
    <3> QED
      BY <3>3, <3>4, <3>5, <3>6
  <2>3. CASE k # nextChunk
    <3>1. ~Embedded(o, k)' /\ \A s \in Sources \ {o} : Embedded(s, k)' <=> Embedded(s, k)
      BY <2>3 DEF Embedded
    <3>2. k \in chunkVecs' <=> k \in chunkVecs /\ k # pass[t].stale
      BY <2>3 DEF Swapped, Stored, Dropped
    <3>3. k \in orphans' <=> (k \in orphans \/ Embedded(o, k)) /\ k # pass[t].stale
      BY DEF Dropped, Embedded
    <3>4. k = pass[t].stale => \A s \in Sources \ {o} : ~Embedded(s, k)
      BY <1>0, <1>1 DEF Own, Embedded
    <3> QED
      BY <2>1, <3>1, <3>2, <3>3, <3>4
  <2> QED
    BY <2>2, <2>3
<1> QED
  BY <1>2 DEF ShownInv

\* remove_source: the document goes, the vectors read are about to, another's is an orphan.
LEMMA ShownOfCommit ==
  ASSUME ShownInv, NEW o \in Sources, removal.at = "commit", removal'.at = "chunks",
         removal'.chunks = removal.chunks, Effective(o) = document[o], NoDocument.embedded = FALSE,
         Effective(o)' = NoDocument, \A s \in Sources \ {o} : Effective(s)' = Effective(s),
         chunkVecs' = chunkVecs,
         orphans' = orphans \cup
           (IF document[o].embedded THEN {document[o].chunk} \ removal.chunks ELSE {})
  PROVE  ShownInv'
<1>1. ASSUME NEW k \in 1..MaxChunks, ~PendingRemoval(k)'
      PROVE  k \in chunkVecs' <=> k \in orphans' \/ \E s \in Sources : Embedded(s, k)'
  <2>1. k \notin removal.chunks /\ ~PendingRemoval(k)
    BY <1>1 DEF PendingRemoval
  <2>2. k \in chunkVecs <=> k \in orphans \/ \E s \in Sources : Embedded(s, k)
    BY <2>1 DEF ShownInv
  <2>3. ~Embedded(o, k)' /\ \A s \in Sources \ {o} : Embedded(s, k)' <=> Embedded(s, k)
    BY DEF Embedded
  <2>4. k \in orphans' <=> k \in orphans \/ Embedded(o, k)
    BY <2>1 DEF Embedded
  <2> QED
    BY <2>2, <2>3, <2>4
<1> QED
  BY <1>1 DEF ShownInv

\* ... and then those read go.
LEMMA ShownOfVectors ==
  ASSUME ChunkInv, ShownInv, removal.at = "chunks", removal'.at = "facts",
         \A s \in Sources : Effective(s)' = Effective(s),
         chunkVecs' = Dropped(chunkVecs, removal.chunks), orphans' = Dropped(orphans, removal.chunks)
  PROVE  ShownInv'
<1>1. ASSUME NEW k \in 1..MaxChunks
      PROVE  k \in chunkVecs' <=> k \in orphans' \/ \E s \in Sources : Embedded(s, k)'
  <2>1. \A s \in Sources : Embedded(s, k)' <=> Embedded(s, k)
    BY DEF Embedded
  <2>2. CASE k \in removal.chunks
    BY <2>1, <2>2 DEF ChunkInv, Embedded, Dropped
  <2>3. CASE k \notin removal.chunks
    BY <2>1, <2>3 DEF ShownInv, PendingRemoval, Dropped
  <2> QED
    BY <2>2, <2>3
<1> QED
  BY <1>1 DEF ShownInv

\* embed_backlog goes on only if every chunk it selected is still some document's.
LEMMA BacklogIsShown ==
  ASSUME KnowledgeTypeOK, ChunkInv, \A s \in Sources : Effective(s) = document[s],
         NEW due, due = {s \in Sources : document[s].chunk \in backlog.chunks},
         Cardinality(due) = Cardinality(backlog.chunks)
  PROVE  \A k \in backlog.chunks : \E s \in due : document[s].chunk = k
<1>1. backlog.chunks \subseteq 1..MaxChunks /\ MaxChunks \in Nat
  BY KnowledgeRows DEF KnowledgeTypeOK
<1>2. IsFiniteSet(1..MaxChunks)
  BY <1>1, FS_Interval
<1>3. IsFiniteSet(backlog.chunks)
  BY <1>1, <1>2, FS_Subset
<1> DEFINE f == [s \in due |-> document[s].chunk]
<1>4. f \in [due -> backlog.chunks]
  OBVIOUS
<1>5. \A s, u \in due : f[s] = f[u] => s = u
  <2>1. \A s \in due : s \in Sources /\ f[s] = Effective(s).chunk /\ f[s] # 0
    BY <1>1
  <2> QED
    BY <2>1 DEF ChunkInv, Own
<1>6. f \in Injection(due, backlog.chunks)
  BY <1>4, <1>5 DEF Injection, IsInjective
<1>7. f \in Surjection(due, backlog.chunks)
  BY <1>3, <1>6, FS_Injection
<1> QED
  BY <1>7 DEF Surjection

LEMMA ShownOfBacklog ==
  ASSUME ShownInv, \A s \in Sources : Effective(s) = document[s],
         NEW due, due = {s \in Sources : document[s].chunk \in backlog.chunks},
         \A k \in backlog.chunks : \E s \in due : document[s].chunk = k,
         \A s \in Sources : /\ Effective(s)'.chunk = Effective(s).chunk
                            /\ Effective(s)'.embedded <=> (Effective(s).embedded \/ s \in due),
         chunkVecs' = Stored(chunkVecs, backlog.chunks), removal' = removal, orphans' = orphans
  PROVE  ShownInv'
<1>1. ASSUME NEW k \in 1..MaxChunks, ~PendingRemoval(k)'
      PROVE  k \in chunkVecs' <=> k \in orphans' \/ \E s \in Sources : Embedded(s, k)'
  <2>1. ~PendingRemoval(k)
    BY <1>1 DEF PendingRemoval
  <2>2. \A s \in Sources : Embedded(s, k)' <=> Embedded(s, k) \/ (s \in due /\ Effective(s).chunk = k)
    BY DEF Embedded
  <2>3. (\E s \in Sources : s \in due /\ Effective(s).chunk = k) <=> k \in backlog.chunks
    OBVIOUS
  <2> QED
    BY <2>1, <2>2, <2>3 DEF ShownInv, Stored
<1> QED
  BY <1>1 DEF ShownInv

\* A step after which every source has what it had, and whose passes and removals are told.
LEMMA VectorFrame ==
  ASSUME KnowledgeTypeOK, KnowledgeTypeOK', ChunkInv, ShownInv,
         \A s \in Sources : Effective(s) \in DocumentRow,
         \A s \in Sources : /\ Effective(s)'.chunk = Effective(s).chunk
                            /\ Effective(s)'.embedded = Effective(s).embedded,
         \A s \in Sources : document'[s].chunk \in {document[s].chunk, Effective(s).chunk, 0},
         \A t \in IndexTasks : pass'[t].pc = "rechunk" =>
           \/ pass[t].pc = "rechunk" /\ pass'[t].of = pass[t].of /\ pass'[t].stale = pass[t].stale
           \/ pass'[t].of \in Sources /\ pass'[t].stale = document[pass'[t].of].chunk,
         nextChunk' = nextChunk, removal' = removal, chunkVecs' = chunkVecs, orphans' = orphans
  PROVE  ChunkInv' /\ ShownInv'
<1>1. \A s \in Sources : Effective(s).chunk \in Nat /\ Renewed(s)
  BY KnowledgeRows DEF DocumentRow, Renewed
<1>2. \A s \in Sources : Effective(s)'.embedded => Effective(s)'.chunk # 0
  BY DEF ChunkInv
<1>3. ChunkInv'
  BY <1>1, <1>2, ChunksKept
<1> QED
  BY <1>3, ShownKept

LEMMA VectorStep ==
  KnowledgeTypeOK /\ WriterInv /\ VectorInv /\ [KnowledgeNext]_knowledgeVars => VectorInv'
<1> SUFFICES ASSUME KnowledgeTypeOK, WriterInv, VectorInv, [KnowledgeNext]_knowledgeVars,
                    mishaps' = 0
             PROVE  ChunkInv' /\ ShownInv'
  BY DEF VectorInv
<1>0. KnowledgeTypeOK' /\ WriterInv'
  BY KnowledgeTypesStep, WriterStep
<1>1. EffectiveFact
  BY EffectiveIs
<1>2. (WriterInv => EffectiveFact)'
  BY EffectiveIs, PTL
<1>3. EffectiveFact'
  BY <1>0, <1>2
<1>4. /\ pass \in [IndexTasks -> PassRow] /\ document \in [Sources -> DocumentRow]
      /\ nextChunk \in 1..(MaxChunks + 1) /\ MaxChunks \in Nat /\ mishaps \in Nat
      /\ \A t \in IndexWriting : t \in IndexTasks /\ pass[t].of \in Sources
      /\ \A t \in IndexTasks : pass[t].pc # "idle" => pass[t].of \in Sources
      /\ removal \in RemovalRow /\ NoDocument.chunk = 0 /\ NoDocument.embedded = FALSE
      /\ nextChunk \in Nat \ {0}
  <2>1. \A t \in IndexWriting : t \in IndexTasks /\ pass[t].pc # "idle"
    BY DEF IndexWriting, WriterInv
  <2> QED
    BY <2>1, KnowledgeRows DEF KnowledgeTypeOK, NoDocument, RemovalRow
<1>5. \A s \in Sources : Effective(s) \in DocumentRow
  <2> SUFFICES ASSUME NEW s \in Sources PROVE Effective(s) \in DocumentRow
    OBVIOUS
  <2>1. \A t \in IndexWriting : pass[t].doc \in DocumentRow
    BY <1>4 DEF PassRow
  <2> QED
    BY <1>1, <1>4, <2>1 DEF EffectiveFact
<1>6. \A s \in Sources : Effective(s).chunk \in Nat
  BY <1>4, <1>5 DEF DocumentRow
<1>7. IndexWriting = {} => \A s \in Sources : Effective(s) = document[s]
  BY <1>1 DEF EffectiveFact
<1>8. IndexWriting' = {} => \A s \in Sources : Effective(s)' = document'[s]
  BY <1>3 DEF EffectiveFact
<1>9. ASSUME mishaps' = mishaps PROVE mishaps = 0 /\ ChunkInv /\ ShownInv
  BY <1>9 DEF VectorInv
\* The documents and the writers stay.
<1>10. ASSUME document' = document, IndexWriting' = IndexWriting,
              \A u \in IndexWriting : pass'[u].of = pass[u].of /\ pass'[u].doc = pass[u].doc
       PROVE  \A s \in Sources : Effective(s)' = Effective(s)
  <2> SUFFICES ASSUME NEW s \in Sources PROVE Effective(s)' = Effective(s)
    OBVIOUS
  <2>1. CASE \E u \in IndexWriting : pass[u].of = s
    BY <1>1, <1>3, <1>10, <2>1 DEF EffectiveFact
  <2>2. CASE \A u \in IndexWriting : pass[u].of # s
    BY <1>1, <1>3, <1>10, <2>2 DEF EffectiveFact
  <2> QED
    BY <2>1, <2>2
<1>11. ASSUME document' = document, IndexWriting' = IndexWriting,
              \A u \in IndexWriting : pass'[u].of = pass[u].of /\ pass'[u].doc = pass[u].doc,
              \A t \in IndexTasks : pass'[t].pc = "rechunk" =>
                \/ pass[t].pc = "rechunk" /\ pass'[t].of = pass[t].of /\ pass'[t].stale = pass[t].stale
                \/ pass'[t].of \in Sources /\ pass'[t].stale = document[pass'[t].of].chunk,
              UNCHANGED <<mishaps, nextChunk, removal, chunkVecs, orphans>>
       PROVE  ChunkInv' /\ ShownInv'
  <2>1. \A s \in Sources : Effective(s)' = Effective(s)
    BY <1>10, <1>11
  <2> QED
    BY <1>0, <1>5, <1>9, <1>11, <2>1, VectorFrame
<1>12. ASSUME Apart PROVE ChunkInv' /\ ShownInv'
  <2>1. pass' = pass /\ IndexWriting' = IndexWriting
    BY <1>12, ApartEffects
  <2>2. ASSUME document' = document
        PROVE  /\ \A s \in Sources : Effective(s)' = Effective(s)
               /\ \A s \in Sources : Renewed(s)
    <3>1. \A s \in Sources : Effective(s)' = Effective(s)
      BY <1>10, <2>1, <2>2
    <3> QED
      BY <3>1 DEF Renewed
  <2>3. CASE \E s \in Sources : RemoveRead(s)
    <3>1. PICK o \in Sources : RemoveRead(o)
      BY <2>3
    <3>2. /\ removal = NoRemoval /\ document' = document /\ nextChunk' = nextChunk
          /\ chunkVecs' = chunkVecs /\ mishaps' = mishaps /\ orphans' = orphans
          /\ removal'.at = "commit" /\ removal'.of = o /\ removal'.chunks = {document[o].chunk}
          /\ removal.at # "chunks"
      BY <3>1 DEF RemoveRead, NoRemoval
    <3>3. ChunkInv'
      BY <1>0, <1>6, <1>9, <2>1, <2>2, <3>2, ChunksKept DEF ChunkInv
    <3> QED
      BY <1>9, <2>2, <3>2, <3>3, ShownKept
  <2>4. CASE RemoveVectors
    <3>1. /\ document' = document /\ nextChunk' = nextChunk /\ mishaps' = mishaps
      BY <2>4 DEF RemoveVectors
    <3>2. CASE removal.at = "chunks"
      <4>1. /\ removal'.at = "facts" /\ removal'.chunks = removal.chunks
            /\ chunkVecs' = Dropped(chunkVecs, removal.chunks)
            /\ orphans' = Dropped(orphans, removal.chunks)
        BY <1>4, <2>4, <3>2 DEF RemoveVectors, RemovalRow
      <4>2. orphans' \subseteq orphans
        BY <4>1 DEF Dropped
      <4>3. ChunkInv'
        BY <1>0, <1>6, <1>9, <2>1, <2>2, <3>1, <4>1, <4>2, ChunksKept DEF ChunkInv
      <4> QED
        BY <1>9, <2>2, <3>1, <3>2, <4>1, <4>3, ShownOfVectors
    <3>3. CASE removal.at = "facts"
      <4>1. /\ removal'.at = "none" /\ removal'.chunks = {} /\ chunkVecs' = chunkVecs
            /\ orphans' = orphans
        BY <2>4, <3>3 DEF RemoveVectors, NoRemoval
      <4>2. ChunkInv'
        BY <1>0, <1>6, <1>9, <2>1, <2>2, <3>1, <4>1, ChunksKept DEF ChunkInv
      <4> QED
        BY <1>9, <2>2, <3>1, <3>3, <4>1, <4>2, ShownKept
    <3> QED
      BY <2>4, <3>2, <3>3 DEF RemoveVectors
  <2>5. CASE RemovalDies
    BY <1>4, <2>5 DEF RemovalDies
  <2>6. CASE ChunksEmbedded
    <3> DEFINE due == {s \in Sources : document[s].chunk \in backlog.chunks}
    <3>1. /\ IndexWriting = {} /\ mishaps' = mishaps /\ nextChunk' = nextChunk /\ removal' = removal
          /\ orphans' = orphans
      BY <2>6, Zenon DEF ChunksEmbedded
    <3>2. CASE Cardinality(due) = Cardinality(backlog.chunks)
      <4>1. /\ document' = [s \in Sources |-> [document[s] EXCEPT !.embedded = @ \/ s \in due]]
            /\ chunkVecs' = Stored(chunkVecs, backlog.chunks)
        BY <2>6, <3>2, Zenon DEF ChunksEmbedded
      <4> HIDE DEF due
      <4>2. \A s \in Sources : /\ document'[s].chunk = document[s].chunk
                               /\ document'[s].embedded <=> (document[s].embedded \/ s \in due)
        BY <1>4, <4>1 DEF DocumentRow
      <4>3. \A s \in Sources : /\ Effective(s)'.chunk = Effective(s).chunk
                               /\ Effective(s)'.embedded <=> (Effective(s).embedded \/ s \in due)
        BY <1>7, <1>8, <2>1, <3>1, <4>2
      <4>4. due = {s \in Sources : document[s].chunk \in backlog.chunks}
        BY DEF due
      <4>5. \A k \in backlog.chunks : \E s \in due : document[s].chunk = k
        BY <1>7, <1>9, <3>1, <3>2, <4>4, BacklogIsShown
      <4>6. \A s \in Sources : Effective(s)'.embedded => Effective(s)'.chunk # 0
        <5>1. \A k \in backlog.chunks : k # 0
          BY DEF KnowledgeTypeOK
        <5>2. \A s \in due : Effective(s).chunk # 0
          BY <1>7, <3>1, <4>4, <5>1
        <5> QED
          BY <1>9, <3>1, <4>3, <5>2 DEF ChunkInv
      <4>7. ChunkInv'
        <5>1. \A s \in Sources : Effective(s).chunk \in Nat /\ Renewed(s)
          BY <1>6, <4>3 DEF Renewed
        <5> QED
          BY <1>0, <1>9, <2>1, <3>1, <4>2, <4>6, <5>1, ChunksKept
      <4> QED
        BY <1>7, <1>9, <3>1, <4>1, <4>3, <4>4, <4>5, <4>7, ShownOfBacklog
    <3>3. CASE Cardinality(due) # Cardinality(backlog.chunks)
      <4>1. document' = document /\ chunkVecs' = chunkVecs
        BY <2>6, <3>3, Zenon DEF ChunksEmbedded
      <4> QED
        BY <1>11, <2>1, <3>1, <4>1
    <3> QED
      BY <3>2, <3>3
  <2>7. CASE document' = document /\ UNCHANGED <<mishaps, nextChunk, removal, chunkVecs, orphans>>
    BY <1>11, <2>1, <2>7
  <2> QED
    BY <1>12, <2>3, <2>4, <2>5, <2>6, <2>7
    DEF Apart, AddSource, UpdateSource, SourceChanges, MemoExpires, EditFact, SetActive,
        BacklogSelect, FactsEmbedded, knowledgeVars
<1>13. CASE RemoveCommit
  <2>1. PICK o \in Sources : o = removal.of
    BY <1>13, CommitIs DEF KnowledgeTypeOK
  <2>2. /\ removal.at = "commit" /\ document' = [document EXCEPT ![o] = NoDocument]
        /\ removal' = [removal EXCEPT !.at = "chunks"]
    BY <1>13, <2>1, CommitIs
  <2>3. removal'.at = "chunks" /\ removal'.chunks = removal.chunks
    BY <1>4, <2>2 DEF RemovalRow
  <2>4. UNCHANGED <<mishaps, nextChunk, chunkVecs>>
    BY <1>13, Zenon DEF RemoveCommit
  <2>5. IndexWriting = {} /\ IndexWriting' = {}
    BY <1>13, CommitEffects
  <2>6. /\ Effective(o) = document[o] /\ Effective(o)' = NoDocument
        /\ \A s \in Sources \ {o} : Effective(s)' = Effective(s)
    BY <1>4, <1>7, <1>8, <2>2, <2>5
  <2>7. orphans' = orphans \cup
          (IF document[o].embedded THEN {document[o].chunk} \ removal.chunks ELSE {})
    BY <1>13, <2>1, CommitOrphans
  <2>8. ChunkInv'
    <3>1. \A s \in Sources : Effective(s).chunk \in Nat /\ Renewed(s)
      BY <1>4, <1>6, <2>6 DEF Renewed
    <3>2. \A s \in Sources : Effective(s)'.embedded => Effective(s)'.chunk # 0
      BY <1>4, <1>9, <2>4, <2>6 DEF ChunkInv
    <3>3. \A s \in Sources : document'[s].chunk \in {document[s].chunk, Effective(s).chunk, 0}
      BY <1>4, <2>2
    <3>4. \A t \in IndexTasks : /\ pass'[t].pc = pass[t].pc /\ pass'[t].of = pass[t].of
                                /\ pass'[t].stale = pass[t].stale
      BY <1>13, CommitEffects
    <3>5. \A k \in orphans' : k \in orphans \/ (k # 0 /\ \E s \in Sources : k = Effective(s).chunk)
      BY <1>9, <2>4, <2>6, <2>7 DEF ChunkInv
    <3>6. \E s \in Sources : s = removal.of /\ Effective(s)'.chunk = 0
      BY <1>4, <2>1, <2>6
    <3>7. \A t \in IndexTasks : pass'[t].pc = "rechunk" =>
            \/ pass[t].pc = "rechunk" /\ pass'[t].of = pass[t].of /\ pass'[t].stale = pass[t].stale
            \/ pass'[t].of \in Sources /\ pass'[t].stale = document[pass'[t].of].chunk
      BY <3>4
    <3> QED
      BY <1>0, <1>9, <2>2, <2>3, <2>4, <3>1, <3>2, <3>3, <3>5, <3>6, <3>7, ChunksKept
  <2> QED
    BY <1>4, <1>9, <2>2, <2>3, <2>4, <2>6, <2>7, <2>8, ShownOfCommit
<1>14. ASSUME NEW t \in IndexTasks, \A u \in IndexTasks \ {t} : pass'[u] = pass[u],
              \/ pass'[t].pc # "rechunk"
              \/ pass'[t].of \in Sources /\ pass'[t].stale = document[pass'[t].of].chunk
       PROVE  \A u \in IndexTasks : pass'[u].pc = "rechunk" =>
                \/ pass[u].pc = "rechunk" /\ pass'[u].of = pass[u].of /\ pass'[u].stale = pass[u].stale
                \/ pass'[u].of \in Sources /\ pass'[u].stale = document[pass'[u].of].chunk
  BY <1>14
<1>15. ASSUME NEW t \in IndexTasks, NEW s \in Sources, NEW force \in BOOLEAN, BeginIndex(t, s, force)
       PROVE  ChunkInv' /\ ShownInv'
  <2>1. IndexWriting = {} /\ IndexWriting' = {} /\ pass'[t].pc = "probe"
    BY <1>0, <1>15, PassEffects
  <2>2. document' = document /\ UNCHANGED <<mishaps, nextChunk, removal, chunkVecs, orphans>>
    BY <1>15 DEF BeginIndex
  <2> QED
    BY <1>0, <1>11, <1>14, <1>15, <2>1, <2>2, OthersStay
<1>16. ASSUME NEW t \in IndexTasks, Probe(t) \/ Analyze(t) PROVE ChunkInv' /\ ShownInv'
  <2>1. Undisturbed /\ pass'[t].pc # "rechunk"
    BY <1>0, <1>16, PassEffects
  <2>2. document' = document /\ UNCHANGED <<mishaps, nextChunk, removal, chunkVecs, orphans>>
    BY <1>16, Zenon DEF Probe, Analyze
  <2> QED
    BY <1>0, <1>11, <1>14, <1>16, <2>1, <2>2, OthersStay DEF Undisturbed
<1>17. ASSUME NEW t \in IndexTasks, Documents(t) PROVE ChunkInv' /\ ShownInv'
  <2>0. PICK o \in Sources : o = pass[t].of
    BY <1>4, <1>17 DEF Documents
  <2>1. /\ ~pass[t].locked /\ pass'[t].of = o /\ pass'[t].stale = document[o].chunk
        /\ pass'[t].doc.chunk = document[o].chunk /\ pass'[t].doc.embedded = document[o].embedded
    BY <1>0, <1>17, <2>0, PassEffects
  <2>2. document' = document /\ UNCHANGED <<mishaps, nextChunk, removal, chunkVecs, orphans>>
    BY <1>17, Zenon DEF Documents
  <2>3. \A u \in IndexTasks : pass'[u].pc = "rechunk" =>
          \/ pass[u].pc = "rechunk" /\ pass'[u].of = pass[u].of /\ pass'[u].stale = pass[u].stale
          \/ pass'[u].of \in Sources /\ pass'[u].stale = document[pass'[u].of].chunk
    BY <1>0, <1>14, <1>17, <2>1, OthersStay
  <2>4. CASE Undisturbed
    BY <1>11, <2>2, <2>3, <2>4 DEF Undisturbed
  <2>5. CASE IndexWriting = {} /\ IndexWriting' = {t}
    <3>1. Effective(o)' = pass'[t].doc
      BY <1>3, <2>1, <2>5 DEF EffectiveFact
    <3>2. \A s \in Sources \ {o} : Effective(s)' = Effective(s)
      BY <1>3, <1>7, <2>1, <2>2, <2>5 DEF EffectiveFact
    <3>3. \A s \in Sources : /\ Effective(s)'.chunk = Effective(s).chunk
                             /\ Effective(s)'.embedded = Effective(s).embedded
      BY <1>7, <2>1, <2>5, <3>1, <3>2
    <3> QED
      BY <1>0, <1>5, <1>9, <2>2, <2>3, <3>3, VectorFrame
  <2> QED
    BY <1>0, <1>17, <2>4, <2>5, PassEffects
<1>18. ASSUME NEW t \in IndexTasks, IndexWriting \subseteq {t}, pass[t].of \in Sources
       PROVE  Effective(pass[t].of) = RowSeen(t)
  BY <1>1, <1>18, LockIs DEF EffectiveFact, RowSeen
<1>19. ASSUME NEW t \in IndexTasks, Rechunk(t) PROVE ChunkInv' /\ ShownInv'
  <2>0. PICK o \in Sources : o = pass[t].of
    BY <1>4, <1>19 DEF Rechunk
  <2>1. /\ IndexWriting \subseteq {t} /\ IndexWriting' = {t} /\ pass'[t].of = o
        /\ pass'[t].pc = "facts" /\ \A u \in IndexTasks \ {t} : pass'[u] = pass[u]
    BY <1>0, <1>19, <2>0, PassEffects, OthersStay
  <2>2. /\ document' = document /\ UNCHANGED <<mishaps, removal>> /\ nextChunk' = nextChunk + 1
        /\ nextChunk <= MaxChunks /\ pass[t].pc = "rechunk"
        /\ orphans' = Dropped(orphans \cup IF RowSeen(t).embedded THEN {RowSeen(t).chunk} ELSE {},
                              {pass[t].stale})
    BY <1>19, Zenon DEF Rechunk
  <2>3. PICK embedded \in BOOLEAN :
          /\ pass' = [pass EXCEPT ![t].pc = "facts", ![t].locked = TRUE,
                ![t].doc = [RowSeen(t) EXCEPT !.chunk = nextChunk, !.embedded = embedded]]
          /\ chunkVecs' = Swapped(t, IF embedded THEN {nextChunk} ELSE {})
    BY <1>19, Zenon DEF Rechunk
  <2>4. Effective(o) = RowSeen(t) /\ RowSeen(t) \in DocumentRow
    BY <1>5, <1>18, <2>0, <2>1
  <2> DEFINE d == [RowSeen(t) EXCEPT !.chunk = nextChunk, !.embedded = embedded]
  <2>5. d.chunk = nextChunk /\ d.embedded = embedded
    BY <2>4 DEF DocumentRow
  <2>6. pass'[t].doc = d
    <3> HIDE DEF d
    <3>1. pass' = [pass EXCEPT ![t].pc = "facts", ![t].locked = TRUE, ![t].doc = d]
      BY <2>3, Zenon DEF d
    <3> QED
      BY <1>4, <3>1 DEF PassRow
  <2> HIDE DEF d
  <2>7. Effective(o)'.chunk = nextChunk /\ Effective(o)'.embedded = embedded
    BY <1>3, <2>1, <2>5, <2>6 DEF EffectiveFact
  <2>8. \A s \in Sources \ {o} : Effective(s)' = Effective(s)
    <3> SUFFICES ASSUME NEW s \in Sources \ {o} PROVE Effective(s)' = Effective(s)
      OBVIOUS
    <3>1. Effective(s)' = document[s]
      BY <1>3, <2>1, <2>2 DEF EffectiveFact
    <3>2. Effective(s) = document[s]
      BY <1>1, <2>0, <2>1 DEF EffectiveFact
    <3> QED
      BY <3>1, <3>2
  <2>9. mishaps = 0 /\ ChunkInv /\ ShownInv
    BY <1>9, <2>2
  <2>10. \A s \in Sources : Effective(s).chunk < nextChunk
    BY <2>9 DEF ChunkInv, Own
  <2>11. ChunkInv'
    <3>1. \A s \in Sources : Effective(s).chunk \in Nat /\ Renewed(s)
      BY <1>4, <1>6, <2>2, <2>7, <2>8, <2>10 DEF Renewed
    <3>2. \A s \in Sources : Effective(s)'.embedded => Effective(s)'.chunk # 0
      BY <1>4, <2>7, <2>8, <2>9 DEF ChunkInv
    <3>3. \A k \in orphans' : k \in orphans \/ (k # 0 /\ \E s \in Sources : k = Effective(s).chunk)
      BY <2>2, <2>4, <2>9 DEF Dropped, ChunkInv
    <3>4. \A u \in IndexTasks : pass'[u].pc = "rechunk" =>
            \/ pass[u].pc = "rechunk" /\ pass'[u].of = pass[u].of /\ pass'[u].stale = pass[u].stale
            \/ pass'[u].of \in Sources /\ pass'[u].stale = document[pass'[u].of].chunk
      BY <1>14, <2>1
    <3> QED
      BY <1>0, <2>2, <2>9, <3>1, <3>2, <3>3, <3>4, ChunksKept
  <2> QED
    BY <1>6, <2>0, <2>2, <2>3, <2>4, <2>7, <2>8, <2>9, <2>11, ShownOfRechunk
<1>20. ASSUME NEW t \in IndexTasks, MergeFacts(t) PROVE ChunkInv' /\ ShownInv'
  <2>0. PICK o \in Sources : o = pass[t].of
    BY <1>4, <1>20 DEF MergeFacts
  <2>1. document' = document /\ UNCHANGED <<mishaps, nextChunk, removal, chunkVecs, orphans>>
    BY <1>20, Zenon DEF MergeFacts
  <2>2. \A u \in IndexTasks : pass'[u].pc = "rechunk" =>
          \/ pass[u].pc = "rechunk" /\ pass'[u].of = pass[u].of /\ pass'[u].stale = pass[u].stale
          \/ pass'[u].of \in Sources /\ pass'[u].stale = document[pass'[u].of].chunk
    BY <1>0, <1>14, <1>20, PassEffects, OthersStay
  <2>3. CASE Undisturbed
    BY <1>11, <2>1, <2>2, <2>3 DEF Undisturbed
  <2>4. CASE IndexWriting \subseteq {t} /\ IndexWriting' = {t} /\ pass'[t].doc = RowSeen(t)
    <3>1. pass'[t].of = o /\ Effective(o) = RowSeen(t)
      BY <1>0, <1>18, <1>20, <2>0, <2>4, PassEffects
    <3>2. Effective(o)' = Effective(o)
      BY <1>3, <2>4, <3>1 DEF EffectiveFact
    <3>3. \A s \in Sources \ {o} : Effective(s)' = document[s] /\ Effective(s) = document[s]
      BY <1>1, <1>3, <2>0, <2>1, <2>4, <3>1 DEF EffectiveFact
    <3>4. \A s \in Sources : Effective(s)' = Effective(s)
      BY <3>2, <3>3
    <3> QED
      BY <1>0, <1>5, <1>9, <2>1, <2>2, <3>4, VectorFrame
  <2> QED
    BY <1>0, <1>20, <2>3, <2>4, PassEffects
<1>21. ASSUME NEW t \in IndexTasks, Finalize(t) PROVE ChunkInv' /\ ShownInv'
  <2>0. PICK o \in Sources : o = pass[t].of
    BY <1>4, <1>21 DEF Finalize
  <2>1. IndexWriting \subseteq {t} /\ IndexWriting' = {} /\ pass'[t].pc = "idle"
    BY <1>0, <1>21, PassEffects
  <2>2. /\ document' = [document EXCEPT ![o] = RowSeen(t)]
        /\ UNCHANGED <<mishaps, nextChunk, removal, chunkVecs, orphans>>
    BY <1>21, <2>0, Zenon DEF Finalize
  <2>3. Effective(o) = RowSeen(t)
    BY <1>18, <2>0, <2>1
  <2>4. \A s \in Sources \ {o} : Effective(s) = document[s]
    BY <1>1, <2>0, <2>1 DEF EffectiveFact
  <2>5. \A s \in Sources : Effective(s)' = Effective(s) /\ document'[s] = Effective(s)
    BY <1>4, <1>8, <2>1, <2>2, <2>3, <2>4
  <2>6. \A u \in IndexTasks : pass'[u].pc = "rechunk" =>
          \/ pass[u].pc = "rechunk" /\ pass'[u].of = pass[u].of /\ pass'[u].stale = pass[u].stale
          \/ pass'[u].of \in Sources /\ pass'[u].stale = document[pass'[u].of].chunk
    BY <1>0, <1>14, <1>21, <2>1, OthersStay
  <2> QED
    BY <1>0, <1>5, <1>9, <2>2, <2>5, <2>6, VectorFrame
<1>22. ASSUME NEW t \in IndexTasks, FailIndex(t) PROVE ChunkInv' /\ ShownInv'
  <2>1. IndexWriting \subseteq {t} /\ IndexWriting' = {} /\ pass'[t].pc = "idle"
    BY <1>0, <1>22, PassEffects
  <2>2. pass[t].gone /\ mishaps' = mishaps
    BY <1>4, <1>22 DEF FailIndex
  <2>3. IndexWriting = {}
    BY <2>1, <2>2 DEF WriterInv
  <2>4. document' = document /\ UNCHANGED <<nextChunk, removal, chunkVecs, orphans>>
    BY <1>22, Zenon DEF FailIndex
  <2> QED
    BY <1>0, <1>11, <1>14, <1>22, <2>1, <2>2, <2>3, <2>4, OthersStay
<1>23. ASSUME NEW t \in IndexTasks, IndexDies(t) PROVE ChunkInv' /\ ShownInv'
  BY <1>0, <1>23, PassEffects
<1>24. ASSUME NEW t \in IndexTasks, IndexStep(t) \/ FailIndex(t) \/ IndexDies(t)
       PROVE  ChunkInv' /\ ShownInv'
  BY <1>16, <1>17, <1>19, <1>20, <1>21, <1>22, <1>23, <1>24 DEF IndexStep
<1> QED
  BY <1>12, <1>13, <1>15, <1>24 DEF KnowledgeNext, RefreshStale, Apart

LEMMA VectorInit == KnowledgeInit => VectorInv
<1> SUFFICES ASSUME KnowledgeInit PROVE ChunkInv /\ ShownInv
  BY DEF VectorInv
<1>1. /\ IndexWriting = {} /\ removal.chunks = {} /\ nextChunk = 1 /\ chunkVecs = {}
      /\ orphans = {} /\ \A t \in IndexTasks : pass[t].pc = "idle"
      /\ \A s \in Sources : document[s] = NoDocument
  BY DEF KnowledgeInit, IndexWriting, NoPass, NoRemoval
<1>2. \A s \in Sources : Effective(s) = NoDocument
  BY <1>1 DEF Effective
<1>3. NoDocument.chunk = 0 /\ NoDocument.embedded = FALSE
  BY DEF NoDocument
<1> QED
  BY <1>1, <1>2, <1>3 DEF ChunkInv, ShownInv, Embedded, Own

LEMMA VectorInvHolds == KnowledgeTypeOK /\ WriterInv /\ VectorInv => VectorsFollowRows
<1> SUFFICES ASSUME KnowledgeTypeOK, WriterInv, VectorInv, mishaps = 0, IndexWriting = {},
                    removal.at # "chunks"
             PROVE  chunkVecs \ {0}
                      = {document[s].chunk : s \in {s \in Sources : document[s].embedded}} \cup orphans
  BY DEF VectorsFollowRows
<1>1. ChunkInv /\ ShownInv /\ \A s \in Sources : Effective(s) = document[s]
  BY EffectiveIs DEF VectorInv, EffectiveFact
<1>2. \A k \in 1..MaxChunks :
        k \in chunkVecs <=>
          k \in orphans \/ \E s \in Sources : document[s].embedded /\ document[s].chunk = k
  BY <1>1 DEF ShownInv, PendingRemoval, Embedded
<1>3. chunkVecs \ {0} \subseteq 1..MaxChunks
  BY KnowledgeRows DEF KnowledgeTypeOK
<1>4. \A s \in Sources : document[s].embedded => document[s].chunk \in 1..MaxChunks
  <2>1. \A s \in Sources : document[s].chunk \in 0..MaxChunks
    BY DEF KnowledgeTypeOK, DocumentRow
  <2> QED
    BY <1>1, <2>1, KnowledgeRows DEF ChunkInv
<1>5. orphans \subseteq 1..MaxChunks
  <2>1. orphans \subseteq 0..MaxChunks /\ \A k \in orphans : k # 0
    BY <1>1 DEF KnowledgeTypeOK, ChunkInv
  <2> QED
    BY <2>1, KnowledgeRows
<1> DEFINE vectors == {document[s].chunk : s \in {s \in Sources : document[s].embedded}}
<1>6. \A k : k \in vectors <=> \E s \in Sources : document[s].embedded /\ document[s].chunk = k
  OBVIOUS
<1>7. vectors \subseteq 1..MaxChunks /\ \A k \in 1..MaxChunks : k # 0
  BY <1>4, <1>6, KnowledgeRows
<1> HIDE DEF vectors
<1>8. \A k : k \in chunkVecs \ {0} <=> k \in vectors \cup orphans
  BY <1>2, <1>3, <1>5, <1>6, <1>7
<1> QED
  BY <1>8 DEF vectors

\* Although the vectors are written before the commit and deleted after it, once nothing is
\* under way the collection holds the vector of every embedded chunk, and of a chunk that is
\* no more only where the ids a pass or a removal had read were out of date by its commit,
\* unless one has broken off, for any number of sources, passes and removals.
THEOREM VectorsAgree == KnowledgeSpec => []VectorsFollowRows
BY KnowledgeTypesInit, KnowledgeTypesStep, WordInit, WriterStep, VectorInit, VectorStep,
   VectorInvHolds, PTL DEF KnowledgeSpec
=============================================================================
