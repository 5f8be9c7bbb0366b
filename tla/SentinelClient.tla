--------------------------- MODULE SentinelClient ---------------------------
(***************************************************************************)
(* The client of utils/redis, with one sentinel and one redis.  A call     *)
(* sends its commands one by one; each is accepted, refused, or given up   *)
(* when no answer comes in time, and then it may have been carried out, be *)
(* carried out later, or never.  go-redis is not told to retry.  What the  *)
(* sentinel does by itself is left out, and so are the operations that     *)
(* only count what it has found.                                           *)
(***************************************************************************)
EXTENDS Naturals, Sequences

CONSTANTS
  Callers,      \* goroutines that use the client
  MasterNames,  \* names of monitored masters
  Hosts,        \* addresses of redises
  NoHost,       \* the master of a redis that is a master
  Params, Values, Default,   \* configuration parameters and what they may hold
  AuthPass,     \* the parameter of the password, which belongs to the cluster
  Password, NoPassword,
  Malformed,    \* a configuration of fewer than two words
  Nothing,      \* no entry
  TheRedis,     \* the redis, as what a call is about
  MaxConfigs,           \* bound on the configurations of a call
  MaxCalls, MaxFaults   \* bounds on calls and on commands given up

ASSUME ClientAssumption ==
  /\ {MaxConfigs, MaxCalls, MaxFaults} \subseteq Nat
  /\ AuthPass \notin Params
  /\ TheRedis \notin MasterNames

Config == [param : Params, value : Values]
Unset == [p \in Params \cup {AuthPass} |-> Default]

\* What a sentinel keeps of a master, and a redis of itself.
Entry == [host : Hosts, params : [Params \cup {AuthPass} -> Values \cup {Default, Password}]]
Redis == [master : Hosts \cup {NoHost}, params : [Params -> Values \cup {Default}]]

ASSUME NoEntry == Nothing \notin Entry

VARIABLES
  sentinel,   \* sentinel[m]: the entry of master m, or Nothing
  redis,      \* the master and the parameters of the redis
  late,       \* commands given up that may still be carried out
  calls,      \* calls[c]: the call in progress of caller c
  asked,      \* history: asked[t] are the masters t may have, {} if it is not known
  budget      \* what is left of the bounds

vars == <<sentinel, redis, late, calls, asked, budget>>

----------------------------------------------------------------------------
\* The commands of each operation, in order.

Remove(m) == [cmd |-> "remove", name |-> m]
Monitor(m, h) == [cmd |-> "monitor", name |-> m, host |-> h]
Set(m, p, v) == [cmd |-> "set", name |-> m, param |-> p, value |-> v]
ConfigSet(p, v) == [cmd |-> "config", param |-> p, value |-> v]
SlaveOf(h) == [cmd |-> "slaveof", host |-> h]
Reset == [cmd |-> "reset"]
BadConfig == [cmd |-> "malformed"]

MonitorRedis(m, h) ==
  <<Remove(m), Monitor(m, h)>>
    \o IF Password = NoPassword THEN <<>> ELSE <<Set(m, AuthPass, Password)>>

\* getConfigParameters of each line, and the command for what it says.
SetCustomConfig(configs, command) ==
  [i \in DOMAIN configs |-> IF configs[i] = Malformed THEN BadConfig ELSE command[configs[i]]]

SetCustomSentinelConfig(m, configs) ==
  SetCustomConfig(configs, [x \in Config |-> Set(m, x.param, x.value)])

SetCustomRedisConfig(configs) ==
  SetCustomConfig(configs, [x \in Config |-> ConfigSet(x.param, x.value)])

MakeSlaveOf(h) == <<SlaveOf(h)>>

\* Mutated form of MakeMaster: the address of the master is left empty.
MakeMasterOfNothing == <<SlaveOf(Nothing)>>

MakeMaster == <<SlaveOf(NoHost)>>
ResetSentinel == <<Reset>>

----------------------------------------------------------------------------
\* The sentinel and the redis.

Accepts(x) ==
  CASE x.cmd \in {"remove", "set"} -> sentinel[x.name] # Nothing
    [] x.cmd = "monitor" -> sentinel[x.name] = Nothing
    [] x.cmd = "malformed" -> FALSE
    [] OTHER -> TRUE

\* RESET keeps the entries; what it forgets is not modelled.
CarryOut(x) ==
  /\ sentinel' =
       CASE x.cmd = "remove" -> [sentinel EXCEPT ![x.name] = Nothing]
         [] x.cmd = "monitor" -> [sentinel EXCEPT ![x.name] = [host |-> x.host, params |-> Unset]]
         [] x.cmd = "set" -> [sentinel EXCEPT ![x.name].params[x.param] = x.value]
         [] OTHER -> sentinel
  /\ redis' =
       CASE x.cmd = "config" -> [redis EXCEPT !.params[x.param] = x.value]
         [] x.cmd = "slaveof" -> [redis EXCEPT !.master = x.host]
         [] OTHER -> redis

----------------------------------------------------------------------------
\* The calls.

\* What callers may ask for: operation, what it is about, and arguments.
Order(op, target, host, configs, todo) ==
  [op |-> op, target |-> target, host |-> host, configs |-> configs, todo |-> todo]

\* A list of none sends nothing.
ConfigLists == UNION {[1 .. n -> Config \cup {Malformed}] : n \in 1 .. MaxConfigs}

Orders ==
  {Order("monitor", m, h, <<>>, MonitorRedis(m, h)) : m \in MasterNames, h \in Hosts}
  \cup {Order("config", m, NoHost, cs, SetCustomSentinelConfig(m, cs))
          : m \in MasterNames, cs \in ConfigLists}
  \cup {Order("config", TheRedis, NoHost, cs, SetCustomRedisConfig(cs)) : cs \in ConfigLists}
  \cup {Order("role", TheRedis, h, <<>>, MakeSlaveOf(h)) : h \in Hosts}
  \cup {Order("role", TheRedis, NoHost, <<>>, MakeMaster),
        Order("reset", Nothing, NoHost, <<>>, ResetSentinel)}

Idle(failed) == [op |-> "idle", failed |-> failed]

\* What the redis and the sentinel answer to a question.
GetSlaveOf == redis.master
GetSentinelMonitor(m) == IF sentinel[m] = Nothing THEN Nothing ELSE sentinel[m].host

ParamsOf(t) == IF t = TheRedis THEN redis.params
               ELSE IF sentinel[t] = Nothing THEN Unset ELSE sentinel[t].params

Targets == MasterNames \cup {TheRedis}

TypeOK ==
  /\ sentinel \in [MasterNames -> Entry \cup {Nothing}]
  /\ redis \in Redis
  /\ \A c \in Callers :
       calls[c].op # "idle" =>
         /\ calls[c].alone \in BOOLEAN /\ calls[c].target \in Targets \cup {Nothing}
         /\ calls[c].todo # <<>>
         /\ Len(calls[c].todo) <= IF calls[c].op = "config" THEN Len(calls[c].configs) ELSE 3
  /\ asked \in [Targets -> SUBSET (Hosts \cup {NoHost})]
  /\ \A x \in late : x.cmd \notin {"malformed", "reset"}

Init ==
  /\ sentinel = [m \in MasterNames |-> Nothing]
  /\ redis = [master |-> NoHost, params |-> [p \in Params |-> Default]]
  /\ late = {}
  /\ calls = [c \in Callers |-> Idle(FALSE)]
  /\ asked = [t \in Targets |-> {}]
  /\ budget = [calls |-> MaxCalls, faults |-> MaxFaults]

\* Everything has been answered, and nothing is still to come.
AtRest == late = {} /\ \A c \in Callers : calls[c].op = "idle"

\* A call is alone until another one starts beside it.
Call(c, order) ==
  /\ calls[c].op = "idle"
  /\ budget.calls > 0
  /\ budget' = [budget EXCEPT !.calls = @ - 1]
  /\ calls' =
       [d \in Callers |->
          IF d = c THEN [op |-> order.op, target |-> order.target, host |-> order.host,
                         configs |-> order.configs, todo |-> order.todo, alone |-> AtRest,
                         before |-> IF order.op = "config" THEN ParamsOf(order.target) ELSE <<>>]
          ELSE IF calls[d].op = "idle" THEN calls[d] ELSE [calls[d] EXCEPT !.alone = FALSE]]
  /\ UNCHANGED <<sentinel, redis, late, asked>>

\* What is known of the master of t when call has ended.
AskedAfter(call, failed) ==
  IF call.op \notin {"monitor", "role"} THEN asked
  ELSE [asked EXCEPT ![call.target] =
          IF failed THEN {}
          ELSE IF call.alone THEN {call.host}
          ELSE IF @ = {} THEN {} ELSE @ \cup {call.host}]

End(c, failed) ==
  /\ calls' = [calls EXCEPT ![c] = Idle(failed)]
  /\ asked' = AskedAfter(calls[c], failed)

GoOn(c) ==
  IF Len(calls[c].todo) = 1 THEN End(c, FALSE)
  ELSE /\ calls' = [calls EXCEPT ![c].todo = Tail(@)]
       /\ UNCHANGED asked

\* Mutated forms of Ignored: every error is, or that of the password.
IgnoredAlways(x) == TRUE
IgnoredPassword(x) == x.cmd \in {"remove", "set"}

\* "We'll continue even if it fails": so does MonitorRedis after REMOVE.
Ignored(x) == x.cmd = "remove"

HasFailed(c) == IF Ignored(Head(calls[c].todo)) THEN GoOn(c) ELSE End(c, TRUE)

Accepted(c) ==
  /\ calls[c].op # "idle"
  /\ Accepts(Head(calls[c].todo))
  /\ CarryOut(Head(calls[c].todo))
  /\ GoOn(c)
  /\ UNCHANGED <<late, budget>>

Refused(c) ==
  /\ calls[c].op # "idle"
  /\ ~Accepts(Head(calls[c].todo))
  /\ HasFailed(c)
  /\ UNCHANGED <<sentinel, redis, late, budget>>

GivenUp(c) ==
  /\ calls[c].op # "idle"
  /\ budget.faults > 0
  /\ budget' = [budget EXCEPT !.faults = @ - 1]
  /\ LET x == Head(calls[c].todo)
     IN  /\ x.cmd # "malformed"
         /\ \/ Accepts(x) /\ CarryOut(x) /\ UNCHANGED late
            \/ /\ late' \in {late, late \cup ({x} \ {Reset})}
               /\ UNCHANGED <<sentinel, redis>>
  /\ HasFailed(c)

\* A command that was given up reaches its server after all.
Arrive(x) ==
  /\ late' = late \ {x}
  /\ IF Accepts(x) THEN CarryOut(x) ELSE UNCHANGED <<sentinel, redis>>
  /\ asked' = CASE x.cmd = "remove" -> [asked EXCEPT ![x.name] = {}]
                [] x.cmd = "slaveof" -> [asked EXCEPT ![TheRedis] = {}]
                [] OTHER -> asked
  /\ UNCHANGED <<calls, budget>>

Next ==
  \/ \E c \in Callers : Accepted(c) \/ Refused(c) \/ GivenUp(c)
  \/ \E c \in Callers, order \in Orders : Call(c, order)
  \/ \E x \in late : Arrive(x)

Spec == Init /\ [][Next]_vars

----------------------------------------------------------------------------
\* Properties.

(***************************************************************************)
(* When a call of MonitorRedis that was alone has ended without an error,  *)
(* the sentinel monitors what it has asked for, with the password;         *)
(* likewise the redis has the role that was asked for.  Of calls that      *)
(* overlap the last to end does not decide: the sentinel then monitors the *)
(* host of one of them or of a call before them, and nothing is said until *)
(* a call alone has ended well when one of them failed.  MonitorRedis      *)
(* leaves nothing monitored when it fails after REMOVE, and a REMOVE that  *)
(* comes late takes the entry away: the one the caller is told, the other  *)
(* makes it unknown.                                                       *)
(***************************************************************************)
AsAsked ==
  AtRest =>
    /\ \A m \in MasterNames :
         asked[m] # {} =>
           /\ GetSentinelMonitor(m) \in asked[m]
           /\ Password # NoPassword => sentinel[m].params[AuthPass] = Password
    /\ asked[TheRedis] # {} => GetSlaveOf \in asked[TheRedis]

\* The parameters after the first k configurations.
Configured(before, configs, k) ==
  [p \in DOMAIN before |->
     LET sets == {i \in 1 .. k : configs[i].param = p}
     IN  IF sets = {} THEN before[p]
         ELSE configs[CHOOSE i \in sets : \A j \in sets : j <= i].value]

(***************************************************************************)
(* A list of configurations that is applied with no call beside it ends    *)
(* with all of them in force, or with an error and a first part of them:   *)
(* a malformed one, one that is refused and one whose answer is lost stop  *)
(* it, and none is skipped.                                                *)
(***************************************************************************)
ConfigsInOrder ==
  [][\A c \in Callers, t \in Targets :
       LET call == calls[c]
       IN  call.op = "config" /\ call.target = t /\ call.alone /\ calls'[c].op = "idle" =>
             \E k \in 0 .. Len(call.configs) :
               /\ \A i \in 1 .. k : call.configs[i] # Malformed
               /\ ParamsOf(t)' = Configured(call.before, call.configs, k)
               /\ ~calls'[c].failed => k = Len(call.configs)]_vars
============================================================================
