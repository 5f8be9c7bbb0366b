--------------------------- MODULE SentinelProofs ---------------------------
(***************************************************************************)
(* Proofs about the sentinel client, for any number of callers, masters,   *)
(* hosts and parameters and any number of commands that are given up: what *)
(* is monitored at rest was asked for, and a list of configurations is     *)
(* applied in order.                                                       *)
(*                                                                         *)
(* asked names what a master may be once nothing is in progress.  Until    *)
(* then an entry that is missing, that has another host or that lacks the  *)
(* password is the work of a call that has yet to end (Answered), and will *)
(* put it right or be told of its failure.  What a call does that is alone *)
(* is known at each step (AloneInv).                                       *)
(***************************************************************************)
EXTENDS SentinelClient, SequenceTheorems, TLAPS

\* What a call about t may still have to send.
ConfigCommand(t) ==
  {BadConfig}
  \cup IF t = TheRedis THEN {ConfigSet(p, v) : p \in Params, v \in Values}
       ELSE {Set(t, p, v) : p \in Params, v \in Values}

SetPassword(m) == Set(m, AuthPass, Password)

ToMonitor(m, h) == IF Password = NoPassword THEN <<Monitor(m, h)>>
                   ELSE <<Monitor(m, h), SetPassword(m)>>

\* What is sent to a server that answers it in time or late.
Sent ==
  {Remove(m) : m \in MasterNames} \cup {Monitor(m, h) : m \in MasterNames, h \in Hosts}
  \cup {Set(m, p, v) : m \in MasterNames, p \in Params, v \in Values}
  \cup {SetPassword(m) : m \in MasterNames}
  \cup {ConfigSet(p, v) : p \in Params, v \in Values} \cup {SlaveOf(h) : h \in Hosts \cup {NoHost}}

Command == Sent \cup {Reset, BadConfig}

Before ==
  {<<>>} \cup [Params -> Values \cup {Default}]
  \cup [Params \cup {AuthPass} -> Values \cup {Default, Password}]

Busy ==
  [op : {"monitor", "config", "role", "reset"}, target : Targets \cup {Nothing},
   host : Hosts \cup {NoHost}, configs : ConfigLists \cup {<<>>}, todo : Seq(Command),
   alone : BOOLEAN, before : Before]

Ended == [op : {"idle"}, failed : BOOLEAN]

Working(c) == calls[c].op # "idle"

\* The call is about to send MONITOR, or the password.
AtMonitor(c, m) ==
  /\ calls[c].op = "monitor" /\ calls[c].target = m
  /\ calls[c].todo = ToMonitor(m, calls[c].host)

AtPassword(c, m) ==
  /\ calls[c].op = "monitor" /\ calls[c].target = m
  /\ calls[c].todo = <<SetPassword(m)>>

Doing(call) ==
  \/ /\ call.op = "monitor" /\ call.target \in MasterNames /\ call.host \in Hosts
     /\ \/ call.todo = MonitorRedis(call.target, call.host)
        \/ call.todo = ToMonitor(call.target, call.host)
        \/ Password # NoPassword /\ call.todo = <<SetPassword(call.target)>>
  \/ /\ call.op = "config" /\ call.target \in Targets
     /\ call.configs \in ConfigLists
     /\ call.todo \in Seq(ConfigCommand(call.target))
     /\ Len(call.todo) \in 1 .. Len(call.configs)
  \/ /\ call.op = "role" /\ call.target = TheRedis /\ call.host \in Hosts \cup {NoHost}
     /\ call.todo = <<SlaveOf(call.host)>>
  \/ /\ call.op = "reset" /\ call.target = Nothing /\ call.todo = <<Reset>>

CallsTyped ==
  /\ calls \in [Callers -> Busy \cup Ended]
  /\ \A c \in Callers : Working(c) => Doing(calls[c])

LateTyped == late \subseteq Sent /\ \A x \in late : x.cmd = "monitor" => asked[x.name] = {}

Answered(m) ==
  asked[m] # {} =>
    /\ sentinel[m] = Nothing => \E c \in Callers : AtMonitor(c, m)
    /\ sentinel[m] # Nothing =>
         /\ \/ sentinel[m].host \in asked[m]
            \/ \E c \in Callers : AtPassword(c, m) /\ calls[c].host = sentinel[m].host
         /\ \/ Password = NoPassword
            \/ sentinel[m].params[AuthPass] = Password
            \/ \E c \in Callers : AtPassword(c, m)

RoleAnswered == asked[TheRedis] # {} => redis.master \in asked[TheRedis]

\* The first configurations have been applied, and the others are to come.
SoFar(call) == Len(call.configs) - Len(call.todo)

CommandsFor(t, configs) ==
  IF t = TheRedis THEN SetCustomRedisConfig(configs) ELSE SetCustomSentinelConfig(t, configs)

Applied(call) ==
  /\ \A i \in 1 .. Len(call.todo) :
       call.todo[i] = CommandsFor(call.target, call.configs)[SoFar(call) + i]
  /\ \A i \in 1 .. SoFar(call) : call.configs[i] # Malformed
  /\ ParamsOf(call.target) = Configured(call.before, call.configs, SoFar(call))

Alone(c) == Working(c) /\ calls[c].alone
AloneInv ==
  \A c \in Callers : Alone(c) =>
    /\ \A d \in Callers : Working(d) => d = c
    /\ \A x \in late : calls[c].op = "monitor" /\ x.cmd = "remove"
    /\ \A m \in MasterNames : AtPassword(c, m) => sentinel[m] = Nothing \/ sentinel[m].host = calls[c].host
    /\ calls[c].op = "config" => Applied(calls[c])

IInv ==
  /\ TypeOK /\ CallsTyped /\ LateTyped /\ AloneInv
  /\ \A m \in MasterNames : Answered(m)
  /\ RoleAnswered

----------------------------------------------------------------------------
\* Facts about the commands and the records.

LEMMA Names ==
  /\ AuthPass \notin Params /\ TheRedis \notin MasterNames /\ Nothing \notin Entry
  /\ Targets = MasterNames \cup {TheRedis} /\ TheRedis \in Targets
BY ClientAssumption, NoEntry DEF ClientAssumption, NoEntry, Targets

\* Every command is one of these.
LEMMA Commands ==
  ASSUME NEW x \in Command
  PROVE  \/ \E m \in MasterNames : x = Remove(m) /\ x.cmd = "remove" /\ x.name = m
         \/ \E m \in MasterNames, h \in Hosts :
              x = Monitor(m, h) /\ x.cmd = "monitor" /\ x.name = m /\ x.host = h
         \/ \E m \in MasterNames, p \in Params \cup {AuthPass}, v \in Values \cup {Password} :
              /\ x = Set(m, p, v) /\ x.cmd = "set" /\ x.name = m /\ x.param = p /\ x.value = v
              /\ (p = AuthPass /\ v = Password) \/ (p \in Params /\ v \in Values)
         \/ \E p \in Params, v \in Values :
              x = ConfigSet(p, v) /\ x.cmd = "config" /\ x.param = p /\ x.value = v
         \/ \E h \in Hosts \cup {NoHost} : x = SlaveOf(h) /\ x.cmd = "slaveof" /\ x.host = h
         \/ x = Reset /\ x.cmd = "reset"
         \/ x = BadConfig /\ x.cmd = "malformed"
<1> USE DEF Remove, Monitor, Set, SetPassword, ConfigSet, SlaveOf, Reset, BadConfig
<1>1. CASE x \in {Remove(m) : m \in MasterNames}
  BY <1>1
<1>2. CASE x \in {Monitor(m, h) : m \in MasterNames, h \in Hosts}
  BY <1>2
<1>3. CASE x \in {Set(m, p, v) : m \in MasterNames, p \in Params, v \in Values}
  BY <1>3
<1>4. CASE x \in {SetPassword(m) : m \in MasterNames}
  <2>1. PICK m \in MasterNames : x = Set(m, AuthPass, Password)
    BY <1>4
  <2>2. /\ AuthPass \in Params \cup {AuthPass} /\ Password \in Values \cup {Password}
        /\ x.cmd = "set" /\ x.name = m /\ x.param = AuthPass /\ x.value = Password
    BY <2>1
  <2> HIDE DEF Set
  <2> QED BY <2>1, <2>2
<1>5. CASE x \in {ConfigSet(p, v) : p \in Params, v \in Values}
  BY <1>5
<1>6. CASE x \in {SlaveOf(h) : h \in Hosts \cup {NoHost}}
  BY <1>6
<1>7. CASE x \in {Reset, BadConfig}
  BY <1>7
<1> QED BY <1>1, <1>2, <1>3, <1>4, <1>5, <1>6, <1>7 DEF Command, Sent

LEMMA Words ==
  /\ \A m : Remove(m).cmd = "remove" /\ SetPassword(m).cmd = "set"
  /\ \A m, h : Monitor(m, h).cmd = "monitor" /\ Monitor(m, h).name = m
BY DEF Remove, SetPassword, Set, Monitor

LEMMA CommandsIn ==
  /\ \A t \in Targets : ConfigCommand(t) \subseteq Command
  /\ \A m \in MasterNames : Remove(m) \in Sent /\ SetPassword(m) \in Sent
  /\ \A m \in MasterNames, h \in Hosts : Monitor(m, h) \in Sent
  /\ \A h \in Hosts \cup {NoHost} : SlaveOf(h) \in Sent
  /\ Sent \subseteq Command /\ Reset \in Command /\ BadConfig \in Command
BY Names DEF ConfigCommand, Command, Sent

\* What is sent is neither a reset nor malformed, and the other way round.
LEMMA SentIs ==
  ASSUME NEW x \in Command
  PROVE  x \in Sent <=> x.cmd \notin {"reset", "malformed"}
BY DEF Command, Sent, Remove, Monitor, Set, SetPassword, ConfigSet, SlaveOf, Reset, BadConfig

\* The parts of short lists.
LEMMA ShortLists ==
  ASSUME NEW a, NEW b, NEW d
  PROVE  /\ Head(<<a>>) = a /\ Len(<<a>>) = 1
         /\ Head(<<a, b>>) = a /\ Len(<<a, b>>) = 2 /\ Tail(<<a, b>>) = <<b>>
         /\ Head(<<a, b, d>>) = a /\ Len(<<a, b, d>>) = 3 /\ Tail(<<a, b, d>>) = <<b, d>>
OBVIOUS

LEMMA TwoAndOne ==
  ASSUME NEW a, NEW b, NEW d
  PROVE  <<a, b>> \o <<d>> = <<a, b, d>> /\ <<a, b>> \o <<>> = <<a, b>>
<1> DEFINE S == {a, b, d}
           s == <<a, b>> \o <<d>>
<1>1. <<a, b>> \in Seq(S) /\ <<d>> \in Seq(S) /\ <<a, b, d>> \in Seq(S)
  OBVIOUS
<1>2. Len(<<a, b>>) = 2 /\ Len(<<d>>) = 1
  OBVIOUS
<1>3. s \in Seq(S) /\ Len(s) = 3
      /\ \A i \in 1 .. 3 : s[i] = IF i <= 2 THEN <<a, b>>[i] ELSE <<d>>[i - 2]
  BY <1>1, <1>2, ConcatProperties
<1>4. s[1] = a /\ s[2] = b /\ s[3] = d
  BY <1>3
<1> HIDE DEF s
<1>5. s = <<a, b, d>>
  BY <1>3, <1>4
<1>6. <<a, b>> \o <<>> = <<a, b>>
  OBVIOUS
<1> QED BY <1>5, <1>6 DEF s

\* What MonitorRedis sends.
LEMMA MonitorSends ==
  ASSUME NEW m, NEW h
  PROVE  MonitorRedis(m, h) = IF Password = NoPassword THEN <<Remove(m), Monitor(m, h)>>
                              ELSE <<Remove(m), Monitor(m, h), SetPassword(m)>>
BY TwoAndOne DEF MonitorRedis, SetPassword

----------------------------------------------------------------------------
\* What a call is about to send, and what is left then.

LEMMA CallFields ==
  ASSUME CallsTyped, NEW c \in Callers, Working(c)
  PROVE  /\ calls[c] \in Busy /\ Doing(calls[c])
         /\ calls[c].todo \in Seq(Command) /\ calls[c].alone \in BOOLEAN
         /\ calls[c].target \in Targets \cup {Nothing}
BY DEF CallsTyped, Working, Busy, Ended

LEMMA Monitoring ==
  ASSUME CallsTyped, NEW c \in Callers, Working(c), calls[c].op = "monitor"
  PROVE  LET call == calls[c]
             x == Head(call.todo)
             m == call.target
             h == call.host
         IN  /\ m \in MasterNames /\ h \in Hosts
             /\ \/ /\ x = Remove(m) /\ Len(call.todo) # 1
                   /\ Tail(call.todo) = ToMonitor(m, h)
                \/ /\ x = Monitor(m, h) /\ call.todo = ToMonitor(m, h)
                   /\ Password = NoPassword => Len(call.todo) = 1
                   /\ Password # NoPassword => /\ Len(call.todo) # 1
                                               /\ Tail(call.todo) = <<SetPassword(m)>>
                \/ /\ x = SetPassword(m) /\ call.todo = <<SetPassword(m)>>
                   /\ Len(call.todo) = 1 /\ Password # NoPassword
<1> DEFINE call == calls[c]
           m == call.target
           h == call.host
<1>1. m \in MasterNames /\ h \in Hosts
      /\ \/ call.todo = MonitorRedis(m, h)
         \/ call.todo = ToMonitor(m, h)
         \/ Password # NoPassword /\ call.todo = <<SetPassword(m)>>
  BY CallFields DEF Doing
<1> HIDE DEF call, m, h
<1>2. CASE call.todo = MonitorRedis(m, h)
  <2>1. CASE Password = NoPassword
    <3>1. call.todo = <<Remove(m), Monitor(m, h)>>
      BY <1>2, <2>1, MonitorSends
    <3>2. Head(call.todo) = Remove(m) /\ Len(call.todo) = 2 /\ Tail(call.todo) = <<Monitor(m, h)>>
      BY <3>1, ShortLists
    <3> QED BY <1>1, <2>1, <3>2 DEF ToMonitor, call, m, h
  <2>2. CASE Password # NoPassword
    <3>1. call.todo = <<Remove(m), Monitor(m, h), SetPassword(m)>>
      BY <1>2, <2>2, MonitorSends
    <3>2. Head(call.todo) = Remove(m) /\ Len(call.todo) = 3
          /\ Tail(call.todo) = <<Monitor(m, h), SetPassword(m)>>
      BY <3>1, ShortLists
    <3> QED BY <1>1, <2>2, <3>2 DEF ToMonitor, call, m, h
  <2> QED BY <2>1, <2>2
<1>3. CASE call.todo = ToMonitor(m, h)
  BY <1>1, <1>3, ShortLists DEF ToMonitor, call, m, h
<1>4. CASE Password # NoPassword /\ call.todo = <<SetPassword(m)>>
  BY <1>1, <1>4, ShortLists DEF call, m, h
<1> QED BY <1>1, <1>2, <1>3, <1>4

LEMMA SeqOfLength ==
  ASSUME NEW S, NEW n \in Nat, NEW s \in [1 .. n -> S]
  PROVE  s \in Seq(S) /\ Len(s) = n
<1>1. s \in Seq(S)
  BY SeqDef, Zenon
<1>2. Len(s) \in Nat /\ 1 .. Len(s) = 1 .. n
  BY <1>1, LenProperties
<1> DEFINE k == Len(s)
<1> HIDE DEF k
<1>3. k \in Nat /\ 1 .. k = 1 .. n => k = n
  <2>1. SUFFICES ASSUME k \in Nat, 1 .. k = 1 .. n
                 PROVE  k = n
    OBVIOUS
  <2>2. k + 1 \notin 1 .. n /\ n + 1 \notin 1 .. k
    BY <2>1
  <2>3. k = 0 \/ k \in 1 .. n
    BY <2>1
  <2>4. n = 0 \/ n \in 1 .. k
    BY <2>1
  <2> QED BY <2>1, <2>2, <2>3, <2>4
<1> QED BY <1>1, <1>2, <1>3 DEF k

LEMMA ConfigListLen ==
  ASSUME NEW configs \in ConfigLists
  PROVE  /\ Len(configs) \in Nat \ {0} /\ DOMAIN configs = 1 .. Len(configs)
         /\ configs \in [1 .. Len(configs) -> Config \cup {Malformed}]
<1>1. PICK n \in 1 .. MaxConfigs : configs \in [1 .. n -> Config \cup {Malformed}]
  BY DEF ConfigLists
<1>2. n \in Nat \ {0}
  BY <1>1, ClientAssumption DEF ClientAssumption
<1>3. Len(configs) = n
  BY <1>1, <1>2, SeqOfLength
<1> QED BY <1>1, <1>2, <1>3

LEMMA Configuring ==
  ASSUME CallsTyped, NEW c \in Callers, Working(c), calls[c].op = "config"
  PROVE  LET call == calls[c] IN
         /\ call.target \in Targets /\ call.configs \in ConfigLists
         /\ Len(call.configs) \in Nat /\ Len(call.todo) \in 1 .. Len(call.configs)
         /\ Head(call.todo) \in ConfigCommand(call.target) /\ Head(call.todo) = call.todo[1]
         /\ Tail(call.todo) \in Seq(ConfigCommand(call.target))
         /\ Len(Tail(call.todo)) = Len(call.todo) - 1
         /\ \A i \in 1 .. Len(Tail(call.todo)) : Tail(call.todo)[i] = call.todo[i + 1]
<1> DEFINE t == calls[c].target
           list == calls[c].todo
           k == Len(calls[c].configs)
<1>1. /\ t \in Targets /\ calls[c].configs \in ConfigLists
      /\ list \in Seq(ConfigCommand(t)) /\ Len(list) \in 1 .. k
  BY CallFields DEF Doing
<1>2. k \in Nat
  BY <1>1, ConfigListLen
<1> HIDE DEF t, list, k
<1>3. list # <<>>
  <2>1. list = <<>> => Len(list) = 0
    OBVIOUS
  <2>2. \A i \in 1 .. k : i # 0
    BY <1>2
  <2>3. Len(list) # 0
    BY <1>1, <2>2
  <2> QED BY <2>1, <2>3
<1>4. /\ Head(list) \in ConfigCommand(t) /\ Tail(list) \in Seq(ConfigCommand(t))
      /\ Len(Tail(list)) = Len(list) - 1
      /\ \A i \in 1 .. Len(Tail(list)) : Tail(list)[i] = list[i + 1]
  BY <1>1, <1>3, HeadTailProperties
<1>5. Head(list) = list[1]
  OBVIOUS
<1> QED BY <1>1, <1>2, <1>4, <1>5 DEF t, list, k

LEMMA OthersSend ==
  ASSUME CallsTyped, NEW c \in Callers, Working(c), calls[c].op \in {"role", "reset"}
  PROVE  LET call == calls[c] IN
         /\ Len(call.todo) = 1
         /\ call.op = "role" => /\ call.target = TheRedis /\ call.host \in Hosts \cup {NoHost}
                                /\ Head(call.todo) = SlaveOf(call.host)
         /\ call.op = "reset" => Head(call.todo) = Reset
<1>1. Doing(calls[c])
  BY CallFields
<1> QED BY <1>1, ShortLists DEF Doing

LEMMA HeadTyped ==
  ASSUME CallsTyped, NEW c \in Callers, Working(c)
  PROVE  Head(calls[c].todo) \in Command /\ calls[c].op \in {"monitor", "config", "role", "reset"}
<1>1. calls[c].op \in {"monitor", "config", "role", "reset"}
  BY CallFields DEF Busy
<1>2. CASE calls[c].op = "monitor"
  BY <1>2, Monitoring, CommandsIn
<1>3. CASE calls[c].op = "config"
  BY <1>3, Configuring, CommandsIn
<1>4. CASE calls[c].op \in {"role", "reset"}
  BY <1>4, <1>1, OthersSend, CommandsIn
<1> QED BY <1>1, <1>2, <1>3, <1>4

----------------------------------------------------------------------------
\* What a command does to the servers.

\* The master stays the one it was, and keeps the password if it has it.
EntryKept(m) ==
  /\ sentinel'[m] = Nothing <=> sentinel[m] = Nothing
  /\ sentinel[m] # Nothing =>
       /\ sentinel'[m].host = sentinel[m].host
       /\ sentinel[m].params[AuthPass] = Password => sentinel'[m].params[AuthPass] = Password

LEMMA EntryFields ==
  ASSUME TypeOK, NEW m \in MasterNames, sentinel[m] # Nothing
  PROVE  /\ sentinel[m] \in Entry /\ sentinel[m].host \in Hosts
         /\ sentinel[m].params \in [Params \cup {AuthPass} -> Values \cup {Default, Password}]
BY DEF TypeOK, Entry

LEMMA EntryWith ==
  ASSUME NEW e \in Entry, NEW p \in Params \cup {AuthPass}, NEW v \in Values \cup {Password}
  PROVE  /\ [e EXCEPT !.params[p] = v] \in Entry
         /\ [e EXCEPT !.params[p] = v].host = e.host
         /\ [e EXCEPT !.params[p] = v].params = [e.params EXCEPT ![p] = v]
BY DEF Entry

LEMMA NewEntry ==
  ASSUME NEW h \in Hosts
  PROVE  [host |-> h, params |-> Unset] \in Entry
BY DEF Entry, Unset

LEMMA RemoveDoes ==
  ASSUME TypeOK, NEW m \in MasterNames
  PROVE  /\ Accepts(Remove(m)) <=> sentinel[m] # Nothing
         /\ CarryOut(Remove(m)) =>
              /\ sentinel' \in [MasterNames -> Entry \cup {Nothing}] /\ sentinel'[m] = Nothing
              /\ \A n \in MasterNames : n # m => sentinel'[n] = sentinel[n]
              /\ UNCHANGED redis
BY DEF TypeOK, Accepts, CarryOut, Remove

LEMMA MonitorDoes ==
  ASSUME TypeOK, NEW m \in MasterNames, NEW h \in Hosts
  PROVE  /\ Accepts(Monitor(m, h)) <=> sentinel[m] = Nothing
         /\ CarryOut(Monitor(m, h)) =>
              /\ sentinel' \in [MasterNames -> Entry \cup {Nothing}]
              /\ sentinel'[m] = [host |-> h, params |-> Unset]
              /\ \A n \in MasterNames : n # m => sentinel'[n] = sentinel[n]
              /\ UNCHANGED redis
<1> DEFINE e == [host |-> h, params |-> Unset]
<1>1. e \in Entry
  BY NewEntry
<1>2. /\ Monitor(m, h).cmd = "monitor" /\ Monitor(m, h).name = m /\ Monitor(m, h).host = h
  BY DEF Monitor
<1>3. CarryOut(Monitor(m, h)) => sentinel' = [sentinel EXCEPT ![m] = e] /\ UNCHANGED redis
  BY <1>2 DEF CarryOut
<1> HIDE DEF e
<1>4. CarryOut(Monitor(m, h)) =>
              /\ sentinel' \in [MasterNames -> Entry \cup {Nothing}]
              /\ sentinel'[m] = e
              /\ \A n \in MasterNames : n # m => sentinel'[n] = sentinel[n]
  BY <1>1, <1>3 DEF TypeOK
<1> QED BY <1>2, <1>3, <1>4 DEF Accepts, e

LEMMA SetDoes ==
  ASSUME TypeOK, NEW m \in MasterNames, NEW p \in Params \cup {AuthPass},
         NEW v \in Values \cup {Password}, p = AuthPass => v = Password,
         Accepts(Set(m, p, v)), CarryOut(Set(m, p, v))
  PROVE  /\ sentinel' \in [MasterNames -> Entry \cup {Nothing}] /\ UNCHANGED redis
         /\ sentinel[m] # Nothing /\ sentinel'[m] # Nothing
         /\ sentinel'[m].params = [sentinel[m].params EXCEPT ![p] = v]
         /\ p = AuthPass => sentinel'[m].params[AuthPass] = Password
         /\ \A n \in MasterNames : n # m => sentinel'[n] = sentinel[n]
         /\ \A n \in MasterNames : EntryKept(n)
<1>1. /\ Set(m, p, v).cmd = "set" /\ Set(m, p, v).name = m /\ Set(m, p, v).param = p
      /\ Set(m, p, v).value = v
  BY DEF Set
<1>2. sentinel[m] # Nothing /\ sentinel[m] \in Entry /\ sentinel \in [MasterNames -> Entry \cup {Nothing}]
  BY <1>1 DEF Accepts, TypeOK
<1> DEFINE e == [sentinel[m] EXCEPT !.params[p] = v]
<1>3. sentinel' = [sentinel EXCEPT ![m] = e] /\ UNCHANGED redis
  BY <1>1 DEF CarryOut
<1>4. e \in Entry /\ e.host = sentinel[m].host /\ e.params = [sentinel[m].params EXCEPT ![p] = v]
  BY <1>2, EntryWith
<1> HIDE DEF e
<1>5. /\ sentinel' \in [MasterNames -> Entry \cup {Nothing}] /\ sentinel'[m] = e /\ e # Nothing
      /\ \A n \in MasterNames : n # m => sentinel'[n] = sentinel[n]
  BY <1>2, <1>3, <1>4, Names
<1>6. sentinel[m].params \in [Params \cup {AuthPass} -> Values \cup {Default, Password}]
  BY <1>2 DEF Entry
<1>7. /\ p = AuthPass => e.params[AuthPass] = Password
      /\ sentinel[m].params[AuthPass] = Password => e.params[AuthPass] = Password
  BY <1>4, <1>6
<1>8. \A n \in MasterNames : EntryKept(n)
  BY <1>2, <1>4, <1>5, <1>7 DEF EntryKept
<1> QED BY <1>2, <1>3, <1>4, <1>5, <1>7, <1>8

LEMMA PasswordDoes ==
  ASSUME TypeOK, NEW m \in MasterNames,
         Accepts(Set(m, AuthPass, Password)), CarryOut(Set(m, AuthPass, Password))
  PROVE  /\ UNCHANGED redis
         /\ sentinel[m] # Nothing /\ sentinel'[m] # Nothing
         /\ sentinel'[m].params[AuthPass] = Password
         /\ \A n \in MasterNames : n # m => sentinel'[n] = sentinel[n]
         /\ \A n \in MasterNames : EntryKept(n)
<1>1. AuthPass \in Params \cup {AuthPass} /\ Password \in Values \cup {Password}
  OBVIOUS
<1> QED BY <1>1, SetDoes

LEMMA ConfigDoes ==
  ASSUME TypeOK, NEW p \in Params, NEW v \in Values, CarryOut(ConfigSet(p, v))
  PROVE  /\ UNCHANGED sentinel /\ redis' \in Redis /\ redis'.master = redis.master
         /\ redis'.params = [redis.params EXCEPT ![p] = v]
<1>1. /\ ConfigSet(p, v).cmd = "config" /\ ConfigSet(p, v).param = p /\ ConfigSet(p, v).value = v
  BY DEF ConfigSet
<1>2. redis' = [redis EXCEPT !.params[p] = v] /\ UNCHANGED sentinel
  BY <1>1 DEF CarryOut
<1>3. redis \in Redis
  BY DEF TypeOK
<1> QED BY <1>2, <1>3 DEF Redis

LEMMA SlaveOfDoes ==
  ASSUME TypeOK, NEW h \in Hosts \cup {NoHost}
  PROVE  /\ Accepts(SlaveOf(h))
         /\ CarryOut(SlaveOf(h)) => UNCHANGED sentinel /\ redis' \in Redis /\ redis'.master = h
<1>1. SlaveOf(h).cmd = "slaveof" /\ SlaveOf(h).host = h
  BY DEF SlaveOf
<1>2. CarryOut(SlaveOf(h)) => redis' = [redis EXCEPT !.master = h] /\ UNCHANGED sentinel
  BY <1>1 DEF CarryOut
<1>3. redis \in Redis
  BY DEF TypeOK
<1> QED BY <1>1, <1>2, <1>3 DEF Accepts, Redis

LEMMA ResetDoes ==
  /\ Accepts(Reset)
  /\ CarryOut(Reset) => UNCHANGED <<sentinel, redis>>
  /\ ~Accepts(BadConfig)
BY DEF Accepts, CarryOut, Reset, BadConfig

LEMMA ServersTyped ==
  ASSUME TypeOK, NEW x \in Command,
         (Accepts(x) /\ CarryOut(x)) \/ UNCHANGED <<sentinel, redis>>
  PROVE  sentinel' \in [MasterNames -> Entry \cup {Nothing}] /\ redis' \in Redis
<1>1. CASE UNCHANGED <<sentinel, redis>>
  BY <1>1 DEF TypeOK
<1>2. CASE Accepts(x) /\ CarryOut(x)
  <2>1. redis \in Redis /\ sentinel \in [MasterNames -> Entry \cup {Nothing}]
    BY DEF TypeOK
  <2>2. ASSUME NEW m \in MasterNames, x = Remove(m)
        PROVE  sentinel' \in [MasterNames -> Entry \cup {Nothing}] /\ redis' \in Redis
    BY <1>2, <2>1, <2>2, RemoveDoes
  <2>3. ASSUME NEW m \in MasterNames, NEW h \in Hosts, x = Monitor(m, h)
        PROVE  sentinel' \in [MasterNames -> Entry \cup {Nothing}] /\ redis' \in Redis
    BY <1>2, <2>1, <2>3, MonitorDoes
  <2>4. ASSUME NEW m \in MasterNames, NEW p \in Params \cup {AuthPass},
               NEW v \in Values \cup {Password}, x = Set(m, p, v), p = AuthPass => v = Password
        PROVE  sentinel' \in [MasterNames -> Entry \cup {Nothing}] /\ redis' \in Redis
    BY <1>2, <2>1, <2>4, SetDoes
  <2>5. ASSUME NEW p \in Params, NEW v \in Values, x = ConfigSet(p, v)
        PROVE  sentinel' \in [MasterNames -> Entry \cup {Nothing}] /\ redis' \in Redis
    BY <1>2, <2>1, <2>5, ConfigDoes
  <2>6. ASSUME NEW h \in Hosts \cup {NoHost}, x = SlaveOf(h)
        PROVE  sentinel' \in [MasterNames -> Entry \cup {Nothing}] /\ redis' \in Redis
    BY <1>2, <2>1, <2>6, SlaveOfDoes
  <2>7. CASE x = Reset
    BY <1>2, <2>1, <2>7, ResetDoes
  <2>8. x # BadConfig
    BY <1>2, ResetDoes
  <2> QED BY <2>2, <2>3, <2>4, <2>5, <2>6, <2>7, <2>8, Commands, Names
<1> QED BY <1>1, <1>2

----------------------------------------------------------------------------
\* What a step of a caller does.

Carried(x) == (Accepts(x) /\ CarryOut(x)) \/ UNCHANGED <<sentinel, redis>>

\* The command has been carried out; or it was REMOVE, whose failure does not
\* matter; or the call fails.
LEMMA StepCases ==
  ASSUME NEW c \in Callers, Accepted(c) \/ Refused(c) \/ GivenUp(c)
  PROVE  LET x == Head(calls[c].todo) IN
         /\ Working(c)
         /\ \/ Accepts(x) /\ CarryOut(x) /\ GoOn(c) /\ UNCHANGED late
            \/ /\ x.cmd = "remove" /\ Carried(x) /\ GoOn(c)
               /\ late' \in {late, late \cup {x}}
            \/ /\ x.cmd # "remove" /\ Carried(x) /\ End(c, TRUE)
               /\ late' \in {late, late \cup ({x} \ {Reset})}
               /\ late' # late => x.cmd # "malformed"
<1> DEFINE x == Head(calls[c].todo)
<1>1. CASE Accepted(c)
  BY <1>1 DEF Accepted, Working
<1>2. CASE Refused(c)
  BY <1>2 DEF Refused, Working, HasFailed, Ignored, Carried
<1>3. CASE GivenUp(c)
  <2>1. Working(c) /\ HasFailed(c) /\ x.cmd # "malformed" /\ Carried(x)
        /\ late' \in {late, late \cup ({x} \ {Reset})}
    BY <1>3 DEF GivenUp, Working, Carried
  <2>2. x.cmd = "remove" => {x} \ {Reset} = {x}
    BY DEF Reset
  <2> QED BY <2>1, <2>2 DEF HasFailed, Ignored
<1> QED BY <1>1, <1>2, <1>3

\* A call that goes on.
LEMMA TailFields ==
  ASSUME CallsTyped, NEW c \in Callers, Working(c), GoOn(c), Len(calls[c].todo) # 1,
         Tail(calls[c].todo) \in Seq(Command)
  PROVE  /\ calls'[c] = [calls[c] EXCEPT !.todo = Tail(@)] /\ UNCHANGED asked
         /\ calls'[c].op = calls[c].op /\ calls'[c].target = calls[c].target
         /\ calls'[c].host = calls[c].host /\ calls'[c].configs = calls[c].configs
         /\ calls'[c].alone = calls[c].alone /\ calls'[c].before = calls[c].before
         /\ calls'[c].todo = Tail(calls[c].todo)
         /\ \A d \in Callers : d # c => calls'[d] = calls[d]
         /\ Doing(calls'[c]) => CallsTyped'
<1>1. calls' = [calls EXCEPT ![c].todo = Tail(@)] /\ UNCHANGED asked
  BY DEF GoOn
<1>2. calls[c] \in Busy /\ calls \in [Callers -> Busy \cup Ended]
  BY CallFields DEF CallsTyped
<1> DEFINE new == [calls[c] EXCEPT !.todo = Tail(calls[c].todo)]
<1>3. new \in Busy /\ new.op = calls[c].op /\ new.target = calls[c].target
      /\ new.host = calls[c].host /\ new.configs = calls[c].configs
      /\ new.alone = calls[c].alone /\ new.before = calls[c].before
      /\ new.todo = Tail(calls[c].todo)
  BY <1>2 DEF Busy
<1>4. calls' = [calls EXCEPT ![c] = new]
  BY <1>1, <1>2
<1> HIDE DEF new
<1>5. calls'[c] = new /\ \A d \in Callers : d # c => calls'[d] = calls[d]
  BY <1>2, <1>4
<1>6. calls' \in [Callers -> Busy \cup Ended]
  BY <1>2, <1>3, <1>4
<1>7. Doing(calls'[c]) => \A d \in Callers : Working(d)' => Doing(calls'[d])
  BY <1>5 DEF CallsTyped, Working
<1>8. Doing(calls'[c]) => CallsTyped'
  BY <1>6, <1>7 DEF CallsTyped
<1> QED BY <1>1, <1>3, <1>5, <1>8 DEF new

\* A call that ends.
LEMMA EndFields ==
  ASSUME TypeOK, CallsTyped, LateTyped, AloneInv, NEW c \in Callers, Working(c),
         NEW failed \in BOOLEAN, End(c, failed)
  PROVE  /\ calls'[c] = Idle(failed) /\ ~Working(c)'
         /\ \A d \in Callers : d # c => calls'[d] = calls[d]
         /\ CallsTyped'
         /\ asked' \in [Targets -> SUBSET (Hosts \cup {NoHost})]
         /\ \A t \in Targets :
              calls[c].op \notin {"monitor", "role"} \/ t # calls[c].target => asked'[t] = asked[t]
         /\ calls[c].op \in {"monitor", "role"} =>
              asked'[calls[c].target] =
                IF failed THEN {}
                ELSE IF calls[c].alone THEN {calls[c].host}
                ELSE IF asked[calls[c].target] = {} THEN {}
                ELSE asked[calls[c].target] \cup {calls[c].host}
         /\ \A x \in late : x.cmd = "monitor" => asked'[x.name] = {}
<1>1. calls' = [calls EXCEPT ![c] = Idle(failed)] /\ asked' = AskedAfter(calls[c], failed)
  BY DEF End
<1>2. calls \in [Callers -> Busy \cup Ended] /\ Idle(failed) \in Ended
      /\ Idle(failed).op = "idle"
  BY DEF CallsTyped, Idle, Ended
<1>3. calls'[c] = Idle(failed) /\ ~Working(c)' /\ \A d \in Callers : d # c => calls'[d] = calls[d]
  BY <1>1, <1>2 DEF Working
<1>4. CallsTyped'
  BY <1>1, <1>2, <1>3 DEF CallsTyped, Working
<1>5. asked \in [Targets -> SUBSET (Hosts \cup {NoHost})]
  BY DEF TypeOK
<1> DEFINE t == calls[c].target
           a == IF failed THEN {} ELSE IF calls[c].alone THEN {calls[c].host}
                ELSE IF asked[t] = {} THEN {} ELSE asked[t] \cup {calls[c].host}
<1>6. calls[c].op \in {"monitor", "role"} =>
        t \in Targets /\ calls[c].host \in Hosts \cup {NoHost} /\ asked' = [asked EXCEPT ![t] = a]
  BY <1>1, Monitoring, OthersSend, Names DEF AskedAfter
<1>7. calls[c].op \notin {"monitor", "role"} => asked' = asked
  BY <1>1 DEF AskedAfter
<1>8. calls[c].op \in {"monitor", "role"} => a \subseteq Hosts \cup {NoHost}
  BY <1>5, <1>6
<1>9. ASSUME NEW x \in late, x.cmd = "monitor"
      PROVE  asked'[x.name] = {}
  <2>1. asked[x.name] = {} /\ x.name \in Targets
    <3>1. x \in Command
      BY CommandsIn DEF LateTyped
    <3> QED BY <1>9, <3>1, Commands, Names DEF LateTyped
  <2>2. ~Alone(c)
    BY <1>9 DEF AloneInv
  <2> QED BY <1>5, <1>6, <1>7, <2>1, <2>2 DEF Alone
<1> HIDE DEF a
<1>10. /\ asked' \in [Targets -> SUBSET (Hosts \cup {NoHost})]
       /\ \A s \in Targets :
            calls[c].op \notin {"monitor", "role"} \/ s # t => asked'[s] = asked[s]
       /\ calls[c].op \in {"monitor", "role"} => asked'[t] = a
  BY <1>5, <1>6, <1>7, <1>8
<1> QED BY <1>3, <1>4, <1>9, <1>10 DEF a

\* A call that is alone after a step of c is that of c.
LEMMA AloneKept ==
  ASSUME AloneInv, NEW c \in Callers, Working(c),
         \A d \in Callers : d # c => calls'[d] = calls[d],
         Alone(c)' => /\ Alone(c)
                      /\ \A x \in late' : calls'[c].op = "monitor" /\ x.cmd = "remove"
                      /\ \A m \in MasterNames : AtPassword(c, m)' =>
                           sentinel'[m] = Nothing \/ sentinel'[m].host = calls'[c].host
                      /\ calls'[c].op = "config" => Applied(calls[c])'
  PROVE  AloneInv'
<1> SUFFICES ASSUME NEW e \in Callers, Alone(e)'
             PROVE  /\ \A d \in Callers : Working(d)' => d = e
                    /\ \A x \in late' : calls'[e].op = "monitor" /\ x.cmd = "remove"
                    /\ \A m \in MasterNames : AtPassword(e, m)' =>
                         sentinel'[m] = Nothing \/ sentinel'[m].host = calls'[e].host
                    /\ calls'[e].op = "config" => Applied(calls[e])'
  BY DEF AloneInv
<1>1. e = c
  <2>1. SUFFICES ASSUME e # c
                 PROVE  FALSE
    OBVIOUS
  <2>2. Alone(e)
    BY <2>1 DEF Alone, Working
  <2> QED BY <2>1, <2>2 DEF AloneInv
<1>2. \A d \in Callers : Working(d)' => d = c
  BY <1>1 DEF AloneInv, Working
<1> QED BY <1>1, <1>2

\* What c has done concerns another master, or leaves the entry what it was.
LEMMA AnsweredKept ==
  ASSUME NEW c \in Callers, NEW m \in MasterNames, Answered(m), EntryKept(m),
         asked'[m] \in {asked[m], {}},
         \A d \in Callers : d # c => calls'[d] = calls[d],
         calls[c].op # "monitor" \/ calls[c].target # m
  PROVE  Answered(m)'
<1>1. \A d \in Callers : AtMonitor(d, m) => AtMonitor(d, m)'
  BY DEF AtMonitor, ToMonitor
<1>2. \A d \in Callers : AtPassword(d, m) => AtPassword(d, m)' /\ calls'[d].host = calls[d].host
  BY DEF AtPassword
<1> QED BY <1>1, <1>2 DEF Answered, EntryKept

\* What a call that is not MonitorRedis sends leaves the entries what they were.
LEMMA EntriesKept ==
  ASSUME TypeOK, CallsTyped, NEW c \in Callers, Working(c), calls[c].op # "monitor",
         Carried(Head(calls[c].todo))
  PROVE  /\ \A m \in MasterNames : EntryKept(m)
         /\ calls[c].op # "role" => redis'.master = redis.master
         /\ Head(calls[c].todo).cmd # "remove" /\ Head(calls[c].todo).cmd # "monitor"
<1> DEFINE x == Head(calls[c].todo)
<1> HIDE DEF x
<1>1. UNCHANGED sentinel => \A m \in MasterNames : EntryKept(m)
  BY DEF EntryKept
<1>2. CASE calls[c].op = "config"
  <2>1. x \in ConfigCommand(calls[c].target) /\ calls[c].target \in Targets
    BY <1>2, Configuring DEF x
  <2>2. CASE x = BadConfig
    BY <1>1, <1>2, <2>2, ResetDoes DEF Carried, x, BadConfig
  <2>3. ASSUME NEW p \in Params, NEW v \in Values, x = ConfigSet(p, v)
        PROVE  /\ \A m \in MasterNames : EntryKept(m)
               /\ redis'.master = redis.master /\ x.cmd # "remove" /\ x.cmd # "monitor"
    <3>1. x.cmd = "config"
      BY <2>3 DEF ConfigSet
    <3> QED BY <1>1, <2>3, <3>1, ConfigDoes DEF Carried, x
  <2>4. ASSUME NEW m \in MasterNames, NEW p \in Params, NEW v \in Values, x = Set(m, p, v)
        PROVE  /\ \A n \in MasterNames : EntryKept(n)
               /\ redis'.master = redis.master /\ x.cmd # "remove" /\ x.cmd # "monitor"
    <3>1. x.cmd = "set" /\ p # AuthPass
      BY <2>4, Names DEF Set
    <3>2. CASE UNCHANGED <<sentinel, redis>>
      BY <1>1, <3>1, <3>2
    <3>3. CASE Accepts(x) /\ CarryOut(x)
      BY <2>4, <3>1, <3>3, SetDoes
    <3> QED BY <3>2, <3>3 DEF Carried, x
  <2>5. x = BadConfig \/ (\E p \in Params, v \in Values : x = ConfigSet(p, v))
          \/ \E m \in MasterNames, p \in Params, v \in Values : x = Set(m, p, v)
    BY <2>1, Names DEF ConfigCommand
  <2> QED BY <2>2, <2>3, <2>4, <2>5 DEF x
<1>3. CASE calls[c].op = "role"
  <2>1. PICK h \in Hosts \cup {NoHost} : x = SlaveOf(h)
    BY <1>3, OthersSend DEF x
  <2>2. UNCHANGED sentinel /\ x.cmd = "slaveof"
    BY <2>1, SlaveOfDoes DEF Carried, SlaveOf, x
  <2> QED BY <1>1, <1>3, <2>2 DEF x
<1>4. CASE calls[c].op = "reset"
  <2>1. x = Reset
    BY <1>4, OthersSend DEF x
  <2>2. UNCHANGED <<sentinel, redis>> /\ x.cmd = "reset"
    BY <2>1, ResetDoes DEF Carried, Reset, x
  <2> QED BY <1>1, <2>2 DEF x
<1> QED BY <1>2, <1>3, <1>4, HeadTyped

\* The type invariant says less of the calls and of the late commands.
Typed ==
  /\ CallsTyped /\ late \subseteq Sent
  /\ sentinel \in [MasterNames -> Entry \cup {Nothing}] /\ redis \in Redis
  /\ asked \in [Targets -> SUBSET (Hosts \cup {NoHost})]

LEMMA TypesFrom == Typed => TypeOK
<1> SUFFICES ASSUME Typed
             PROVE  TypeOK
  OBVIOUS
<1> USE DEF Typed
<1>1. \A x \in late : x.cmd \notin {"malformed", "reset"}
  BY SentIs, CommandsIn
<1>2. ASSUME NEW c \in Callers, Working(c)
      PROVE  /\ calls[c].todo # <<>>
             /\ Len(calls[c].todo) <= IF calls[c].op = "config" THEN Len(calls[c].configs) ELSE 3
  <2> DEFINE list == calls[c].todo
             k == IF calls[c].op = "config" THEN Len(calls[c].configs) ELSE 3
  <2>1. Doing(calls[c])
    BY <1>2, CallFields
  <2>2. k \in Nat /\ Len(list) \in 1 .. k
    <3>1. CASE calls[c].op = "monitor"
      <4> DEFINE m == calls[c].target
                 h == calls[c].host
      <4>1. \/ list = MonitorRedis(m, h) \/ list = ToMonitor(m, h)
            \/ list = <<SetPassword(m)>>
        BY <2>1, <3>1 DEF Doing
      <4>2. /\ Len(<<Remove(m), Monitor(m, h)>>) = 2 /\ Len(<<Monitor(m, h)>>) = 1
            /\ Len(<<Remove(m), Monitor(m, h), SetPassword(m)>>) = 3
            /\ Len(<<Monitor(m, h), SetPassword(m)>>) = 2 /\ Len(<<SetPassword(m)>>) = 1
        OBVIOUS
      <4>3. k = 3
        BY <3>1
      <4> HIDE DEF m, h, list, k
      <4> QED BY <4>1, <4>2, <4>3, MonitorSends DEF ToMonitor
    <3>2. CASE calls[c].op = "config"
      BY <1>2, <3>2, Configuring
    <3>3. CASE calls[c].op \in {"role", "reset"}
      <4>1. Len(list) = 1 /\ k = 3
        BY <1>2, <3>3, OthersSend
      <4> HIDE DEF list, k
      <4> QED BY <4>1
    <3> QED BY <1>2, <3>1, <3>2, <3>3, HeadTyped
  <2> HIDE DEF list, k
  <2>3. list = <<>> => Len(list) = 0
    OBVIOUS
  <2>4. \A n \in 1 .. k : n # 0 /\ n <= k
    BY <2>2
  <2>5. Len(list) # 0 /\ Len(list) <= k
    BY <2>2, <2>4
  <2>6. list # <<>>
    BY <2>3, <2>5
  <2> QED BY <2>5, <2>6 DEF list, k
<1> QED BY <1>1, <1>2, CallFields DEF TypeOK, Working

\* A call that fails makes what it was about unknown.
LEMMA FailKeeps ==
  ASSUME IInv, NEW c \in Callers, Working(c), NEW x, x = Head(calls[c].todo),
         x.cmd # "remove", Carried(x), End(c, TRUE),
         late' \in {late, late \cup ({x} \ {Reset})}, late' # late => x.cmd # "malformed"
  PROVE  IInv'
<1>1. TypeOK /\ CallsTyped /\ LateTyped /\ AloneInv /\ RoleAnswered /\ x \in Command
  BY HeadTyped DEF IInv
<1>2. /\ ~Working(c)' /\ \A d \in Callers : d # c => calls'[d] = calls[d]
      /\ CallsTyped'
      /\ asked' \in [Targets -> SUBSET (Hosts \cup {NoHost})]
      /\ \A t \in Targets :
           calls[c].op \notin {"monitor", "role"} \/ t # calls[c].target => asked'[t] = asked[t]
      /\ calls[c].op \in {"monitor", "role"} => asked'[calls[c].target] = {}
      /\ \A y \in late : y.cmd = "monitor" => asked'[y.name] = {}
  BY <1>1, EndFields
<1>3. late' \subseteq late \cup {x} /\ late' \subseteq Sent
  <2>1. late' # late => x \in Sent \/ x = Reset
    BY <1>1, SentIs, Commands
  <2> QED BY <1>1, <2>1 DEF LateTyped
<1>4. x.cmd = "monitor" => calls[c].op = "monitor" /\ x.name = calls[c].target
  <2>1. CASE calls[c].op = "monitor"
    BY <1>1, <2>1, Monitoring, Words
  <2>2. CASE calls[c].op # "monitor"
    BY <1>1, <2>2, EntriesKept
  <2> QED BY <2>1, <2>2
<1>5. LateTyped'
  BY <1>2, <1>3, <1>4 DEF LateTyped
<1>6. sentinel' \in [MasterNames -> Entry \cup {Nothing}] /\ redis' \in Redis
  BY <1>1, ServersTyped DEF Carried
<1>7. TypeOK'
  <2>1. Typed'
    BY <1>2, <1>3, <1>6 DEF Typed
  <2> QED BY <2>1, TypesFrom, PTL
<1>8. AloneInv'
  BY <1>1, <1>2, AloneKept DEF Alone
<1>9. ASSUME NEW m \in MasterNames
      PROVE  Answered(m)'
  <2>1. CASE asked'[m] = {}
    BY <2>1 DEF Answered
  <2>2. CASE asked'[m] # {}
    <3>1. m \in Targets /\ (calls[c].op # "monitor" \/ calls[c].target # m) /\ asked'[m] = asked[m]
      <4>1. calls[c].op = "role" => calls[c].target # m
        BY <1>1, OthersSend, Names
      <4> QED BY <1>2, <2>2, <4>1, Names
    <3>2. EntryKept(m)
      <4>1. CASE calls[c].op # "monitor"
        BY <1>1, <4>1, EntriesKept
      <4>2. CASE calls[c].op = "monitor"
        <5>1. PICK n \in MasterNames, h \in Hosts :
                n # m /\ (x = Monitor(n, h) \/ x = SetPassword(n))
          BY <1>1, <3>1, <4>2, Monitoring, Words
        <5>2. CASE UNCHANGED sentinel
          BY <5>2 DEF EntryKept
        <5>3. CASE Accepts(x) /\ CarryOut(x)
          <6>1. sentinel'[m] = sentinel[m]
            <7>1. CASE x = Monitor(n, h)
              BY <1>1, <5>1, <5>3, <7>1, MonitorDoes
            <7>2. CASE x = Set(n, AuthPass, Password)
              BY <1>1, <5>1, <5>3, <7>2, PasswordDoes
            <7> QED BY <5>1, <7>1, <7>2 DEF SetPassword
          <6> QED BY <6>1 DEF EntryKept
        <5> QED BY <5>2, <5>3 DEF Carried
      <4> QED BY <4>1, <4>2
    <3> QED BY <1>2, <3>1, <3>2, AnsweredKept DEF IInv
  <2> QED BY <2>1, <2>2
<1>10. RoleAnswered'
  <2>1. CASE calls[c].op = "role"
    BY <1>1, <1>2, <2>1, OthersSend DEF RoleAnswered
  <2>2. CASE calls[c].op # "role"
    <3>1. asked'[TheRedis] = asked[TheRedis]
      <4>1. calls[c].op = "monitor" => calls[c].target \in MasterNames
        BY <1>1, Monitoring
      <4> QED BY <1>2, <2>2, <4>1, Names
    <3>2. redis'.master = redis.master
      <4>1. CASE calls[c].op # "monitor"
        BY <1>1, <2>2, <4>1, EntriesKept
      <4>2. CASE calls[c].op = "monitor"
        <5>1. PICK n \in MasterNames, h \in Hosts : x = Monitor(n, h) \/ x = Set(n, AuthPass, Password)
          BY <1>1, <4>2, Monitoring, Words DEF SetPassword
        <5> QED BY <1>1, <5>1, MonitorDoes, PasswordDoes DEF Carried, SetPassword
      <4> QED BY <4>1, <4>2
    <3> QED BY <1>1, <3>1, <3>2 DEF RoleAnswered
  <2> QED BY <2>1, <2>2
<1> QED BY <1>2, <1>5, <1>7, <1>8, <1>9, <1>10 DEF IInv

\* The lists that are left of MonitorRedis begin with what they are about.
LEMMA Lists ==
  ASSUME NEW m \in MasterNames, NEW h \in Hosts
  PROVE  /\ \A n : ToMonitor(m, h) # <<SetPassword(n)>>
         /\ ToMonitor(m, h) \in Seq(Command) /\ <<SetPassword(m)>> \in Seq(Command)
<1>1. Head(ToMonitor(m, h)) = Monitor(m, h)
  BY ShortLists DEF ToMonitor
<1>2. \A n : Head(<<SetPassword(n)>>) = SetPassword(n) /\ SetPassword(n) # Monitor(m, h)
  BY ShortLists, Words
<1>3. Monitor(m, h) \in Command /\ SetPassword(m) \in Command
  BY CommandsIn
<1>4. ToMonitor(m, h) \in Seq(Command) /\ <<SetPassword(m)>> \in Seq(Command)
  BY <1>3 DEF ToMonitor
<1>5. ASSUME NEW n
      PROVE  ToMonitor(m, h) # <<SetPassword(n)>>
  <2>1. SUFFICES ASSUME ToMonitor(m, h) = <<SetPassword(n)>>
                 PROVE  FALSE
    OBVIOUS
  <2>2. Head(ToMonitor(m, h)) = Head(<<SetPassword(n)>>)
    BY <2>1
  <2> QED BY <1>1, <1>2, <2>2
<1> QED BY <1>4, <1>5

\* After REMOVE the call is about to send MONITOR, whatever became of it.
LEMMA RemoveKeeps ==
  ASSUME IInv, NEW c \in Callers, Working(c), NEW x, x = Head(calls[c].todo),
         x.cmd = "remove", Carried(x), GoOn(c), late' \in {late, late \cup {x}}
  PROVE  IInv'
<1>1. TypeOK /\ CallsTyped /\ LateTyped /\ AloneInv /\ RoleAnswered
  BY DEF IInv
<1>2. calls[c].op = "monitor"
  BY <1>1, EntriesKept
<1>3. PICK m \in MasterNames, h \in Hosts :
        /\ m = calls[c].target /\ h = calls[c].host /\ x = Remove(m)
        /\ Len(calls[c].todo) # 1 /\ Tail(calls[c].todo) = ToMonitor(m, h)
  <2> DEFINE m == calls[c].target
             h == calls[c].host
  <2>1. "remove" # "monitor" /\ "remove" # "set"
    OBVIOUS
  <2>2. /\ m \in MasterNames /\ h \in Hosts /\ x = Remove(m)
        /\ Len(calls[c].todo) # 1 /\ Tail(calls[c].todo) = ToMonitor(m, h)
    BY <1>1, <1>2, <2>1, Monitoring, Words
  <2> HIDE DEF m, h
  <2>3. \E n \in MasterNames, g \in Hosts :
          /\ n = m /\ g = h /\ x = Remove(n)
          /\ Len(calls[c].todo) # 1 /\ Tail(calls[c].todo) = ToMonitor(n, g)
    BY <2>2
  <2> QED BY <2>3 DEF m, h
<1>4. /\ UNCHANGED asked /\ calls'[c].op = "monitor" /\ calls'[c].target = m
      /\ calls'[c].host = h /\ calls'[c].alone = calls[c].alone
      /\ calls'[c].todo = ToMonitor(m, h)
      /\ \A d \in Callers : d # c => calls'[d] = calls[d]
      /\ Doing(calls'[c]) => CallsTyped'
  BY <1>1, <1>2, <1>3, TailFields, Lists
<1>5. CallsTyped'
  BY <1>4 DEF Doing
<1>6. AtMonitor(c, m)'
  BY <1>4 DEF AtMonitor, ToMonitor
<1>7. x \in Sent /\ late' \subseteq late \cup {x}
  BY <1>3, CommandsIn
<1>8. LateTyped'
  BY <1>1, <1>4, <1>7 DEF LateTyped
<1>9. /\ UNCHANGED redis /\ sentinel'[m] \in {Nothing, sentinel[m]}
      /\ \A n \in MasterNames : n # m => sentinel'[n] = sentinel[n]
  BY <1>1, <1>3, RemoveDoes DEF Carried
<1>10. TypeOK'
  <2>1. x \in Command
    BY <1>7, CommandsIn
  <2>2. sentinel' \in [MasterNames -> Entry \cup {Nothing}] /\ redis' \in Redis
    BY <1>1, <2>1, ServersTyped DEF Carried
  <2>3. Typed'
    BY <1>1, <1>4, <1>5, <1>8, <2>2 DEF Typed, LateTyped, TypeOK
  <2> QED BY <2>3, TypesFrom, PTL
<1>11. AloneInv'
  <2>1. \A n : ~AtPassword(c, n)'
    BY <1>4, Lists DEF AtPassword, SetPassword
  <2>2. Alone(c)' => Alone(c)
    BY <1>4 DEF Alone
  <2>3. Alone(c) => \A y \in late' : y.cmd = "remove"
    BY <1>1, <1>7 DEF AloneInv
  <2> QED BY <1>1, <1>4, <2>1, <2>2, <2>3, AloneKept
<1>12. Answered(m)'
  <2>1. ~AtPassword(c, m)
    BY <1>3, ShortLists, Words DEF AtPassword
  <2>2. \A d \in Callers :
          AtPassword(d, m) => AtPassword(d, m)' /\ calls'[d].host = calls[d].host
    BY <1>4, <2>1 DEF AtPassword
  <2> QED BY <1>4, <1>6, <1>9, <2>2 DEF IInv, Answered
<1>13. ASSUME NEW n \in MasterNames, n # m
       PROVE  Answered(n)'
  <2>1. EntryKept(n)
    BY <1>9, <1>13 DEF EntryKept
  <2> QED BY <1>3, <1>4, <1>13, <2>1, AnsweredKept DEF IInv
<1>14. RoleAnswered'
  BY <1>1, <1>4, <1>9 DEF RoleAnswered
<1> QED BY <1>5, <1>8, <1>10, <1>11, <1>12, <1>13, <1>14 DEF IInv

\* MONITOR is accepted, and the password is to be set.
LEMMA MonitorGoesOn ==
  ASSUME IInv, NEW c \in Callers, Working(c), NEW x, x = Head(calls[c].todo),
         calls[c].op = "monitor", Len(calls[c].todo) # 1, x.cmd # "remove",
         Accepts(x), CarryOut(x), GoOn(c), UNCHANGED late
  PROVE  IInv'
<1>1. TypeOK /\ CallsTyped /\ LateTyped /\ AloneInv /\ RoleAnswered
  BY DEF IInv
<1>2. PICK m \in MasterNames, h \in Hosts :
        /\ m = calls[c].target /\ h = calls[c].host /\ x = Monitor(m, h)
        /\ calls[c].todo = ToMonitor(m, h) /\ Tail(calls[c].todo) = <<SetPassword(m)>>
        /\ Password # NoPassword
  <2> DEFINE m == calls[c].target
             h == calls[c].host
  <2>1. /\ m \in MasterNames /\ h \in Hosts /\ x = Monitor(m, h)
        /\ calls[c].todo = ToMonitor(m, h) /\ Tail(calls[c].todo) = <<SetPassword(m)>>
        /\ Password # NoPassword
    BY <1>1, Monitoring, Words
  <2> HIDE DEF m, h
  <2>2. \E n \in MasterNames, g \in Hosts :
          /\ n = m /\ g = h /\ x = Monitor(n, g)
          /\ calls[c].todo = ToMonitor(n, g) /\ Tail(calls[c].todo) = <<SetPassword(n)>>
          /\ Password # NoPassword
    BY <2>1
  <2> QED BY <2>2 DEF m, h
<1>3. /\ UNCHANGED asked /\ calls'[c].op = "monitor" /\ calls'[c].target = m
      /\ calls'[c].host = h /\ calls'[c].alone = calls[c].alone
      /\ calls'[c].todo = <<SetPassword(m)>>
      /\ \A d \in Callers : d # c => calls'[d] = calls[d]
      /\ Doing(calls'[c]) => CallsTyped'
  BY <1>1, <1>2, TailFields, Lists
<1>4. CallsTyped'
  BY <1>2, <1>3 DEF Doing
<1>5. AtPassword(c, m)'
  BY <1>3 DEF AtPassword, SetPassword
<1>6. LateTyped'
  BY <1>1, <1>3 DEF LateTyped
<1>7. /\ UNCHANGED redis /\ sentinel'[m].host = h /\ sentinel'[m] # Nothing
      /\ sentinel' \in [MasterNames -> Entry \cup {Nothing}]
      /\ \A n \in MasterNames : n # m => sentinel'[n] = sentinel[n]
  <2> DEFINE e == [host |-> h, params |-> Unset]
  <2>1. e \in Entry /\ e.host = h
    BY NewEntry
  <2>2. /\ UNCHANGED redis /\ sentinel'[m] = e
        /\ sentinel' \in [MasterNames -> Entry \cup {Nothing}]
        /\ \A n \in MasterNames : n # m => sentinel'[n] = sentinel[n]
    BY <1>1, <1>2, MonitorDoes
  <2> HIDE DEF e
  <2> QED BY <2>1, <2>2, Names
<1>8. TypeOK'
  <2>1. Typed'
    BY <1>1, <1>3, <1>4, <1>6, <1>7 DEF Typed, LateTyped, TypeOK
  <2> QED BY <2>1, TypesFrom, PTL
<1>9. AloneInv'
  <2>1. \A n \in MasterNames : AtPassword(c, n)' => n = m
    BY <1>3 DEF AtPassword
  <2>2. Alone(c)' => Alone(c)
    BY <1>3 DEF Alone
  <2> QED BY <1>1, <1>3, <1>7, <2>1, <2>2, AloneKept DEF AloneInv
<1>10. Answered(m)'
  BY <1>3, <1>5, <1>7 DEF Answered
<1>11. ASSUME NEW n \in MasterNames, n # m
       PROVE  Answered(n)'
  <2>1. EntryKept(n)
    BY <1>7, <1>11 DEF EntryKept
  <2> QED BY <1>2, <1>3, <1>11, <2>1, AnsweredKept DEF IInv
<1>12. RoleAnswered'
  BY <1>1, <1>3, <1>7 DEF RoleAnswered
<1> QED BY <1>4, <1>6, <1>8, <1>9, <1>10, <1>11, <1>12 DEF IInv

----------------------------------------------------------------------------
\* The configurations of a call that is alone.

\* One configuration more is in force.
LEMMA ConfiguredNext ==
  ASSUME NEW before, NEW configs, NEW n \in Nat
  PROVE  Configured(before, configs, n + 1) =
           [Configured(before, configs, n) EXCEPT ![configs[n + 1].param] = configs[n + 1].value]
<1> SUFFICES ASSUME NEW p \in DOMAIN before
             PROVE  Configured(before, configs, n + 1)[p] =
                      IF p = configs[n + 1].param THEN configs[n + 1].value
                      ELSE Configured(before, configs, n)[p]
  <2> DEFINE f == Configured(before, configs, n)
             g == Configured(before, configs, n + 1)
             q == configs[n + 1].param
             v == configs[n + 1].value
  <2>1. /\ f = [p \in DOMAIN before |-> f[p]] /\ DOMAIN f = DOMAIN before
        /\ g = [p \in DOMAIN before |-> g[p]] /\ DOMAIN g = DOMAIN before
    BY DEF Configured
  <2>2. \A p \in DOMAIN before : g[p] = IF p = q THEN v ELSE f[p]
    OBVIOUS
  <2> HIDE DEF f, g, q, v
  <2>3. g = [f EXCEPT ![q] = v]
    BY <2>1, <2>2
  <2> QED BY <2>3 DEF f, g, q, v
<1> DEFINE S(k) == {i \in 1 .. k : configs[i].param = p}
           last(s) == CHOOSE i \in s : \A j \in s : j <= i
           V(s) == IF s = {} THEN before[p] ELSE configs[last(s)].value
<1>1. /\ Configured(before, configs, n + 1)[p] = V(S(n + 1))
      /\ Configured(before, configs, n)[p] = V(S(n))
  BY DEF Configured
<1>2. CASE p = configs[n + 1].param
  <2>1. n + 1 \in S(n + 1) /\ \A j \in S(n + 1) : j <= n + 1 /\ j \in Nat
    BY <1>2
  <2>2. \A i \in S(n + 1) : (\A j \in S(n + 1) : j <= i) => i = n + 1
    BY <2>1
  <2> HIDE DEF S
  <2>3. last(S(n + 1)) = n + 1
    BY <2>1, <2>2
  <2>4. S(n + 1) # {}
    BY <2>1
  <2> HIDE DEF last
  <2>5. V(S(n + 1)) = configs[n + 1].value
    BY <2>3, <2>4
  <2> QED BY <1>1, <1>2, <2>5
<1>3. CASE p # configs[n + 1].param
  <2>1. S(n + 1) = S(n)
    BY <1>3
  <2> HIDE DEF S, V
  <2>2. V(S(n + 1)) = V(S(n))
    BY <2>1
  <2> QED BY <1>1, <1>3, <2>2
<1> QED BY <1>2, <1>3

\* What it is about to send.
LEMMA NextConfig ==
  ASSUME CallsTyped, NEW c \in Callers, Working(c), calls[c].op = "config", Applied(calls[c])
  PROVE  LET call == calls[c]
             y == call.configs[SoFar(call) + 1]
         IN  /\ SoFar(call) \in Nat /\ SoFar(call) + 1 <= Len(call.configs)
             /\ call.target \in Targets
             /\ y = Malformed => Head(call.todo) = BadConfig
             /\ y # Malformed =>
                  /\ y.param \in Params /\ y.value \in Values
                  /\ Head(call.todo) =
                       IF call.target = TheRedis THEN ConfigSet(y.param, y.value)
                       ELSE Set(call.target, y.param, y.value)
<1> DEFINE call == calls[c]
           n == SoFar(call)
           y == call.configs[n + 1]
           t == call.target
           k == Len(call.configs)
           configs == call.configs
<1>1. /\ t \in Targets /\ Head(call.todo) = call.todo[1] /\ configs \in ConfigLists
      /\ k \in Nat /\ Len(call.todo) \in 1 .. k
  BY Configuring
<1>2. n \in Nat /\ n + 1 \in 1 .. k /\ n + 1 <= k /\ 1 \in 1 .. Len(call.todo)
  <2> DEFINE l == Len(call.todo)
  <2>1. k \in Nat /\ l \in 1 .. k /\ n = k - l
    BY <1>1 DEF SoFar
  <2> HIDE DEF k, l, n
  <2>2. n \in Nat /\ n + 1 \in 1 .. k /\ n + 1 <= k /\ 1 \in 1 .. l
    BY <2>1
  <2> QED BY <2>2 DEF l
<1>3. call.todo[1] = CommandsFor(t, configs)[n + 1]
  BY <1>2 DEF Applied
<1>4. configs \in [1 .. k -> Config \cup {Malformed}] /\ DOMAIN configs = 1 .. k
  BY <1>1, ConfigListLen
<1> HIDE DEF n, t, configs, k
<1>5. y \in Config \cup {Malformed} /\ y = configs[n + 1]
  BY <1>2, <1>4 DEF configs
<1>6. CommandsFor(t, configs)[n + 1] =
        IF y = Malformed THEN BadConfig
        ELSE IF t = TheRedis THEN ConfigSet(y.param, y.value) ELSE Set(t, y.param, y.value)
  <2>1. /\ SetCustomRedisConfig(configs)[n + 1] =
             IF y = Malformed THEN BadConfig ELSE ConfigSet(y.param, y.value)
        /\ SetCustomSentinelConfig(t, configs)[n + 1] =
             IF y = Malformed THEN BadConfig ELSE Set(t, y.param, y.value)
    BY <1>2, <1>4, <1>5 DEF SetCustomRedisConfig, SetCustomSentinelConfig, SetCustomConfig
  <2> QED BY <2>1 DEF CommandsFor
<1>7. y # Malformed => y.param \in Params /\ y.value \in Values
  BY <1>5 DEF Config
<1> QED BY <1>1, <1>2, <1>3, <1>6, <1>7 DEF n, t, configs, k

LEMMA AppliedNext ==
  ASSUME TypeOK, CallsTyped, NEW c \in Callers, Working(c), calls[c].op = "config",
         NEW t, t = calls[c].target,
         Applied(calls[c]), Accepts(Head(calls[c].todo)), CarryOut(Head(calls[c].todo))
  PROVE  LET call == calls[c]
             n == SoFar(call)
         IN  /\ call.configs[n + 1] # Malformed
             /\ ParamsOf(t)' = Configured(call.before, call.configs, n + 1)
<1> DEFINE call == calls[c]
           n == SoFar(call)
           y == call.configs[n + 1]
           x == Head(call.todo)
<1>1. /\ n \in Nat /\ t \in Targets
      /\ y = Malformed => x = BadConfig
      /\ y # Malformed =>
           /\ y.param \in Params /\ y.value \in Values
           /\ x = IF t = TheRedis THEN ConfigSet(y.param, y.value) ELSE Set(t, y.param, y.value)
  BY NextConfig
<1>2. ParamsOf(t) = Configured(call.before, call.configs, n)
  BY DEF Applied
<1>3. Accepts(x) /\ CarryOut(x)
  OBVIOUS
<1> HIDE DEF n, x
<1>4. y # Malformed
  BY <1>1, <1>3, ResetDoes
<1>5. Configured(call.before, call.configs, n + 1) =
        [Configured(call.before, call.configs, n) EXCEPT ![y.param] = y.value]
  BY <1>1, ConfiguredNext
<1> HIDE DEF y
<1>6. CASE t = TheRedis
  <2>1. redis'.params = [redis.params EXCEPT ![y.param] = y.value]
    BY <1>1, <1>3, <1>4, <1>6, ConfigDoes
  <2>2. ParamsOf(t) = redis.params /\ ParamsOf(t)' = redis'.params
    BY <1>6 DEF ParamsOf
  <2> QED BY <1>2, <1>4, <1>5, <2>1, <2>2 DEF n, y
<1>7. CASE t # TheRedis
  <2>1. t \in MasterNames /\ y.param \in Params \cup {AuthPass} /\ y.param # AuthPass
        /\ y.value \in Values \cup {Password}
    BY <1>1, <1>4, <1>7, Names
  <2>2. Accepts(Set(t, y.param, y.value)) /\ CarryOut(Set(t, y.param, y.value))
    BY <1>1, <1>3, <1>4, <1>7
  <2>3. sentinel[t] # Nothing /\ sentinel'[t] # Nothing
        /\ sentinel'[t].params = [sentinel[t].params EXCEPT ![y.param] = y.value]
    BY <2>1, <2>2, SetDoes
  <2>4. ParamsOf(t) = sentinel[t].params
    BY <1>7, <2>3 DEF ParamsOf
  <2> QED BY <1>2, <1>4, <1>5, <1>7, <2>3, <2>4 DEF ParamsOf, n, y
<1> QED BY <1>6, <1>7

\* One configuration is in force, and more are to come.
LEMMA ConfigGoesOn ==
  ASSUME IInv, NEW c \in Callers, Working(c), NEW x, x = Head(calls[c].todo),
         calls[c].op = "config", Len(calls[c].todo) # 1,
         Accepts(x), CarryOut(x), GoOn(c), UNCHANGED late
  PROVE  IInv'
<1>1. TypeOK /\ CallsTyped /\ LateTyped /\ AloneInv /\ RoleAnswered
  BY DEF IInv
<1>2. PICK t \in Targets : t = calls[c].target
  BY <1>1, Configuring
<1>3. /\ calls[c].configs \in ConfigLists /\ Len(calls[c].configs) \in Nat
      /\ Len(calls[c].todo) \in 1 .. Len(calls[c].configs)
      /\ Tail(calls[c].todo) \in Seq(ConfigCommand(t))
      /\ Len(Tail(calls[c].todo)) = Len(calls[c].todo) - 1
      /\ \A i \in 1 .. Len(Tail(calls[c].todo)) : Tail(calls[c].todo)[i] = calls[c].todo[i + 1]
  BY <1>1, <1>2, Configuring
<1>4. Tail(calls[c].todo) \in Seq(Command)
  <2>1. ConfigCommand(t) \subseteq Command
    BY CommandsIn
  <2> QED BY <1>3, <2>1
<1>5. /\ UNCHANGED asked /\ calls'[c].op = "config" /\ calls'[c].target = t
      /\ calls'[c].configs = calls[c].configs /\ calls'[c].before = calls[c].before
      /\ calls'[c].alone = calls[c].alone
      /\ calls'[c].todo = Tail(calls[c].todo)
      /\ \A d \in Callers : d # c => calls'[d] = calls[d]
      /\ Doing(calls'[c]) => CallsTyped'
  BY <1>1, <1>2, <1>4, TailFields
<1>6. CallsTyped'
  <2> DEFINE l == Len(calls[c].todo)
             k == Len(calls[c].configs)
  <2>1. k \in Nat /\ l \in 1 .. k /\ l # 1
    BY <1>3
  <2> HIDE DEF l, k
  <2>2. l - 1 \in 1 .. k
    BY <2>1
  <2>3. Len(Tail(calls[c].todo)) \in 1 .. Len(calls[c].configs)
    BY <1>3, <2>2 DEF l, k
  <2> QED BY <1>3, <1>5, <2>3 DEF Doing
<1>7. LateTyped'
  BY <1>1, <1>5 DEF LateTyped
<1>8. /\ \A m \in MasterNames : EntryKept(m)
      /\ redis'.master = redis.master
  BY <1>1, EntriesKept DEF Carried
<1>9. TypeOK'
  <2>1. sentinel' \in [MasterNames -> Entry \cup {Nothing}] /\ redis' \in Redis
    BY <1>1, HeadTyped, ServersTyped
  <2>2. Typed'
    BY <1>1, <1>5, <1>6, <1>7, <2>1 DEF Typed, LateTyped, TypeOK
  <2> QED BY <2>2, TypesFrom, PTL
<1>10. ASSUME Alone(c)
       PROVE  Applied(calls[c])'
  <2>1. Applied(calls[c])
    BY <1>1, <1>10 DEF AloneInv
  <2> DEFINE configs == calls[c].configs
             all == CommandsFor(t, configs)
             n == SoFar(calls[c])
             l == Len(calls[c].todo)
             rest == Tail(calls[c].todo)
  <2>2. /\ configs[n + 1] # Malformed
        /\ ParamsOf(t)' = Configured(calls[c].before, configs, n + 1)
    BY <1>1, <1>2, <2>1, AppliedNext
  <2>3. /\ \A i \in 1 .. l : calls[c].todo[i] = all[n + i]
        /\ \A i \in 1 .. n : configs[i] # Malformed
    BY <1>2, <2>1 DEF Applied
  <2>4. l \in Nat /\ n \in Nat
    BY <1>1, <1>3, <2>1, NextConfig
  <2>5. SoFar(calls'[c]) = n + 1 /\ Len(calls'[c].todo) = l - 1 /\ calls'[c].todo = rest
    <3> DEFINE k == Len(configs)
    <3>1. n = k - l /\ SoFar(calls'[c]) = k - Len(rest) /\ Len(rest) = l - 1
          /\ Len(calls'[c].todo) = l - 1 /\ calls'[c].todo = rest
      BY <1>3, <1>5 DEF SoFar
    <3>2. k \in Nat
      BY <1>3
    <3> HIDE DEF n, k, l, rest
    <3>3. k - (l - 1) = (k - l) + 1
      BY <2>4, <3>2
    <3> QED BY <3>1, <3>3
  <2>6. Len(rest) = l - 1 /\ \A i \in 1 .. Len(rest) : rest[i] = calls[c].todo[i + 1]
    BY <1>3
  <2> HIDE DEF all, n, l, configs, rest
  <2>7. \A i \in 1 .. (l - 1) : rest[i] = all[(n + 1) + i]
    <3>1. SUFFICES ASSUME NEW i \in 1 .. (l - 1)
                   PROVE  rest[i] = all[(n + 1) + i]
      OBVIOUS
    <3>2. i + 1 \in 1 .. l /\ n + (i + 1) = (n + 1) + i
      BY <2>4
    <3>3. calls[c].todo[i + 1] = all[n + (i + 1)]
      BY <2>3, <3>2
    <3> QED BY <2>6, <3>2, <3>3
  <2>8. \A i \in 1 .. (n + 1) : configs[i] # Malformed
    BY <2>2, <2>3, <2>4
  <2>9. ParamsOf(calls[c].target)' = ParamsOf(t)'
    BY <1>5 DEF ParamsOf
  <2>10. calls'[c].target = t /\ calls'[c].configs = configs /\ calls'[c].before = calls[c].before
    BY <1>5 DEF configs
  <2> QED BY <2>2, <2>5, <2>7, <2>8, <2>9, <2>10 DEF Applied, all
<1>11. AloneInv'
  <2>1. \A n : ~AtPassword(c, n)'
    BY <1>5 DEF AtPassword
  <2>2. Alone(c)' => Alone(c)
    BY <1>5 DEF Alone
  <2>3. Alone(c) => \A y \in late : FALSE
    BY <1>1 DEF AloneInv
  <2> QED BY <1>1, <1>5, <1>10, <2>1, <2>2, <2>3, AloneKept
<1>12. ASSUME NEW m \in MasterNames
       PROVE  Answered(m)'
  BY <1>5, <1>8, AnsweredKept DEF IInv
<1>13. RoleAnswered'
  BY <1>1, <1>5, <1>8 DEF RoleAnswered
<1> QED BY <1>6, <1>7, <1>9, <1>11, <1>12, <1>13 DEF IInv

\* The last command of a call is accepted.
LEMMA SucceedKeeps ==
  ASSUME IInv, NEW c \in Callers, Working(c), NEW x, x = Head(calls[c].todo),
         Len(calls[c].todo) = 1, Accepts(x), CarryOut(x), End(c, FALSE), UNCHANGED late
  PROVE  IInv'
<1>1. TypeOK /\ CallsTyped /\ LateTyped /\ AloneInv /\ RoleAnswered /\ x \in Command
  BY HeadTyped DEF IInv
<1>2. /\ ~Working(c)' /\ \A d \in Callers : d # c => calls'[d] = calls[d]
      /\ CallsTyped'
      /\ asked' \in [Targets -> SUBSET (Hosts \cup {NoHost})]
      /\ \A t \in Targets :
           calls[c].op \notin {"monitor", "role"} \/ t # calls[c].target => asked'[t] = asked[t]
      /\ calls[c].op \in {"monitor", "role"} =>
           asked'[calls[c].target] = IF calls[c].alone THEN {calls[c].host}
                                     ELSE IF asked[calls[c].target] = {} THEN {}
                                     ELSE asked[calls[c].target] \cup {calls[c].host}
      /\ \A y \in late : y.cmd = "monitor" => asked'[y.name] = {}
  BY <1>1, EndFields
<1>3. LateTyped'
  BY <1>1, <1>2 DEF LateTyped
<1>4. TypeOK'
  <2>1. sentinel' \in [MasterNames -> Entry \cup {Nothing}] /\ redis' \in Redis
    BY <1>1, ServersTyped
  <2>2. Typed'
    BY <1>2, <1>3, <2>1 DEF Typed, LateTyped
  <2> QED BY <2>2, TypesFrom, PTL
<1>5. AloneInv'
  BY <1>1, <1>2, AloneKept DEF Alone
<1>6. CASE calls[c].op # "monitor"
  <2>1. \A m \in MasterNames : EntryKept(m)
    BY <1>1, <1>6, EntriesKept DEF Carried
  <2>2. \A m \in MasterNames : m \in Targets /\ asked'[m] = asked[m]
    <3>1. calls[c].op = "role" => calls[c].target \notin MasterNames
      BY <1>1, OthersSend, Names
    <3> QED BY <1>2, <1>6, <3>1, Names
  <2>3. ASSUME NEW m \in MasterNames
        PROVE  Answered(m)'
    BY <1>2, <1>6, <2>1, <2>2, AnsweredKept DEF IInv
  <2>4. RoleAnswered'
    <3>1. CASE calls[c].op = "role"
      <4>1. PICK h \in Hosts \cup {NoHost} :
              h = calls[c].host /\ x = SlaveOf(h) /\ calls[c].target = TheRedis
        BY <1>1, <3>1, OthersSend
      <4>2. redis'.master = h
        BY <1>1, <4>1, SlaveOfDoes
      <4> QED BY <1>2, <3>1, <4>1, <4>2 DEF RoleAnswered
    <3>2. CASE calls[c].op # "role"
      BY <1>1, <1>2, <1>6, <3>2, EntriesKept, Names DEF RoleAnswered, Carried
    <3> QED BY <3>1, <3>2
  <2> QED BY <1>2, <1>3, <1>4, <1>5, <2>3, <2>4 DEF IInv
<1>7. CASE calls[c].op = "monitor"
  <2>1. PICK m \in MasterNames, h \in Hosts :
          /\ m = calls[c].target /\ h = calls[c].host
          /\ \/ x = Monitor(m, h) /\ Password = NoPassword
             \/ x = SetPassword(m) /\ calls[c].todo = <<SetPassword(m)>>
    <3> DEFINE m == calls[c].target
               h == calls[c].host
    <3>1. /\ m \in MasterNames /\ h \in Hosts
          /\ \/ x = Monitor(m, h) /\ Password = NoPassword
             \/ x = SetPassword(m) /\ calls[c].todo = <<SetPassword(m)>>
      BY <1>1, <1>7, Monitoring
    <3> HIDE DEF m, h
    <3>2. \E n \in MasterNames, g \in Hosts :
            /\ n = m /\ g = h
            /\ \/ x = Monitor(n, g) /\ Password = NoPassword
               \/ x = SetPassword(n) /\ calls[c].todo = <<SetPassword(n)>>
      BY <3>1
    <3> QED BY <3>2 DEF m, h
  <2>2. /\ UNCHANGED redis
        /\ \A n \in MasterNames : n # m => sentinel'[n] = sentinel[n]
    BY <1>1, <2>1, MonitorDoes, PasswordDoes DEF SetPassword
  <2>3. /\ m \in Targets
        /\ asked'[m] \in {{h}, {}, asked[m] \cup {h}}
        /\ ~calls[c].alone => asked'[m] = {} \/ (asked[m] # {} /\ asked'[m] = asked[m] \cup {h})
        /\ asked'[m] = {} \/ h \in asked'[m]
    BY <1>2, <1>7, <2>1, Names
  <2>4. ASSUME x = Monitor(m, h) /\ Password = NoPassword
        PROVE  Answered(m)'
    <3> DEFINE e == [host |-> h, params |-> Unset]
    <3>1. e \in Entry /\ e.host = h
      BY NewEntry
    <3>2. sentinel'[m] = e
      BY <1>1, <2>4, MonitorDoes
    <3> HIDE DEF e
    <3> QED BY <2>3, <2>4, <3>1, <3>2, Names DEF Answered
  <2>5. ASSUME x = SetPassword(m) /\ calls[c].todo = <<SetPassword(m)>>
        PROVE  Answered(m)'
    <3>1. /\ sentinel[m] # Nothing /\ sentinel'[m] # Nothing
          /\ sentinel'[m].params[AuthPass] = Password /\ sentinel'[m].host = sentinel[m].host
      BY <1>1, <2>5, PasswordDoes DEF SetPassword, EntryKept
    <3>2. AtPassword(c, m)
      BY <1>7, <2>1, <2>5 DEF AtPassword
    <3>3. ASSUME asked'[m] # {}
          PROVE  \/ sentinel'[m].host \in asked'[m]
                 \/ \E d \in Callers : AtPassword(d, m)' /\ calls'[d].host = sentinel'[m].host
      <4>1. CASE calls[c].alone
        <5>1. sentinel[m].host = h
          BY <1>1, <2>1, <3>1, <3>2, <4>1 DEF AloneInv, Alone
        <5> QED BY <2>3, <3>1, <3>3, <5>1
      <4>2. CASE ~calls[c].alone
        <5>1. asked[m] # {} /\ asked'[m] = asked[m] \cup {h}
          BY <2>3, <3>3, <4>2
        <5>2. \/ sentinel[m].host \in asked[m]
              \/ \E d \in Callers : AtPassword(d, m) /\ calls[d].host = sentinel[m].host
          BY <3>1, <5>1 DEF IInv, Answered
        <5>3. \A d \in Callers : d # c /\ AtPassword(d, m) =>
                AtPassword(d, m)' /\ calls'[d].host = calls[d].host
          BY <1>2 DEF AtPassword
        <5> QED BY <2>1, <3>1, <5>1, <5>2, <5>3
      <4>3. calls[c].alone \in BOOLEAN
        BY <1>1, CallFields
      <4> QED BY <4>1, <4>2, <4>3
    <3> QED BY <3>1, <3>3 DEF Answered
  <2>6. ASSUME NEW n \in MasterNames, n # m
        PROVE  Answered(n)'
    <3>1. EntryKept(n)
      BY <2>2, <2>6 DEF EntryKept
    <3> QED BY <1>2, <2>1, <2>6, <3>1, AnsweredKept, Names DEF IInv
  <2>7. RoleAnswered'
    BY <1>1, <1>2, <2>1, <2>2, Names DEF RoleAnswered
  <2> QED BY <1>2, <1>3, <1>4, <1>5, <2>1, <2>4, <2>5, <2>6, <2>7 DEF IInv
<1> QED BY <1>6, <1>7

LEMMA StepKeeps ==
  ASSUME IInv, NEW c \in Callers, Accepted(c) \/ Refused(c) \/ GivenUp(c)
  PROVE  IInv'
<1> DEFINE x == Head(calls[c].todo)
<1>1. /\ Working(c)
      /\ \/ Accepts(x) /\ CarryOut(x) /\ GoOn(c) /\ UNCHANGED late
         \/ /\ x.cmd = "remove" /\ Carried(x) /\ GoOn(c)
            /\ late' \in {late, late \cup {x}}
         \/ /\ x.cmd # "remove" /\ Carried(x) /\ End(c, TRUE)
            /\ late' \in {late, late \cup ({x} \ {Reset})}
            /\ late' # late => x.cmd # "malformed"
  BY StepCases
<1>2. calls[c].op \in {"monitor", "config", "role", "reset"}
      /\ (calls[c].op \in {"role", "reset"} => Len(calls[c].todo) = 1)
  BY <1>1, HeadTyped, OthersSend DEF IInv
<1> HIDE DEF x
<1>3. CASE x.cmd # "remove" /\ Accepts(x) /\ CarryOut(x) /\ GoOn(c) /\ UNCHANGED late
  <2>1. CASE Len(calls[c].todo) = 1
    <3>1. End(c, FALSE)
      BY <1>3, <2>1 DEF GoOn
    <3> QED BY <1>1, <1>3, <2>1, <3>1, SucceedKeeps DEF x
  <2>2. CASE Len(calls[c].todo) # 1 /\ calls[c].op = "monitor"
    BY <1>1, <1>3, <2>2, MonitorGoesOn DEF x
  <2>3. CASE Len(calls[c].todo) # 1 /\ calls[c].op = "config"
    BY <1>1, <1>3, <2>3, ConfigGoesOn DEF x
  <2> QED BY <1>2, <2>1, <2>2, <2>3
<1>4. CASE x.cmd = "remove" /\ Carried(x) /\ GoOn(c) /\ late' \in {late, late \cup {x}}
  BY <1>1, <1>4, RemoveKeeps DEF x
<1>5. CASE /\ x.cmd # "remove" /\ Carried(x) /\ End(c, TRUE)
           /\ late' \in {late, late \cup ({x} \ {Reset})}
           /\ late' # late => x.cmd # "malformed"
  BY <1>1, <1>5, FailKeeps DEF x
<1> QED BY <1>1, <1>3, <1>4, <1>5 DEF Carried

----------------------------------------------------------------------------
\* A call begins.

LEMMA ConfigTodo ==
  ASSUME NEW t \in Targets, NEW configs \in ConfigLists
  PROVE  LET todo == CommandsFor(t, configs)
         IN  /\ todo \in Seq(ConfigCommand(t)) /\ todo \in Seq(Command)
             /\ Len(todo) = Len(configs) /\ Len(configs) \in Nat \ {0}
<1> DEFINE todo == CommandsFor(t, configs)
           n == Len(configs)
<1>1. /\ configs \in [1 .. n -> Config \cup {Malformed}] /\ DOMAIN configs = 1 .. n
      /\ n \in Nat \ {0}
  BY ConfigListLen
<1> HIDE DEF n
<1>2. todo \in [1 .. n -> ConfigCommand(t)]
  <2>1. CASE t = TheRedis
    BY <1>1, <2>1 DEF CommandsFor, SetCustomRedisConfig, SetCustomConfig, ConfigCommand, Config
  <2>2. CASE t # TheRedis
    BY <1>1, <2>2 DEF CommandsFor, SetCustomSentinelConfig, SetCustomConfig, ConfigCommand, Config
  <2> QED BY <2>1, <2>2
<1> HIDE DEF todo
<1>3. todo \in Seq(ConfigCommand(t)) /\ Len(todo) = n
  BY <1>1, <1>2, SeqOfLength
<1>4. ConfigCommand(t) \subseteq Command
  BY CommandsIn
<1> QED BY <1>1, <1>3, <1>4 DEF todo, n

LEMMA OrderTyped ==
  ASSUME NEW order \in Orders
  PROVE  /\ order.op \in {"monitor", "config", "role", "reset"}
         /\ order.target \in Targets \cup {Nothing}
         /\ order.host \in Hosts \cup {NoHost} /\ order.configs \in ConfigLists \cup {<<>>}
         /\ order.todo \in Seq(Command) /\ Doing(order)
         /\ \A n : order.todo # <<SetPassword(n)>>
         /\ order.op = "config" =>
              /\ order.configs \in ConfigLists /\ order.target \in Targets
              /\ order.todo = CommandsFor(order.target, order.configs)
<1> DEFINE Fine ==
      /\ order.op \in {"monitor", "config", "role", "reset"}
      /\ order.target \in Targets \cup {Nothing}
      /\ order.host \in Hosts \cup {NoHost} /\ order.configs \in ConfigLists \cup {<<>>}
      /\ order.todo \in Seq(Command) /\ Doing(order)
      /\ \A n : order.todo # <<SetPassword(n)>>
      /\ order.op = "config" =>
           /\ order.configs \in ConfigLists /\ order.target \in Targets
           /\ order.todo = CommandsFor(order.target, order.configs)
<1>1. ASSUME NEW m \in MasterNames, NEW h \in Hosts,
             order = Order("monitor", m, h, <<>>, MonitorRedis(m, h))
      PROVE  Fine
  <2> DEFINE todo == MonitorRedis(m, h)
  <2>1. todo \in Seq(Command)
    <3>1. /\ Remove(m) \in Command /\ Monitor(m, h) \in Command /\ SetPassword(m) \in Command
      BY CommandsIn
    <3>2. /\ <<Remove(m), Monitor(m, h)>> \in Seq(Command)
          /\ <<Remove(m), Monitor(m, h), SetPassword(m)>> \in Seq(Command)
      BY <3>1
    <3> QED BY <3>2, MonitorSends
  <2>2. ASSUME NEW n
        PROVE  todo # <<SetPassword(n)>>
    <3>1. Head(todo) = Remove(m) /\ Head(<<SetPassword(n)>>) = SetPassword(n)
      BY MonitorSends, ShortLists
    <3>2. Remove(m) # SetPassword(n)
      BY Words
    <3> HIDE DEF todo
    <3> QED BY <3>1, <3>2
  <2> HIDE DEF todo
  <2>3. /\ order.op = "monitor" /\ order.target = m /\ order.host = h /\ order.configs = <<>>
        /\ order.todo = todo
    BY <1>1 DEF Order, todo
  <2>4. Doing(order)
    BY <2>3 DEF Doing, todo
  <2> QED BY <2>1, <2>2, <2>3, <2>4, Names
<1>2. ASSUME NEW t \in Targets, NEW cs \in ConfigLists, NEW todo,
             todo = CommandsFor(t, cs),
             order = Order("config", t, NoHost, cs, todo)
      PROVE  Fine
  <2>1. /\ order.op = "config" /\ order.target = t /\ order.host = NoHost /\ order.configs = cs
        /\ order.todo = todo
    BY <1>2 DEF Order
  <2>2. /\ todo \in Seq(ConfigCommand(t)) /\ todo \in Seq(Command)
        /\ Len(todo) = Len(cs) /\ Len(cs) \in Nat \ {0}
    BY <1>2, ConfigTodo
  <2>3. ASSUME NEW n
        PROVE  todo # <<SetPassword(n)>>
    <3>1. Head(<<SetPassword(n)>>) = SetPassword(n) /\ Head(todo) = todo[1]
      BY ShortLists
    <3>2. todo[1] \in ConfigCommand(t)
      BY <2>2, ElementOfSeq
    <3>3. SetPassword(n) \notin ConfigCommand(t)
      BY Names DEF ConfigCommand, SetPassword, Set, BadConfig, ConfigSet
    <3> QED BY <3>1, <3>2, <3>3
  <2>4. Len(todo) \in 1 .. Len(cs)
    <3> DEFINE k == Len(cs)
    <3>1. k \in Nat \ {0}
      BY <2>2
    <3> HIDE DEF k
    <3>2. k \in 1 .. k
      BY <3>1
    <3> QED BY <2>2, <3>2 DEF k
  <2>5. Doing(order)
    BY <2>1, <2>2, <2>4 DEF Doing
  <2> QED BY <1>2, <2>1, <2>2, <2>3, <2>5
<1>3. ASSUME NEW h \in Hosts \cup {NoHost}, order = Order("role", TheRedis, h, <<>>, <<SlaveOf(h)>>)
      PROVE  Fine
  <2>1. /\ order.op = "role" /\ order.target = TheRedis /\ order.host = h /\ order.configs = <<>>
        /\ order.todo = <<SlaveOf(h)>>
    BY <1>3 DEF Order
  <2>2. <<SlaveOf(h)>> \in Seq(Command)
    BY CommandsIn
  <2>3. ASSUME NEW n
        PROVE  <<SlaveOf(h)>> # <<SetPassword(n)>>
    BY DEF SlaveOf, SetPassword, Set
  <2>4. Doing(order)
    BY <2>1 DEF Doing
  <2> QED BY <2>1, <2>2, <2>3, <2>4, Names
<1>4. ASSUME order = Order("reset", Nothing, NoHost, <<>>, <<Reset>>)
      PROVE  Fine
  <2>1. /\ order.op = "reset" /\ order.target = Nothing /\ order.host = NoHost
        /\ order.configs = <<>> /\ order.todo = <<Reset>>
    BY <1>4 DEF Order
  <2>2. <<Reset>> \in Seq(Command)
    BY CommandsIn
  <2>3. ASSUME NEW n
        PROVE  <<Reset>> # <<SetPassword(n)>>
    BY DEF Reset, SetPassword, Set
  <2>4. Doing(order)
    BY <2>1 DEF Doing
  <2> QED BY <2>1, <2>2, <2>3, <2>4
<1> DEFINE Monitors == {Order("monitor", m, h, <<>>, MonitorRedis(m, h)) : m \in MasterNames, h \in Hosts}
           Configs == {Order("config", m, NoHost, cs, SetCustomSentinelConfig(m, cs))
                         : m \in MasterNames, cs \in ConfigLists}
           OfRedis == {Order("config", TheRedis, NoHost, cs, SetCustomRedisConfig(cs)) : cs \in ConfigLists}
           Roles == {Order("role", TheRedis, h, <<>>, MakeSlaveOf(h)) : h \in Hosts}
<1>5. CASE order \in Monitors
  <2>1. PICK m \in MasterNames, h \in Hosts : order = Order("monitor", m, h, <<>>, MonitorRedis(m, h))
    BY <1>5
  <2> QED BY <1>1, <2>1
<1>6. CASE order \in Configs
  <2>1. PICK m \in MasterNames, cs \in ConfigLists :
          order = Order("config", m, NoHost, cs, SetCustomSentinelConfig(m, cs))
    BY <1>6
  <2>2. m \in Targets /\ SetCustomSentinelConfig(m, cs) = CommandsFor(m, cs)
    BY Names DEF CommandsFor
  <2> QED BY <1>2, <2>1, <2>2
<1>7. CASE order \in OfRedis
  <2>1. PICK cs \in ConfigLists : order = Order("config", TheRedis, NoHost, cs, SetCustomRedisConfig(cs))
    BY <1>7
  <2>2. TheRedis \in Targets /\ SetCustomRedisConfig(cs) = CommandsFor(TheRedis, cs)
    BY Names DEF CommandsFor
  <2> QED BY <1>2, <2>1, <2>2
<1>8. CASE order \in Roles
  <2>1. PICK h \in Hosts : order = Order("role", TheRedis, h, <<>>, <<SlaveOf(h)>>)
    BY <1>8 DEF MakeSlaveOf
  <2> QED BY <1>3, <2>1
<1>9. CASE order = Order("role", TheRedis, NoHost, <<>>, MakeMaster)
  <2>1. order = Order("role", TheRedis, NoHost, <<>>, <<SlaveOf(NoHost)>>)
    BY <1>9 DEF MakeMaster
  <2> QED BY <1>3, <2>1
<1>10. CASE order = Order("reset", Nothing, NoHost, <<>>, ResetSentinel)
  BY <1>4, <1>10 DEF ResetSentinel
<1>11. \/ order \in Monitors \/ order \in Configs \/ order \in OfRedis \/ order \in Roles
       \/ order = Order("role", TheRedis, NoHost, <<>>, MakeMaster)
       \/ order = Order("reset", Nothing, NoHost, <<>>, ResetSentinel)
  BY DEF Orders
<1> HIDE DEF Monitors, Configs, OfRedis, Roles
<1> QED BY <1>5, <1>6, <1>7, <1>8, <1>9, <1>10, <1>11

LEMMA CallKeeps ==
  ASSUME IInv, NEW c \in Callers, NEW order \in Orders, Call(c, order)
  PROVE  IInv'
<1>1. TypeOK /\ CallsTyped /\ LateTyped /\ AloneInv /\ RoleAnswered
  BY DEF IInv
<1>2. ~Working(c) /\ UNCHANGED <<sentinel, redis, late, asked>>
  BY DEF Call, Working
<1> DEFINE t == order.target
           new == [op |-> order.op, target |-> t, host |-> order.host,
                   configs |-> order.configs, todo |-> order.todo, alone |-> AtRest,
                   before |-> IF order.op = "config" THEN ParamsOf(t) ELSE <<>>]
           other(d) == IF calls[d].op = "idle" THEN calls[d] ELSE [calls[d] EXCEPT !.alone = FALSE]
<1>3. calls' = [d \in Callers |-> IF d = c THEN new ELSE other(d)]
  BY DEF Call
<1>4. t \in Targets => ParamsOf(t) \in Before
  BY <1>1, EntryFields, Names DEF ParamsOf, Before, Unset, TypeOK, Redis, Targets
<1>5. AtRest \in BOOLEAN
  BY DEF AtRest
<1>6. new \in Busy /\ Doing(new) /\ new.op # "idle"
  <2>1. Doing(order) => Doing(new)
    BY DEF Doing
  <2>2. (IF order.op = "config" THEN ParamsOf(t) ELSE <<>>) \in Before
    BY <1>4, OrderTyped DEF Before
  <2>3. new \in Busy
    BY <1>5, <2>2, OrderTyped DEF Busy
  <2> QED BY <2>1, <2>3, OrderTyped
<1>7. ASSUME NEW d \in Callers
      PROVE  /\ ~Working(d) => other(d) = calls[d]
             /\ Working(d) => /\ other(d) \in Busy /\ Doing(other(d)) /\ other(d).alone = FALSE
                              /\ other(d).op = calls[d].op /\ other(d).target = calls[d].target
                              /\ other(d).host = calls[d].host /\ other(d).todo = calls[d].todo
  <2>1. CASE Working(d)
    <3> DEFINE call == calls[d]
               e == [call EXCEPT !.alone = FALSE]
    <3>1. call \in Busy /\ Doing(call) /\ other(d) = e
      BY <1>1, <2>1, CallFields DEF Working
    <3>2. e \in Busy /\ e.alone = FALSE /\ e.op = call.op /\ e.target = call.target
          /\ e.host = call.host /\ e.todo = call.todo /\ e.configs = call.configs
      BY <3>1 DEF Busy
    <3> HIDE DEF e, call
    <3>3. Doing(e)
      BY <3>1, <3>2 DEF Doing
    <3> HIDE DEF other
    <3> QED BY <2>1, <3>1, <3>2, <3>3 DEF call
  <2>2. CASE ~Working(d)
    BY <2>2 DEF Working
  <2> QED BY <2>1, <2>2
<1>8. new.alone = AtRest /\ new.todo = order.todo
  OBVIOUS
<1>9. order.op = "config" =>
        /\ new.op = "config" /\ new.target = t /\ new.configs = order.configs
        /\ new.before = ParamsOf(t)
  OBVIOUS
<1> HIDE DEF new, other
<1>10. /\ calls'[c] = new
       /\ \A d \in Callers : d # c => calls'[d] = other(d)
  BY <1>3
<1>11. \A d \in Callers : d # c => (Working(d)' <=> Working(d))
  BY <1>7, <1>10 DEF Working
<1>12. CallsTyped'
  <2>1. \A d \in Callers : other(d) \in Busy \cup Ended
    BY <1>1, <1>7 DEF CallsTyped
  <2>2. calls' \in [Callers -> Busy \cup Ended]
    BY <1>3, <1>6, <2>1
  <2>3. \A d \in Callers : Working(d)' => Doing(calls'[d])
    BY <1>6, <1>7, <1>10, <1>11
  <2> QED BY <2>2, <2>3 DEF CallsTyped
<1>13. LateTyped'
  BY <1>1, <1>2 DEF LateTyped
<1>14. TypeOK'
  <2>1. Typed'
    BY <1>1, <1>2, <1>12, <1>13 DEF Typed, LateTyped, TypeOK
  <2> QED BY <2>1, TypesFrom, PTL
<1>15. ASSUME NEW m \in MasterNames
       PROVE  Answered(m)'
  <2>1. \A d \in Callers : AtMonitor(d, m) => AtMonitor(d, m)'
    <3>1. SUFFICES ASSUME NEW d \in Callers, AtMonitor(d, m)
                   PROVE  AtMonitor(d, m)'
      OBVIOUS
    <3>2. Working(d) /\ d # c
      BY <1>2, <3>1 DEF Working, AtMonitor
    <3> QED BY <1>7, <1>10, <3>1, <3>2 DEF AtMonitor, ToMonitor
  <2>2. \A d \in Callers : AtPassword(d, m) => AtPassword(d, m)' /\ calls'[d].host = calls[d].host
    <3>1. SUFFICES ASSUME NEW d \in Callers, AtPassword(d, m)
                   PROVE  AtPassword(d, m)' /\ calls'[d].host = calls[d].host
      OBVIOUS
    <3>2. Working(d) /\ d # c
      BY <1>2, <3>1 DEF Working, AtPassword
    <3> QED BY <1>7, <1>10, <3>1, <3>2 DEF AtPassword
  <2> QED BY <1>2, <2>1, <2>2 DEF IInv, Answered
<1>16. RoleAnswered'
  BY <1>1, <1>2 DEF RoleAnswered
<1>17. AtRest /\ order.op = "config" => Applied(calls[c])'
  <2>1. SUFFICES ASSUME order.op = "config"
                 PROVE  Applied(calls[c])'
    OBVIOUS
  <2> DEFINE configs == order.configs
             all == CommandsFor(t, configs)
  <2>2. /\ t \in Targets /\ configs \in ConfigLists /\ order.todo = all
        /\ Len(all) = Len(configs) /\ Len(configs) \in Nat
    BY <2>1, OrderTyped, ConfigTodo
  <2>3. /\ calls'[c].target = t /\ calls'[c].configs = configs /\ calls'[c].todo = all
        /\ calls'[c].before = ParamsOf(t)
    BY <1>8, <1>9, <1>10, <2>1, <2>2
  <2>4. ParamsOf(t) = Configured(ParamsOf(t), configs, 0)
    <3> DEFINE p == ParamsOf(t)
    <3>1. p = [a \in DOMAIN p |-> p[a]]
      BY <1>1, <2>2, EntryFields DEF ParamsOf, Unset, TypeOK, Redis, Targets
    <3> HIDE DEF p
    <3>2. \A a : {i \in 1 .. 0 : configs[i].param = a} = {}
      OBVIOUS
    <3>3. Configured(p, configs, 0) = [a \in DOMAIN p |-> p[a]]
      BY <3>2 DEF Configured
    <3> QED BY <3>1, <3>3 DEF p
  <2>5. ParamsOf(t)' = ParamsOf(t)
    BY <1>2 DEF ParamsOf
  <2> HIDE DEF all
  <2>6. SoFar(calls'[c]) = 0
    BY <2>2, <2>3 DEF SoFar
  <2>7. ParamsOf(calls[c].target)' = ParamsOf(t)
    BY <1>2, <2>3 DEF ParamsOf
  <2>8. \A i \in 1 .. Len(all) : all[i] = all[0 + i]
    OBVIOUS
  <2>9. \A i \in 1 .. 0 : FALSE
    OBVIOUS
  <2> QED BY <2>3, <2>4, <2>6, <2>7, <2>8, <2>9 DEF Applied, all
<1>18. AloneInv'
  <2>1. SUFFICES ASSUME NEW e \in Callers, Alone(e)'
                 PROVE  /\ \A d \in Callers : Working(d)' => d = e
                        /\ \A x \in late' : calls'[e].op = "monitor" /\ x.cmd = "remove"
                        /\ \A m \in MasterNames : AtPassword(e, m)' =>
                             sentinel'[m] = Nothing \/ sentinel'[m].host = calls'[e].host
                        /\ calls'[e].op = "config" => Applied(calls[e])'
    BY DEF AloneInv
  <2>2. e = c
    <3>1. SUFFICES ASSUME e # c
                   PROVE  FALSE
      OBVIOUS
    <3>2. Working(e) /\ calls'[e] = other(e) /\ calls'[e].alone
      BY <1>10, <1>11, <2>1, <3>1 DEF Alone
    <3> QED BY <1>7, <3>2
  <2>3. AtRest
    BY <1>8, <1>10, <2>1, <2>2 DEF Alone
  <2>4. \A d \in Callers : d # c => ~Working(d)'
    BY <1>11, <2>3 DEF AtRest, Working
  <2>5. late' = {}
    BY <1>2, <2>3 DEF AtRest
  <2>6. \A m \in MasterNames : ~AtPassword(c, m)'
    BY <1>8, <1>10, OrderTyped DEF AtPassword, SetPassword
  <2>7. calls'[c].op = "config" => Applied(calls[c])'
    <3>1. calls'[c].op = order.op
      BY <1>10 DEF new
    <3> QED BY <1>17, <2>3, <3>1
  <2> QED BY <2>2, <2>4, <2>5, <2>6, <2>7
<1> QED BY <1>12, <1>13, <1>14, <1>15, <1>16, <1>18 DEF IInv

----------------------------------------------------------------------------
\* A command arrives late.

LEMMA ArriveKeeps ==
  ASSUME IInv, NEW x \in late, Arrive(x)
  PROVE  IInv'
<1>1. TypeOK /\ CallsTyped /\ LateTyped /\ AloneInv /\ RoleAnswered
  BY DEF IInv
<1>2. x \in Sent /\ x \in Command
  BY <1>1, CommandsIn DEF LateTyped
<1>3. /\ UNCHANGED calls /\ late' \subseteq late /\ Carried(x)
      /\ asked' = CASE x.cmd = "remove" -> [asked EXCEPT ![x.name] = {}]
                    [] x.cmd = "slaveof" -> [asked EXCEPT ![TheRedis] = {}]
                    [] OTHER -> asked
  BY DEF Arrive, Carried
<1>4. /\ asked \in [Targets -> SUBSET (Hosts \cup {NoHost})]
      /\ asked' \in [Targets -> SUBSET (Hosts \cup {NoHost})]
      /\ \A t \in Targets : asked'[t] \in {asked[t], {}}
      /\ x.cmd = "remove" => asked'[x.name] = {}
      /\ x.cmd = "slaveof" => asked'[TheRedis] = {}
  <2>1. x.cmd = "remove" => x.name \in Targets
    BY <1>2, Commands, Names
  <2>2. asked \in [Targets -> SUBSET (Hosts \cup {NoHost})]
    BY <1>1 DEF TypeOK
  <2> QED BY <1>3, <2>1, <2>2, Names
<1>5. sentinel' \in [MasterNames -> Entry \cup {Nothing}] /\ redis' \in Redis
  BY <1>1, <1>2, <1>3, ServersTyped DEF Carried
\* What it does to each entry and to the role.
<1>6. /\ \A m \in MasterNames :
           \/ EntryKept(m)
           \/ /\ asked'[m] = {}
              /\ x.cmd = "remove" => sentinel'[m] = Nothing
      /\ redis'.master = redis.master \/ x.cmd = "slaveof"
  <2>1. UNCHANGED sentinel => \A m \in MasterNames : EntryKept(m)
    BY DEF EntryKept
  <2>2. \A m \in MasterNames : sentinel'[m] = sentinel[m] => EntryKept(m)
    BY DEF EntryKept
  <2>3. CASE UNCHANGED <<sentinel, redis>>
    BY <2>1, <2>3
  <2>4. CASE Accepts(x) /\ CarryOut(x)
    <3>1. ASSUME NEW m \in MasterNames, x = Remove(m), x.cmd = "remove", x.name = m
          PROVE  <1>6!:
      BY <1>1, <1>4, <2>2, <2>4, <3>1, RemoveDoes
    <3>2. ASSUME NEW m \in MasterNames, NEW h \in Hosts, x = Monitor(m, h),
                 x.cmd = "monitor", x.name = m
          PROVE  <1>6!:
      <4>1. asked[m] = {} /\ m \in Targets
        BY <1>1, <3>2, Names DEF LateTyped
      <4>2. /\ UNCHANGED redis
            /\ \A n \in MasterNames : n # m => sentinel'[n] = sentinel[n]
        BY <1>1, <2>4, <3>2, MonitorDoes
      <4>3. x.cmd # "remove" /\ asked'[m] = {}
        BY <1>4, <3>2, <4>1
      <4> QED BY <2>2, <4>2, <4>3
    <3>3. ASSUME NEW m \in MasterNames, NEW p \in Params \cup {AuthPass},
                 NEW v \in Values \cup {Password}, x = Set(m, p, v), p = AuthPass => v = Password
          PROVE  <1>6!:
      BY <1>1, <2>4, <3>3, SetDoes
    <3>4. ASSUME NEW p \in Params, NEW v \in Values, x = ConfigSet(p, v)
          PROVE  <1>6!:
      BY <1>1, <2>1, <2>4, <3>4, ConfigDoes
    <3>5. ASSUME NEW h \in Hosts \cup {NoHost}, x = SlaveOf(h), x.cmd = "slaveof"
          PROVE  <1>6!:
      BY <1>1, <2>1, <2>4, <3>5, SlaveOfDoes
    <3>6. x # Reset /\ x # BadConfig
      BY <1>2, SentIs DEF Reset, BadConfig
    <3> QED BY <1>2, <3>1, <3>2, <3>3, <3>4, <3>5, <3>6, Commands, Names
  <2> QED BY <1>3, <2>3, <2>4 DEF Carried
<1>7. CallsTyped'
  BY <1>1, <1>3 DEF CallsTyped, Working
<1>8. LateTyped'
  <2>1. ASSUME NEW y \in late, y.cmd = "monitor"
        PROVE  asked'[y.name] = {}
    <3>1. y \in Command /\ asked[y.name] = {}
      BY <1>1, <2>1, CommandsIn DEF LateTyped
    <3>2. y.name \in Targets
      BY <2>1, <3>1, Commands, Names
    <3> QED BY <1>4, <3>1, <3>2
  <2> QED BY <1>1, <1>3, <2>1 DEF LateTyped
<1>9. TypeOK'
  <2>1. Typed'
    BY <1>4, <1>5, <1>7, <1>8 DEF Typed, LateTyped
  <2> QED BY <2>1, TypesFrom, PTL
<1>10. AloneInv'
  <2>1. SUFFICES ASSUME NEW c \in Callers, Alone(c)'
                 PROVE  /\ \A d \in Callers : Working(d)' => d = c
                        /\ \A y \in late' : calls'[c].op = "monitor" /\ y.cmd = "remove"
                        /\ \A m \in MasterNames : AtPassword(c, m)' =>
                             sentinel'[m] = Nothing \/ sentinel'[m].host = calls'[c].host
                        /\ calls'[c].op = "config" => Applied(calls[c])'
    BY DEF AloneInv
  <2>2. Alone(c) /\ calls[c].op = "monitor" /\ x.cmd = "remove"
    BY <1>1, <1>3, <2>1 DEF AloneInv, Alone, Working
  <2>3. \A d \in Callers : Working(d)' => d = c
    BY <1>1, <1>3, <2>2 DEF AloneInv, Working
  <2>4. \A y \in late' : calls'[c].op = "monitor" /\ y.cmd = "remove"
    BY <1>1, <1>3, <2>2 DEF AloneInv
  <2>5. ASSUME NEW m \in MasterNames, AtPassword(c, m)'
        PROVE  sentinel'[m] = Nothing \/ sentinel'[m].host = calls'[c].host
    <3>1. AtPassword(c, m)
      BY <1>3, <2>5 DEF AtPassword
    <3>2. sentinel[m] = Nothing \/ sentinel[m].host = calls[c].host
      BY <1>1, <2>2, <3>1 DEF AloneInv
    <3> QED BY <1>3, <1>6, <2>2, <3>2 DEF EntryKept
  <2>6. calls'[c].op # "config"
    BY <1>3, <2>2
  <2> QED BY <2>3, <2>4, <2>5, <2>6
<1>11. ASSUME NEW m \in MasterNames
       PROVE  Answered(m)'
  <2>1. CASE asked'[m] = {}
    BY <2>1 DEF Answered
  <2>2. CASE EntryKept(m)
    <3>1. asked'[m] \in {asked[m], {}}
      BY <1>4, Names
    <3>2. \A d \in Callers : AtMonitor(d, m) => AtMonitor(d, m)'
      BY <1>3 DEF AtMonitor
    <3>3. \A d \in Callers : AtPassword(d, m) => AtPassword(d, m)' /\ calls'[d].host = calls[d].host
      BY <1>3 DEF AtPassword
    <3> QED BY <2>2, <3>1, <3>2, <3>3 DEF IInv, Answered, EntryKept
  <2> QED BY <1>6, <2>1, <2>2
<1>12. RoleAnswered'
  BY <1>1, <1>4, <1>6, Names DEF RoleAnswered
<1> QED BY <1>7, <1>8, <1>9, <1>10, <1>11, <1>12 DEF IInv

----------------------------------------------------------------------------
\* The theorems.

LEMMA InitHolds == Init => IInv
<1> SUFFICES ASSUME Init
             PROVE  IInv
  OBVIOUS
<1>1. /\ sentinel = [m \in MasterNames |-> Nothing] /\ late = {}
      /\ redis = [master |-> NoHost, params |-> [p \in Params |-> Default]]
      /\ calls = [c \in Callers |-> Idle(FALSE)] /\ asked = [t \in Targets |-> {}]
  BY DEF Init
<1>2. Idle(FALSE) \in Ended /\ \A c \in Callers : ~Working(c)
  BY <1>1 DEF Idle, Ended, Working
<1>3. CallsTyped /\ LateTyped /\ AloneInv
  BY <1>1, <1>2 DEF CallsTyped, LateTyped, AloneInv, Alone
<1>4. redis \in Redis
  BY <1>1 DEF Redis
<1>5. TypeOK
  <2>1. Typed
    BY <1>1, <1>3, <1>4 DEF Typed
  <2> QED BY <2>1, TypesFrom
<1>6. RoleAnswered /\ \A m \in MasterNames : Answered(m)
  BY <1>1, Names DEF RoleAnswered, Answered
<1> QED BY <1>3, <1>5, <1>6 DEF IInv

LEMMA StutterKeeps == IInv /\ UNCHANGED vars => IInv'
<1> SUFFICES ASSUME IInv, UNCHANGED vars
             PROVE  IInv'
  OBVIOUS
<1> USE DEF vars
<1>1. CallsTyped' /\ LateTyped' /\ RoleAnswered'
  BY DEF IInv, CallsTyped, LateTyped, RoleAnswered, Working
<1>2. TypeOK'
  BY DEF IInv, TypeOK
<1>3. \A c \in Callers, m \in MasterNames :
        (AtMonitor(c, m)' <=> AtMonitor(c, m)) /\ (AtPassword(c, m)' <=> AtPassword(c, m))
  BY DEF AtMonitor, AtPassword
<1>4. \A m \in MasterNames : Answered(m)'
  BY <1>3 DEF IInv, Answered
<1>5. \A c \in Callers : (Alone(c)' <=> Alone(c)) /\ (Working(c)' <=> Working(c))
  BY DEF Alone, Working
<1>6. \A c \in Callers : Applied(calls[c]) => Applied(calls[c])'
  BY DEF Applied, ParamsOf
<1>7. AloneInv'
  BY <1>3, <1>5, <1>6 DEF IInv, AloneInv
<1> QED BY <1>1, <1>2, <1>4, <1>7 DEF IInv

\* What is true of every state, and is kept by every step: the types, what a
\* call that is alone has done so far, and what is missing of what was asked for.
THEOREM ClientInvariant == Spec => []IInv
<1>1. IInv /\ [Next]_vars => IInv'
  <2> SUFFICES ASSUME IInv, [Next]_vars
               PROVE  IInv'
    OBVIOUS
  <2>1. CASE UNCHANGED vars
    BY <2>1, StutterKeeps
  <2>2. ASSUME NEW c \in Callers, Accepted(c) \/ Refused(c) \/ GivenUp(c)
        PROVE  IInv'
    BY <2>2, StepKeeps
  <2>3. ASSUME NEW c \in Callers, NEW order \in Orders, Call(c, order)
        PROVE  IInv'
    BY <2>3, CallKeeps
  <2>4. ASSUME NEW x \in late, Arrive(x)
        PROVE  IInv'
    BY <2>4, ArriveKeeps
  <2> QED BY <2>1, <2>2, <2>3, <2>4 DEF Next
<1> QED BY <1>1, InitHolds, PTL DEF Spec

\* Every call, every entry and every late command has its type.
THEOREM ClientTypes == Spec => []TypeOK
<1>1. IInv => TypeOK
  BY DEF IInv
<1> QED BY <1>1, ClientInvariant, PTL

\* Once everything has been answered, the sentinel monitors what it was asked
\* for, with the password, and the redis has the role it was asked for; calls
\* that ended in an error have made it unknown.
THEOREM AskedFor == Spec => []AsAsked
<1>1. IInv => AsAsked
  <2> SUFFICES ASSUME IInv, AtRest
               PROVE  /\ \A m \in MasterNames :
                           asked[m] # {} =>
                             /\ GetSentinelMonitor(m) \in asked[m]
                             /\ Password # NoPassword => sentinel[m].params[AuthPass] = Password
                      /\ asked[TheRedis] # {} => GetSlaveOf \in asked[TheRedis]
    BY DEF AsAsked
  <2>1. \A c \in Callers, m \in MasterNames : ~AtMonitor(c, m) /\ ~AtPassword(c, m)
    BY DEF AtRest, AtMonitor, AtPassword
  <2>2. ASSUME NEW m \in MasterNames, asked[m] # {}
        PROVE  /\ GetSentinelMonitor(m) \in asked[m]
               /\ Password # NoPassword => sentinel[m].params[AuthPass] = Password
    BY <2>1, <2>2 DEF IInv, Answered, GetSentinelMonitor
  <2> QED BY <2>2 DEF IInv, RoleAnswered, GetSlaveOf
<1> QED BY <1>1, ClientInvariant, PTL

\* What a call about configurations has done when it ends and was alone.
LEMMA EndsInOrder ==
  ASSUME IInv, NEW c \in Callers, NEW t \in Targets, [Next]_vars,
         calls[c].op = "config", calls[c].target = t, calls[c].alone, calls'[c].op = "idle"
  PROVE  LET call == calls[c] IN
         \E k \in 0 .. Len(call.configs) :
           /\ \A i \in 1 .. k : call.configs[i] # Malformed
           /\ ParamsOf(t)' = Configured(call.before, call.configs, k)
           /\ ~calls'[c].failed => k = Len(call.configs)
<1> DEFINE call == calls[c]
           n == SoFar(call)
           l == Len(call.configs)
           x == Head(call.todo)
<1>1. TypeOK /\ CallsTyped /\ LateTyped /\ AloneInv /\ Working(c) /\ Alone(c)
  BY DEF IInv, Working, Alone
<1>2. Applied(call)
  BY <1>1 DEF AloneInv
<1>3. n \in Nat /\ l \in Nat /\ n + 1 <= l
  BY <1>1, <1>2, NextConfig, Configuring
<1>4. /\ \A i \in 1 .. n : call.configs[i] # Malformed
      /\ ParamsOf(t) = Configured(call.before, call.configs, n)
  BY <1>2 DEF Applied
<1>5. x.cmd # "remove"
  <2>1. x \in ConfigCommand(t)
    BY <1>1, Configuring
  <2> QED BY <2>1, Names DEF ConfigCommand, BadConfig, ConfigSet, Set
\* Only a step of the call itself ends it.
<1>6. Accepted(c) \/ Refused(c) \/ GivenUp(c)
  <2>1. ASSUME NEW d \in Callers, d # c, Accepted(d) \/ Refused(d) \/ GivenUp(d)
        PROVE  calls'[c] = calls[c]
    <3>1. GoOn(d) \/ End(d, TRUE)
      BY <2>1, StepCases
    <3>2. calls \in [Callers -> Busy \cup Ended]
      BY <1>1 DEF CallsTyped
    <3> QED BY <2>1, <3>1, <3>2 DEF GoOn, End
  <2>2. ASSUME NEW d \in Callers, NEW order \in Orders, Call(d, order)
        PROVE  calls'[c].op = calls[c].op
    <3>1. calls[d].op = "idle" /\ d # c
      BY <2>2 DEF Call
    <3>2. calls[c] \in Busy
      BY <1>1, CallFields
    <3>3. calls'[c] = [calls[c] EXCEPT !.alone = FALSE]
      BY <2>2, <3>1 DEF Call
    <3> QED BY <3>2, <3>3 DEF Busy
  <2>3. ASSUME NEW y \in late, Arrive(y)
        PROVE  calls'[c] = calls[c]
    BY <2>3 DEF Arrive
  <2>4. UNCHANGED vars => calls'[c] = calls[c]
    BY DEF vars
  <2> QED BY <2>1, <2>2, <2>3, <2>4 DEF Next
<1>7. \/ Accepts(x) /\ CarryOut(x) /\ GoOn(c)
      \/ Carried(x) /\ End(c, TRUE)
  BY <1>5, <1>6, StepCases
<1>8. ASSUME Accepts(x), CarryOut(x)
      PROVE  /\ call.configs[n + 1] # Malformed
             /\ ParamsOf(t)' = Configured(call.before, call.configs, n + 1)
  BY <1>1, <1>2, <1>8, AppliedNext
<1>9. GoOn(c) => n + 1 = l
  <2>1. GoOn(c) /\ Len(call.todo) # 1 => calls'[c].op = calls[c].op
    <3>1. calls \in [Callers -> Busy \cup Ended] /\ calls[c] \in Busy
      BY <1>1, CallFields DEF CallsTyped
    <3> QED BY <3>1 DEF GoOn, Busy
  <2>2. GoOn(c) => Len(call.todo) = 1
    BY <2>1
  <2>3. n = l - Len(call.todo)
    BY DEF SoFar
  <2> HIDE DEF n, l
  <2>4. GoOn(c) => n = l - 1
    BY <2>2, <2>3
  <2> QED BY <1>3, <2>4
<1>10. End(c, TRUE) => calls'[c].failed
  <2>1. calls \in [Callers -> Busy \cup Ended]
    BY <1>1 DEF CallsTyped
  <2> QED BY <2>1 DEF End, Idle
<1> DEFINE Done(k) == /\ \A i \in 1 .. k : call.configs[i] # Malformed
                      /\ ParamsOf(t)' = Configured(call.before, call.configs, k)
                      /\ ~calls'[c].failed => k = Len(call.configs)
<1>11. CASE Accepts(x) /\ CarryOut(x) /\ (GoOn(c) \/ End(c, TRUE))
  <2> HIDE DEF n, l
  <2>1. \A i \in 1 .. (n + 1) : i \in 1 .. n \/ i = n + 1
    BY <1>3
  <2>2. n + 1 \in 0 .. l
    BY <1>3
  <2>3. Done(n + 1)
    BY <1>3, <1>4, <1>8, <1>9, <1>10, <1>11, <2>1 DEF l
  <2> QED BY <2>2, <2>3 DEF l
<1>12. CASE UNCHANGED <<sentinel, redis>> /\ End(c, TRUE)
  <2>1. n \in 0 .. l
    <3> HIDE DEF n, l
    <3> QED BY <1>3
  <2>2. ParamsOf(t)' = ParamsOf(t)
    BY <1>12 DEF ParamsOf
  <2> HIDE DEF n, l
  <2>3. Done(n)
    BY <1>4, <1>10, <1>12, <2>2
  <2> QED BY <2>1, <2>3 DEF l
<1> QED BY <1>7, <1>11, <1>12 DEF Carried

\* A list of configurations that no other call disturbs ends with all of them in
\* force, or with an error and a first part of them.
THEOREM ConfigsApplied == Spec => ConfigsInOrder
<1>1. IInv /\ [Next]_vars =>
        [\A c \in Callers, t \in Targets :
           LET call == calls[c]
           IN  call.op = "config" /\ call.target = t /\ call.alone /\ calls'[c].op = "idle" =>
                 \E k \in 0 .. Len(call.configs) :
                   /\ \A i \in 1 .. k : call.configs[i] # Malformed
                   /\ ParamsOf(t)' = Configured(call.before, call.configs, k)
                   /\ ~calls'[c].failed => k = Len(call.configs)]_vars
  BY EndsInOrder
<1> QED BY <1>1, ClientInvariant, PTL DEF Spec, ConfigsInOrder
=============================================================================
