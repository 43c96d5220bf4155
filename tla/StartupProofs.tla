--------------------------- MODULE StartupProofs ---------------------------
(***************************************************************************)
(* What main goes on with, for any mixture of settings, any cloud, and any *)
(* requests and constructors that fail.                                    *)
(***************************************************************************)
EXTENDS Startup, SequenceTheorems, FiniteSetTheorems, TLAPS

\* What validateConfig lets through: settings of their kinds and in range.
Accepted(c) ==
  /\ DOMAIN c = Settings
  /\ \A k \in Flags : c[k] \in BOOLEAN
  /\ \A k \in Times : c[k] \in Int
  /\ Validated(c)

Configured == phase \notin {"load", "exited"} => Accepted(globalConfig)

Listed ==
  phase \in {"detect", "running"} =>
    /\ Enabled # <<>>
    /\ Len(handlers) = Len(Enabled)
    /\ \A i \in 1..Len(Enabled) : handlers[i].name = Enabled[i]

Chosen ==
  phase = "running" =>
    /\ provider \in Range(Available)
    /\ provider \in Served \cup {"dummy"}
    /\ globalConfig.name # "" => provider = Folded(globalConfig.name)

StartupInv == StartupTypeOK /\ Configured /\ Listed /\ Chosen

LEMMA MergedAccepted ==
  ASSUME env \in Envs, file \in Files, Parsed(Merged), Validated(Merged)
  PROVE  Accepted(Merged)
<1>1. WellKinded(SetIn(env)) /\ WellKinded(file)
  BY SettingsAssumption
<1>2. DOMAIN Merged = Settings
  BY DEF Merged
<1>3. \A k \in Settings : Merged[k] = IF k \in DOMAIN SetIn(env) THEN SetIn(env)[k]
                                     ELSE IF k \in DOMAIN file THEN file[k] ELSE Defaults[k]
  BY DEF Merged
<1>4. Flags \subseteq Settings /\ Times \subseteq Settings
  BY DEF Flags, Times, Settings, Defaults
<1>5. /\ \A k \in Flags : Defaults[k] \in BOOLEAN
      /\ \A k \in Times : Defaults[k] \in Int
  BY DEF Flags, Times, Defaults
<1>6. \A k \in Flags : Merged[k] \in BOOLEAN
  BY <1>1, <1>3, <1>4, <1>5 DEF Parsed, WellKinded
<1>7. \A k \in Times : Merged[k] \in Int
  BY <1>1, <1>3, <1>4, <1>5 DEF Parsed, WellKinded
<1>8. QED
  BY <1>2, <1>6, <1>7 DEF Accepted

\* Appending a name that is not there yet keeps the names apart.
Distinct(s) == \A i, j \in 1..Len(s) : s[i] = s[j] => i = j

LEMMA AppendDistinct ==
  ASSUME NEW s \in Seq(HandlerNames), Distinct(s), NEW h \in HandlerNames,
         h \notin Range(s), NEW b \in BOOLEAN
  PROVE  /\ s \o IfSet(b, h) \in Seq(HandlerNames)
         /\ Distinct(s \o IfSet(b, h))
         /\ Range(s \o IfSet(b, h)) = Range(s) \cup (IF b THEN {h} ELSE {})
<1>1. CASE b
  <2>1. IfSet(b, h) = <<h>> /\ <<h>> \in Seq(HandlerNames)
    BY <1>1 DEF IfSet
  <2> DEFINE t == s \o <<h>>
  <2>2. t \in Seq(HandlerNames) /\ Len(t) = Len(s) + 1
    OBVIOUS
  <2>3. \A i \in 1..Len(t) : t[i] = IF i <= Len(s) THEN s[i] ELSE h
    OBVIOUS
  <2>4. \A i \in 1..Len(s) : s[i] # h
    BY DEF Range
  <2> HIDE DEF t
  <2>5. Distinct(t)
    BY <2>2, <2>3, <2>4 DEF Distinct
  <2>6. Range(t) = Range(s) \cup {h}
    <3>1. DOMAIN t = 1..(Len(s) + 1) /\ DOMAIN s = 1..Len(s) /\ Len(s) \in Nat
      BY <2>2
    <3>2. QED
      BY <2>2, <2>3, <3>1 DEF Range
  <2>7. QED
    BY <1>1, <2>1, <2>2, <2>5, <2>6 DEF t
<1>2. CASE ~b
  BY <1>2 DEF IfSet
<1>3. QED
  BY <1>1, <1>2

LEMMA EnabledHandlers ==
  ASSUME Accepted(globalConfig)
  PROVE  /\ Enabled \in Seq(HandlerNames)
         /\ Distinct(Enabled)
         /\ "dummy" \in Range(Enabled) <=> globalConfig.name = "dummy"
         /\ "kubernetes" \in Range(Enabled) => globalConfig.kubernetes
         /\ "nomad" \in Range(Enabled) => globalConfig.nomad
<1> DEFINE c == globalConfig
           d == c.name = "dummy"
           one == <<>> \o IfSet(d, "dummy")
           two == one \o IfSet(c.kubernetes, "kubernetes")
           three == two \o IfSet(c.telegram, "telegram")
<1>1. /\ c.kubernetes \in BOOLEAN /\ c.telegram \in BOOLEAN /\ c.nomad \in BOOLEAN
      /\ d \in BOOLEAN
  BY DEF Accepted, Flags
<1> HIDE DEF d, c
<1>2. /\ one \in Seq(HandlerNames) /\ Distinct(one)
      /\ Range(one) = IF d THEN {"dummy"} ELSE {}
  <2> DEFINE empty == <<>>
  <2>1. empty \in Seq(HandlerNames) /\ Distinct(empty) /\ Range(empty) = {}
    BY DEF Distinct, Range
  <2>2. "dummy" \in HandlerNames /\ "dummy" \notin Range(empty)
    BY <2>1 DEF HandlerNames
  <2> HIDE DEF empty
  <2>3. /\ empty \o IfSet(d, "dummy") \in Seq(HandlerNames)
        /\ Distinct(empty \o IfSet(d, "dummy"))
        /\ Range(empty \o IfSet(d, "dummy")) = Range(empty) \cup (IF d THEN {"dummy"} ELSE {})
    BY <1>1, <2>1, <2>2, AppendDistinct
  <2>4. QED
    BY <2>1, <2>3 DEF empty
<1>3. /\ two \in Seq(HandlerNames) /\ Distinct(two)
      /\ Range(two) = Range(one) \cup (IF c.kubernetes THEN {"kubernetes"} ELSE {})
  <2> HIDE DEF one
  <2>1. QED
    BY <1>1, <1>2, AppendDistinct DEF HandlerNames
<1>4. /\ three \in Seq(HandlerNames) /\ Distinct(three)
      /\ Range(three) = Range(two) \cup (IF c.telegram THEN {"telegram"} ELSE {})
  <2> HIDE DEF two
  <2>1. QED
    BY <1>1, <1>2, <1>3, AppendDistinct DEF HandlerNames
<1>5. Enabled = three \o IfSet(c.nomad, "nomad")
  BY DEF Enabled, IfSet, c, d
<1>6. /\ Enabled \in Seq(HandlerNames) /\ Distinct(Enabled)
      /\ Range(Enabled) = Range(three) \cup (IF c.nomad THEN {"nomad"} ELSE {})
  <2> HIDE DEF one, two, three
  <2>1. "nomad" \in HandlerNames /\ "nomad" \notin Range(three)
    BY <1>2, <1>3, <1>4 DEF HandlerNames
  <2>2. QED
    BY <1>1, <1>4, <1>5, <2>1, AppendDistinct
<1>7. /\ "dummy" \in Range(Enabled) <=> d
      /\ "kubernetes" \in Range(Enabled) => c.kubernetes
      /\ "nomad" \in Range(Enabled) => c.nomad
  <2> HIDE DEF one, two, three
  <2>1. QED
    BY <1>2, <1>3, <1>4, <1>6
<1>8. QED
  BY <1>6, <1>7 DEF c, d

LEMMA AvailableProviders ==
  /\ Len(Available) \in Nat /\ Len(Available) <= 6 /\ DOMAIN Available = 1..Len(Available)
  /\ Range(Available) \subseteq ProviderNames
  /\ "dummy" \in Range(Available) <=> globalConfig.name = "dummy"
<1>1. CASE globalConfig.name = "dummy"
  BY <1>1 DEF Available, IfSet, Range, ProviderNames, CloudProviders, Profile
<1>2. CASE globalConfig.name # "dummy"
  BY <1>2 DEF Available, IfSet, Range, ProviderNames, CloudProviders, Profile
<1>3. QED
  BY <1>1, <1>2

\* Without a hostname to be had, no provider says that it is supported.
LEMMA SupportedIsServed ==
  ASSUME NEW p, TRUE \in IsSupported(p)
  PROVE  p \in Served \cup {"dummy"}
<1>1. SUFFICES ASSUME p # "dummy" PROVE p \in Served
  OBVIOUS
<1>2. PICK answer \in HostnameAnswers(p) : answer # "error"
  BY <1>1 DEF IsSupported
<1>3. PICK reply \in Failures \cup (IF p \in Served THEN {"name"} ELSE {}) :
        \E token \in {"answered", "unreachable"} : answer = doMetadataRequest(p, token, reply)
  BY DEF HostnameAnswers
<1>4. reply \notin Failures
  BY <1>2, <1>3 DEF doMetadataRequest
<1>5. QED
  BY <1>3, <1>4

\* The types are kept by every step.
LEMMA TypesStep ==
  ASSUME StartupInv, [Next]_startupVars
  PROVE  StartupTypeOK'
<1> USE DEF StartupInv, StartupTypeOK, Exit
<1>1. CASE LoadConfig
  <2>1. CASE phase' = "exited"
    BY <1>1, <2>1 DEF LoadConfig
  <2>2. CASE phase' # "exited"
    <3>1. globalConfig' = Merged /\ DOMAIN Merged = Settings
      BY <1>1, <2>2 DEF LoadConfig, Merged
    <3>2. QED
      BY <1>1, <2>2, <3>1 DEF LoadConfig
  <2>3. QED
    BY <2>1, <2>2
<1>2. CASE setupLogger
  BY <1>2 DEF setupLogger
<1>3. CASE ParseDetectionWait
  BY <1>3 DEF ParseDetectionWait
<1>4. CASE RegisterHandlers
  <2>1. CASE Enabled = <<>>
    BY <1>4, <2>1 DEF RegisterHandlers
  <2>2. CASE Enabled # <<>>
    <3>1. Enabled \in Seq(HandlerNames)
      BY <1>4, EnabledHandlers DEF RegisterHandlers, Configured
    <3>2. PICK missing \in [HandlerNames -> BOOLEAN] :
             handlers' = [i \in DOMAIN Enabled |-> [name |-> Enabled[i], nil |-> missing[Enabled[i]]]]
      BY <1>4, <2>2 DEF RegisterHandlers
    <3>3. \A i \in 1..Len(Enabled) : Enabled[i] \in HandlerNames /\ missing[Enabled[i]] \in BOOLEAN
      BY <3>1
    <3>4. handlers' \in [1..Len(Enabled) -> [name : HandlerNames, nil : BOOLEAN]]
      BY <3>1, <3>2, <3>3
    <3>5. handlers' \in Seq([name : HandlerNames, nil : BOOLEAN])
      <4> DEFINE S == [name : HandlerNames, nil : BOOLEAN]
      <4> HIDE DEF S
      <4>1. handlers' \in [1..Len(Enabled) -> S] /\ Len(Enabled) \in Nat
        BY <3>1, <3>4 DEF S
      <4>2. handlers' \in Seq(S)
        BY <4>1, SeqDef
      <4>3. QED
        BY <4>2 DEF S
    <3>6. QED
      BY <1>4, <2>2, <3>5 DEF RegisterHandlers
  <2>3. QED
    BY <2>1, <2>2
<1>5. CASE DetectConfigured
  BY <1>5, AvailableProviders DEF DetectConfigured, Detected
<1>6. CASE AskNext
  <2>1. Len(Available) \in Nat /\ Len(Available) <= 6 /\ DOMAIN Available = 1..Len(Available)
    BY AvailableProviders
  <2>2. asked + 1 \in 1..Len(Available) /\ asked' \in 0..6
    <3>1. asked' = asked + 1 /\ asked < Len(Available) /\ asked \in 0..6
      BY <1>6 DEF AskNext
    <3> HIDE DEF StartupInv, StartupTypeOK
    <3>2. QED
      BY <2>1, <3>1
  <2>3. Available[asked + 1] \in ProviderNames
    BY <2>1, <2>2, AvailableProviders DEF Range
  <2>4. QED
    BY <1>6, <2>2, <2>3 DEF AskNext, Detected
<1>7. CASE GiveUp
  BY <1>7 DEF GiveUp
<1>8. CASE UNCHANGED startupVars
  BY <1>8 DEF startupVars
<1>9. QED
  BY <1>1, <1>2, <1>3, <1>4, <1>5, <1>6, <1>7, <1>8 DEF Next

\* The settings are those that were validated, the handlers those they enable.
LEMMA SettingsStep ==
  ASSUME StartupInv, [Next]_startupVars
  PROVE  Configured' /\ Listed'
<1> USE DEF StartupInv, StartupTypeOK, Exit, Configured, Listed
<1>1. CASE LoadConfig
  <2>1. CASE phase' = "exited"
    BY <2>1
  <2>2. CASE phase' # "exited"
    <3>1. globalConfig' = Merged /\ phase' = "logger" /\ Accepted(Merged)
      BY <1>1, <2>2, MergedAccepted DEF LoadConfig
    <3>2. QED
      BY <3>1
  <2>3. QED
    BY <2>1, <2>2
<1>2. CASE setupLogger
  BY <1>2 DEF setupLogger
<1>3. CASE ParseDetectionWait
  BY <1>3 DEF ParseDetectionWait
<1>4. CASE RegisterHandlers
  <2>1. CASE Enabled = <<>>
    BY <1>4, <2>1 DEF RegisterHandlers
  <2>2. CASE Enabled # <<>>
    <3>1. Accepted(globalConfig) /\ Enabled \in Seq(HandlerNames)
      BY <1>4, EnabledHandlers DEF RegisterHandlers
    <3>2. PICK missing \in [HandlerNames -> BOOLEAN] :
             handlers' = [i \in DOMAIN Enabled |-> [name |-> Enabled[i], nil |-> missing[Enabled[i]]]]
      BY <1>4, <2>2 DEF RegisterHandlers
    <3>3. globalConfig' = globalConfig /\ Enabled' = Enabled
      BY <1>4, <2>2 DEF RegisterHandlers, Enabled
    <3>4. Len(handlers') = Len(Enabled) /\ \A i \in 1..Len(Enabled) : handlers'[i].name = Enabled[i]
      BY <3>1, <3>2
    <3>5. QED
      BY <2>2, <3>1, <3>3, <3>4
  <2>3. QED
    BY <2>1, <2>2
<1>5. CASE \/ DetectConfigured \/ AskNext \/ GiveUp \/ UNCHANGED startupVars
  <2>1. /\ globalConfig' = globalConfig /\ handlers' = handlers
        /\ phase' \in {phase, "running", "exited"}
        /\ phase' = "running" => phase \in {"detect", "running"}
    BY <1>5 DEF DetectConfigured, AskNext, GiveUp, Detected, startupVars
  <2>2. Enabled' = Enabled
    BY <2>1 DEF Enabled
  <2>3. Configured'
    BY <2>1
  <2>4. Listed'
    BY <2>1, <2>2
  <2>5. QED
    BY <2>3, <2>4
<1>6. QED
  BY <1>1, <1>2, <1>3, <1>4, <1>5 DEF Next

\* The provider is one of those offered and supported, and the one named.
LEMMA ChosenStep ==
  ASSUME StartupInv, [Next]_startupVars
  PROVE  Chosen'
<1> USE DEF StartupInv, StartupTypeOK, Chosen
<1>1. CASE LoadConfig \/ setupLogger \/ ParseDetectionWait \/ RegisterHandlers \/ GiveUp
  BY <1>1 DEF LoadConfig, setupLogger, ParseDetectionWait, RegisterHandlers, GiveUp, Exit
<1>2. CASE DetectConfigured \/ AskNext \/ UNCHANGED startupVars
  <2>1. globalConfig' = globalConfig /\ cloud' = cloud
    BY <1>2 DEF DetectConfigured, AskNext, Detected, Exit, startupVars
  <2>2. Available' = Available /\ Served' = Served
    BY <2>1 DEF Available, Served
  <2>3. CASE DetectConfigured
    BY <2>1, <2>2, <2>3, SupportedIsServed DEF DetectConfigured, Detected, Exit
  <2>4. CASE AskNext
    <3>1. asked \in 0..6 /\ asked < Len(Available)
      BY <2>4 DEF AskNext
    <3>2. Available[asked + 1] \in Range(Available)
      <4> HIDE DEF StartupInv, StartupTypeOK, Chosen
      <4>1. asked + 1 \in DOMAIN Available
        BY <3>1, AvailableProviders
      <4>2. QED
        BY <4>1 DEF Range
    <3>3. QED
      BY <2>1, <2>2, <2>4, <3>2, SupportedIsServed DEF AskNext, Detected
  <2>5. CASE UNCHANGED startupVars
    BY <2>1, <2>2, <2>5 DEF startupVars
  <2>6. QED
    BY <1>2, <2>3, <2>4, <2>5
<1>3. QED
  BY <1>1, <1>2 DEF Next

LEMMA StartupInvHolds == Spec => []StartupInv
<1>1. StartupInit => StartupInv
  BY DEF StartupInit, StartupInv, StartupTypeOK, Configured, Listed, Chosen
<1>2. StartupInv /\ [Next]_startupVars => StartupInv'
  BY TypesStep, SettingsStep, ChosenStep DEF StartupInv
<1>3. QED
  BY <1>1, <1>2, PTL DEF Spec

\* The settings, the slice of handlers and the provider keep their types.
THEOREM StartupTypeCorrect == Spec => []StartupTypeOK
<1>1. StartupInv => StartupTypeOK
  BY DEF StartupInv
<1>2. QED
  BY <1>1, StartupInvHolds, PTL

LEMMA RegisteredIsEnabled ==
  ASSUME StartupInv, phase = "running"
  PROVE  /\ Accepted(globalConfig)
         /\ Enabled # <<>> /\ Enabled \in Seq(HandlerNames) /\ Len(handlers) = Len(Enabled)
         /\ Registered = Range(Enabled)
<1>1. Accepted(globalConfig)
  BY DEF StartupInv, Configured
<1>2. Enabled \in Seq(HandlerNames) /\ Len(handlers) = Len(Enabled)
  BY <1>1, EnabledHandlers DEF StartupInv, Listed
<1>3. DOMAIN handlers = DOMAIN Enabled /\ \A i \in DOMAIN handlers : handlers[i].name = Enabled[i]
  BY <1>2 DEF StartupInv, StartupTypeOK, Listed
<1>4. QED
  BY <1>1, <1>2, <1>3 DEF StartupInv, Listed, Registered, Range

\* What comes out of validateConfig and RegisterHandlers is what Broadcaster
\* and Window assume (main.go:42-100).
THEOREM AsAssumed == Spec => []RunsAsAssumed
<1>1. StartupInv => RunsAsAssumed
  <2>1. SUFFICES ASSUME StartupInv, phase = "running"
                 PROVE  RunsAsAssumed
    BY DEF RunsAsAssumed
  <2>2. /\ Accepted(globalConfig)
        /\ Enabled # <<>> /\ Enabled \in Seq(HandlerNames) /\ Distinct(Enabled)
        /\ Len(handlers) = Len(Enabled) /\ Registered = Range(Enabled)
    BY <2>1, RegisteredIsEnabled, EnabledHandlers
  <2>3. handlers # <<>>
    BY <2>2
  <2>4. Cardinality(Range(Enabled)) = Len(Enabled)
    <3>1. Enabled \in Bijection(1..Len(Enabled), Range(Enabled))
      BY <2>2 DEF Bijection, Injection, IsInjective, Surjection, Range, Distinct
    <3>2. ExistsBijection(1..Len(Enabled), Range(Enabled))
      BY <3>1 DEF ExistsBijection
    <3>3. QED
      BY <2>2, <3>2, FS_CountingElements
  <2>5. ~({"kubernetes", "nomad"} \subseteq Registered)
    BY <2>2, EnabledHandlers DEF Accepted, Validated
  <2>6. /\ globalConfig.poll \in 3..10
        /\ globalConfig.request \in 1..5
        /\ globalConfig.processing \in Int /\ globalConfig.processing <= 75
    BY <2>2 DEF Accepted, Validated, Times
  <2>7. QED
    BY <2>2, <2>3, <2>4, <2>5, <2>6 DEF RunsAsAssumed
<1>2. QED
  BY <1>1, StartupInvHolds, PTL

\* The dummy provider (main.go:88-90) and the dummy handler (handler.go:61-67)
\* come together or not at all, whatever else is configured.
THEOREM DummiesTogether == Spec => []DummyTogether
<1>1. StartupInv => DummyTogether
  <2>1. SUFFICES ASSUME StartupInv, phase = "running"
                 PROVE  provider = "dummy" <=> "dummy" \in Registered
    BY DEF DummyTogether
  <2>2. "dummy" \in Registered <=> globalConfig.name = "dummy"
    BY <2>1, RegisteredIsEnabled, EnabledHandlers
  <2>3. provider \in Range(Available) /\ (globalConfig.name # "" => provider = Folded(globalConfig.name))
    BY <2>1 DEF StartupInv, Chosen
  <2>4. QED
    BY <2>2, <2>3, AvailableProviders DEF Folded
<1>2. QED
  BY <1>1, StartupInvHolds, PTL

\* A provider that is named (main.go:165-179) is never replaced by another.
THEOREM NamedProviderKept == Spec => []ConfiguredNotReplaced
<1>1. StartupInv => ConfiguredNotReplaced
  BY DEF StartupInv, Chosen, ConfiguredNotReplaced
<1>2. QED
  BY <1>1, StartupInvHolds, PTL

-----------------------------------------------------------------------------
\* Auto-detection does find the cloud the process runs on, wherever no other
\* provider asks at that cloud's URL: DetectedIsHere fails on Huawei's only.
\* Where there is no cloud the process ends.
DetectedUnlessShared ==
  phase = "running" /\ globalConfig.name = "" =>
    /\ cloud # Nowhere
    /\ cloud \in {"huawei", "aws"} => provider \in {"aws", "huawei"}
    /\ cloud \notin {"huawei", "aws"} => provider = cloud

\* A nil pointer among the handlers is that of a client the machine did not
\* give, or of a bot whose token or chat is missing; a handler with both its
\* settings, and the dummy, is never one.
Missing ==
  phase \in {"detect", "running"} =>
    \A i \in DOMAIN handlers :
      /\ handlers[i].name = "dummy" => ~ handlers[i].nil
      /\ handlers[i].name = "telegram" =>
           (handlers[i].nil <=> {globalConfig.token, globalConfig.chat} \cap {"", Malformed} # {})

\* The steps main has before it at most.
Before == [load |-> 11, logger |-> 10, wait |-> 9, register |-> 8, detect |-> 7,
           running |-> 0, exited |-> 0]
StepsToStart == IF phase = "detect" THEN 7 - asked ELSE Before[phase]
Nearer == /\ StepsToStart \in 1..11
          /\ StepsToStart' \in 0..10
          /\ StepsToStart' < StepsToStart
StartRunsOut == [][Nearer]_startupVars

\* Asking is all the auto-detection does, so nobody is asked before its start.
Asking == phase \in {"load", "logger", "wait", "register"} => asked = 0

\* Which hostname URLs each cloud serves.
LEMMA WhoIsServed ==
  ASSUME cloud \in Clouds
  PROVE  /\ cloud = Nowhere => Served = {}
         /\ cloud \in {"huawei", "aws"} => Served = {"aws", "huawei"}
         /\ cloud \notin {"huawei", "aws", Nowhere} => Served = {cloud}
<1>1. CloudProviders = {"aws", "alicloud", "tencent", "gcp", "huawei"}
  BY DEF CloudProviders, Profile
<1>2. cloud \in CloudProviders \cup {Nowhere}
  BY CloudsAssumption
<1>3. CASE cloud = Nowhere
  BY <1>3 DEF Served, Nowhere
<1>4. CASE cloud \in {"aws", "huawei"}
  BY <1>1, <1>4 DEF Served, HostnameUrl, Nowhere
<1>5. CASE cloud \in {"alicloud", "tencent", "gcp"}
  BY <1>1, <1>5 DEF Served, HostnameUrl, Nowhere
<1>6. QED
  BY <1>1, <1>2, <1>3, <1>4, <1>5 DEF Nowhere

\* On any set of clouds and under any failures, the provider that is monitored
\* is that of the cloud, or of the other user of its hostname URL (main.go:168
\* and 190).
THEOREM ProviderServed == Spec => []OnlyServedProviders
<1>1. StartupInv => OnlyServedProviders
  <2> SUFFICES ASSUME StartupInv, phase = "running", provider # "dummy"
               PROVE  /\ provider \in Served
                      /\ provider = cloud \/ {provider, cloud} = {"aws", "huawei"}
    BY DEF OnlyServedProviders
  <2>1. provider \in Served
    BY DEF StartupInv, Chosen
  <2>2. cloud \in Clouds
    BY DEF StartupInv, StartupTypeOK
  <2>3. CASE cloud \in {"huawei", "aws"}
    BY <2>1, <2>2, <2>3, WhoIsServed
  <2>4. CASE cloud \notin {"huawei", "aws"}
    BY <2>1, <2>2, <2>4, WhoIsServed
  <2> QED
    BY <2>1, <2>3, <2>4
<1>2. QED
  BY <1>1, StartupInvHolds, PTL

\* However many requests fail, auto-detection (main.go:187-196) is right on every
\* cloud whose hostname URL no other provider uses, and finds one of the two
\* users where it is shared.
THEOREM DetectionRightElsewhere == Spec => []DetectedUnlessShared
<1>1. StartupInv => DetectedUnlessShared
  <2> SUFFICES ASSUME StartupInv, phase = "running", globalConfig.name = ""
               PROVE  /\ cloud # Nowhere
                      /\ cloud \in {"huawei", "aws"} => provider \in {"aws", "huawei"}
                      /\ cloud \notin {"huawei", "aws"} => provider = cloud
    BY DEF DetectedUnlessShared
  <2>1. provider \in Range(Available) /\ provider \in Served \cup {"dummy"}
    BY DEF StartupInv, Chosen
  <2>2. provider \in Served
    BY <2>1, AvailableProviders
  <2>3. cloud \in Clouds
    BY DEF StartupInv, StartupTypeOK
  <2> QED
    BY <2>2, <2>3, WhoIsServed
<1>2. QED
  BY <1>1, StartupInvHolds, PTL

\* The constructors decide which handlers are nil, and only RegisterHandlers
\* calls them.
LEMMA MissingStep ==
  ASSUME StartupInv, Missing, [Next]_startupVars
  PROVE  Missing'
<1>1. CASE RegisterHandlers
  <2>1. CASE Enabled = <<>>
    BY <1>1, <2>1 DEF RegisterHandlers, Exit, Missing
  <2>2. CASE Enabled # <<>>
    <3>1. PICK missing \in [HandlerNames -> BOOLEAN] :
             /\ \A h \in HandlerNames : missing[h] \in ClientMissing(h)
             /\ handlers' = [i \in DOMAIN Enabled |-> [name |-> Enabled[i], nil |-> missing[Enabled[i]]]]
      BY <1>1, <2>2 DEF RegisterHandlers
    <3>2. globalConfig' = globalConfig
      BY <1>1, <2>2 DEF RegisterHandlers
    <3>3. missing["dummy"] = FALSE
      BY <3>1 DEF ClientMissing, HandlerNames
    <3>4. missing["telegram"] <=> {globalConfig.token, globalConfig.chat} \cap {"", Malformed} # {}
      <4> DEFINE m == {globalConfig.token, globalConfig.chat} \cap {"", Malformed} # {}
      <4>1. "telegram" \in HandlerNames /\ ClientMissing("telegram") = {m}
        BY DEF HandlerNames, ClientMissing, NewTelegramHandler
      <4> HIDE DEF m
      <4>2. missing["telegram"] = m
        BY <3>1, <4>1
      <4> QED
        BY <4>2 DEF m
    <3>5. \A i \in DOMAIN handlers' :
             handlers'[i].name = Enabled[i] /\ handlers'[i].nil = missing[Enabled[i]]
      BY <3>1
    <3> QED
      BY <3>2, <3>3, <3>4, <3>5 DEF Missing
  <2> QED
    BY <2>1, <2>2
<1>2. CASE \/ LoadConfig \/ setupLogger \/ ParseDetectionWait
  BY <1>2 DEF LoadConfig, setupLogger, ParseDetectionWait, Exit, Missing
<1>3. CASE \/ DetectConfigured \/ AskNext \/ GiveUp \/ UNCHANGED startupVars
  <2>1. /\ globalConfig' = globalConfig /\ handlers' = handlers
        /\ phase' \in {"detect", "running"} => phase \in {"detect", "running"}
    BY <1>3 DEF DetectConfigured, AskNext, GiveUp, Detected, Exit, startupVars
  <2> QED
    BY <2>1 DEF Missing
<1>4. QED
  BY <1>1, <1>2, <1>3 DEF Next

\* What RegisterHandlers leaves nil (handler.go:61-106) is what Broadcaster's
\* Fallible may hold: never the dummy, and the Telegram handler exactly if its
\* token or its chat is missing, which validateConfig lets pass.
THEOREM NilHandlersKnown == Spec => []Missing
<1>1. StartupInit => Missing
  BY DEF StartupInit, Missing
<1>2. StartupInv /\ Missing /\ [Next]_startupVars => Missing'
  BY MissingStep
<1>3. QED
  BY <1>1, <1>2, StartupInvHolds, PTL DEF Spec

\* main gets to its goroutines, or to its exit, within eleven steps, however
\* the requests and the constructors end (main.go:36-100).
THEOREM StartupRunsOut == Spec => StartRunsOut
<1> DEFINE Inv == StartupInv /\ Asking
<1>1. StartupInit => Asking
  BY DEF StartupInit, Asking
<1>2. ASSUME Inv, [Next]_startupVars PROVE Asking'
  BY <1>2 DEF Asking, Next, LoadConfig, setupLogger, ParseDetectionWait, RegisterHandlers,
              DetectConfigured, AskNext, GiveUp, Detected, Exit, startupVars
<1>3. Spec => []Inv
  BY <1>1, <1>2, StartupInvHolds, PTL DEF Spec
<1>4. ASSUME Inv, Next PROVE Nearer
  <2> USE DEF Nearer
  <2>1. /\ asked \in 0..6
        /\ phase \in {"load", "logger", "wait", "register", "detect", "running", "exited"}
        /\ phase \in {"load", "logger", "wait", "register"} => asked = 0
    BY <1>4 DEF StartupInv, StartupTypeOK, Asking
  <2>2. CASE LoadConfig \/ setupLogger \/ ParseDetectionWait
    BY <2>1, <2>2 DEF LoadConfig, setupLogger, ParseDetectionWait, Exit, StepsToStart, Before
  <2>3. CASE RegisterHandlers
    <3>1. phase = "register" /\ asked' = asked /\ phase' \in {"detect", "exited"}
      BY <2>3 DEF RegisterHandlers, Exit
    <3> QED
      BY <2>1, <3>1 DEF StepsToStart, Before
  <2>4. CASE DetectConfigured \/ GiveUp
    <3>1. phase = "detect" /\ phase' \in {"running", "exited"}
      BY <2>4 DEF DetectConfigured, GiveUp, Detected, Exit
    <3> QED
      BY <2>1, <3>1 DEF StepsToStart, Before
  <2>5. CASE AskNext
    <3>1. /\ phase = "detect" /\ phase' \in {"detect", "running"}
          /\ asked' = asked + 1 /\ asked < Len(Available)
      BY <2>5 DEF AskNext, Detected
    <3>2. asked < 6
      <4> HIDE DEF Inv
      <4> QED BY <2>1, <3>1, AvailableProviders
    <3> QED
      BY <2>1, <3>1, <3>2 DEF StepsToStart, Before
  <2> QED
    BY <1>4, <2>2, <2>3, <2>4, <2>5 DEF Next
<1>5. QED
  BY <1>3, <1>4, PTL DEF Spec, StartRunsOut

=============================================================================
