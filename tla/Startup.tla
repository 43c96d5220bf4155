------------------------------ MODULE Startup ------------------------------
(***************************************************************************)
(* main up to its first goroutine: LoadConfig merges and validates the     *)
(* settings, setupLogger and the dummy's wait are parsed, RegisterHandlers *)
(* builds the handlers, DetectProvider chooses a provider by asking        *)
(* metadata services.  Every step either goes on or ends the process.      *)
(* Durations are seconds; a setting whose text does not parse is the model *)
(* value Malformed.  Settings nothing here looks at are left out.          *)
(***************************************************************************)
EXTENDS Providers, Integers, SequencesExt

CONSTANTS
  Malformed,  \* a text that is no duration, boolean, level, token or number
  Empty,      \* an environment variable that is set to nothing
  Envs,       \* what the environment may set: partial functions on settings
  Files,      \* what a configuration file may set
  Clouds      \* where the process may run; "none" is no cloud at all

Nowhere == "none"

ASSUME CloudsAssumption == Clouds \subseteq CloudProviders \cup {Nowhere}

VARIABLES
  env, file,     \* the sources of settings; never change
  cloud,         \* where the process runs; never changes
  phase,         \* what main does next, or "running", or "exited"
  globalConfig,  \* the validated settings, NoConfig before
  handlers,      \* the slice RegisterHandlers returns, with its nil pointers
  asked,         \* how many providers auto-detection has asked
  provider       \* what DetectProvider returned, or "none"

startupVars == <<env, file, cloud, phase, globalConfig, handlers, asked, provider>>

HandlerNames == {"dummy", "kubernetes", "telegram", "nomad"}
\* The file of an absent -config flag, or of one that names no file, sets
\* nothing; one that is not YAML stops the process.
Unreadable == [unreadable |-> TRUE]
NoConfig   == <<>>

\* configItems: the default of every setting.
Defaults == [name |-> "", autoDetect |-> TRUE, poll |-> 3, request |-> 2, wait |-> 10,
             processing |-> 75, level |-> "info", format |-> "json",
             kubernetes |-> FALSE, inCluster |-> TRUE, kubeconfig |-> "",
             telegram |-> FALSE, token |-> "", chat |-> "", nomad |-> FALSE]
Settings == DOMAIN Defaults
Flags    == {"autoDetect", "kubernetes", "inCluster", "telegram", "nomad"}
Times    == {"poll", "request", "processing"}

\* viper: the environment goes before the file, and the file before the
\* defaults; an environment variable that is empty counts as not set.
SetIn(e) == Restrict(e, {k \in DOMAIN e : e[k] # Empty})
Merged   == [k \in Settings |-> IF k \in DOMAIN SetIn(env) THEN SetIn(env)[k]
                               ELSE IF k \in DOMAIN file THEN file[k] ELSE Defaults[k]]

\* A source of settings has a text for some of them, and a boolean's or a
\* duration's text parses or does not.
WellKinded(s) ==
  /\ DOMAIN s \subseteq Settings
  /\ \A k \in DOMAIN s \cap Flags : s[k] = Malformed \/ s[k] \in BOOLEAN
  /\ \A k \in DOMAIN s \cap Times : s[k] = Malformed \/ s[k] \in Int

ASSUME SettingsAssumption ==
  /\ \A f \in Files : WellKinded(f)
  /\ \A e \in Envs : WellKinded(SetIn(e))

\* Unmarshal and parseDurationFields: these booleans and durations must parse.
Parsed(c) == \A k \in Flags \cup Times : c[k] # Malformed

\* Seeded fault: Kubernetes and Nomad are not seen to exclude each other.
ValidatedAlone(c) ==
  /\ c.name # "" \/ c.autoDetect
  /\ c.poll \in 3..10
  /\ c.request \in 1..5
  /\ c.processing <= 75
  /\ c.telegram => c.token # "" \/ c.chat # ""
  /\ c.kubernetes => c.kubeconfig # "" \/ c.inCluster

\* validateConfig.
Validated(c) ==
  /\ c.name # "" \/ c.autoDetect
  /\ c.poll \in 3..10
  /\ c.request \in 1..5
  /\ c.processing <= 75
  /\ c.telegram => c.token # "" \/ c.chat # ""
  /\ c.kubernetes => c.kubeconfig # "" \/ c.inCluster
  /\ ~(c.kubernetes /\ c.nomad)

StartupTypeOK ==
  /\ env \in Envs
  /\ file \in Files \cup {Unreadable}
  /\ cloud \in Clouds
  /\ phase \in {"load", "logger", "wait", "register", "detect", "running", "exited"}
  /\ phase \notin {"load", "exited"} => DOMAIN globalConfig = Settings
  /\ handlers \in Seq([name : HandlerNames, nil : BOOLEAN])
  /\ asked \in 0..6
  /\ provider \in ProviderNames \cup {"none"}

StartupInit ==
  /\ env \in Envs
  /\ file \in Files \cup {Unreadable}
  /\ cloud \in Clouds
  /\ phase = "load"
  /\ globalConfig = NoConfig
  /\ handlers = <<>>
  /\ asked = 0
  /\ provider = "none"
-----------------------------------------------------------------------------
\* What an `if` around an append adds.
IfSet(condition, name) == IF condition THEN <<name>> ELSE <<>>

Exit == /\ phase' = "exited"
        /\ UNCHANGED <<env, file, cloud, globalConfig, handlers, asked, provider>>

\* Seeded fault: SetGlobalConfig is not called.
LoadConfigUnset ==
  /\ phase = "load"
  /\ IF file # Unreadable /\ Parsed(Merged) /\ Validated(Merged)
     THEN /\ phase' = "logger"
          /\ UNCHANGED <<env, file, cloud, globalConfig, handlers, asked, provider>>
     ELSE Exit

\* LoadConfig and SetGlobalConfig.
LoadConfig ==
  /\ phase = "load"
  /\ IF file # Unreadable /\ Parsed(Merged) /\ Validated(Merged)
     THEN /\ globalConfig' = Merged
          /\ phase' = "logger"
          /\ UNCHANGED <<env, file, cloud, handlers, asked, provider>>
     ELSE Exit

setupLogger ==
  /\ phase = "logger"
  /\ IF /\ globalConfig.level \in {"debug", "info", "warn", "error"}
        /\ globalConfig.format \in {"text", "json"}
     THEN phase' = "wait" /\ UNCHANGED <<env, file, cloud, globalConfig, handlers, asked, provider>>
     ELSE Exit

\* The dummy's wait is only parsed here, whoever the provider will be.
ParseDetectionWait ==
  /\ phase = "wait"
  /\ IF globalConfig.wait # Malformed
     THEN phase' = "register" /\ UNCHANGED <<env, file, cloud, globalConfig, handlers, asked, provider>>
     ELSE Exit
-----------------------------------------------------------------------------
\* Whether a constructor can return a nil pointer and an error: the API clients
\* depend on the machine they run on, the Telegram bot on its two settings alone.
NewKubernetesHandler == BOOLEAN
NewNomadHandler      == BOOLEAN
NewTelegramHandler   == {{globalConfig.token, globalConfig.chat} \cap {"", Malformed} # {}}

ClientMissing(h) == CASE h = "dummy"      -> {FALSE}
                      [] h = "kubernetes" -> NewKubernetesHandler
                      [] h = "telegram"   -> NewTelegramHandler
                      [] h = "nomad"      -> NewNomadHandler

Enabled == IfSet(globalConfig.name = "dummy", "dummy")
           \o IfSet(globalConfig.kubernetes, "kubernetes")
           \o IfSet(globalConfig.telegram, "telegram")
           \o IfSet(globalConfig.nomad, "nomad")

\* RegisterHandlers: a handler whose constructor failed is appended as well,
\* as a nil pointer.
RegisterHandlers ==
  /\ phase = "register"
  /\ IF Enabled = <<>> THEN Exit
     ELSE /\ \E missing \in [HandlerNames -> BOOLEAN] :
               /\ \A h \in HandlerNames : missing[h] \in ClientMissing(h)
               /\ handlers' = [i \in DOMAIN Enabled |->
                                 [name |-> Enabled[i], nil |-> missing[Enabled[i]]]]
          /\ phase' = "detect"
          /\ UNCHANGED <<env, file, cloud, globalConfig, asked, provider>>
-----------------------------------------------------------------------------
\* Seeded fault: the dummy provider is offered whatever the case of its name.
AvailableAnyCase == <<"aws", "alicloud", "tencent", "gcp", "huawei">> \o
                    IfSet(globalConfig.name \in {"dummy", "Dummy"}, "dummy")

\* The providers in the order they are asked; the dummy only if named exactly.
Available == <<"aws", "alicloud", "tencent", "gcp", "huawei">> \o
             IfSet(globalConfig.name = "dummy", "dummy")

\* strings.EqualFold, for the names a run considers.
Folded(name) == CASE name = "AWS" -> "aws" [] name = "Dummy" -> "dummy" [] OTHER -> name

\* Where a provider asks for the hostname: AWS and Huawei use one and the same
\* URL, .../latest/meta-data/hostname at the link-local address.
HostnameUrl == [aws |-> "link-local", alicloud |-> "alicloud", tencent |-> "tencent",
                gcp |-> "gcp", huawei |-> "link-local"]

\* The providers whose hostname URL is served where the process runs.
Served == {p \in CloudProviders : cloud # Nowhere /\ HostnameUrl[p] = HostnameUrl[cloud]}

\* What the request for the hostname can come back with: any can fail.
HostnameAnswers(p) ==
  {doMetadataRequest(p, token, reply) :
     token \in {"answered", "unreachable"},
     reply \in Failures \cup (IF p \in Served THEN {"name"} ELSE {})}

\* What IsSupported can return.
IsSupported(p) ==
  IF p = "dummy" THEN {TRUE} ELSE {answer # "error" : answer \in HostnameAnswers(p)}

\* DetectProvider returns p.
Detected(p) ==
  /\ TRUE \in IsSupported(p)
  /\ provider' = p
  /\ phase' = "running"
  /\ UNCHANGED <<env, file, cloud, globalConfig, handlers>>

\* Seeded fault: a configured provider that is not supported is replaced.
DetectConfiguredOrAny ==
  /\ phase = "detect"
  /\ globalConfig.name # ""
  /\ \/ /\ \E p \in Range(Available) : Detected(p)
        /\ UNCHANGED asked
     \/ Exit

\* A configured name decides alone, supported or not.
DetectConfigured ==
  /\ phase = "detect"
  /\ globalConfig.name # ""
  /\ LET p == Folded(globalConfig.name)
     IN  \/ /\ p \in Range(Available)
            /\ Detected(p)
            /\ UNCHANGED asked
         \/ /\ p \in Range(Available) => FALSE \in IsSupported(p)
            /\ Exit

\* One turn of the auto-detection loop.
AskNext ==
  /\ phase = "detect"
  /\ globalConfig.name = ""
  /\ globalConfig.autoDetect
  /\ asked < Len(Available)
  /\ asked' = asked + 1
  /\ \/ Detected(Available[asked + 1])
     \/ /\ FALSE \in IsSupported(Available[asked + 1])
        /\ UNCHANGED <<env, file, cloud, phase, globalConfig, handlers, provider>>

GiveUp ==
  /\ phase = "detect"
  /\ globalConfig.name = ""
  /\ globalConfig.autoDetect => asked = Len(Available)
  /\ Exit
-----------------------------------------------------------------------------
Next == \/ LoadConfig \/ setupLogger \/ ParseDetectionWait \/ RegisterHandlers
        \/ DetectConfigured \/ AskNext \/ GiveUp

Spec == StartupInit /\ [][Next]_startupVars
-----------------------------------------------------------------------------
Registered == {handlers[i].name : i \in DOMAIN handlers}

\* What the process runs with is what the other modules assume of it: some
\* handler (HandlersAssumption), each registered once, Kubernetes and Nomad
\* never both, and durations in the ranges Window is about, whichever mixture
\* of environment, file and defaults they came from.
RunsAsAssumed ==
  phase = "running" =>
    /\ handlers # <<>>
    /\ Len(handlers) = Cardinality(Registered)
    /\ ~({"kubernetes", "nomad"} \subseteq Registered)
    /\ globalConfig.poll \in 3..10
    /\ globalConfig.request \in 1..5
    /\ globalConfig.processing \in Int /\ globalConfig.processing <= 75

\* The name "dummy" is compared exactly for the handler and for the provider,
\* and without case when the provider is chosen; still the simulated
\* termination and the handler that only logs it come together or not at all.
DummyTogether ==
  phase = "running" => (provider = "dummy" <=> "dummy" \in Registered)

\* "When provider name is specified, auto_detect will be ignored"
\* (config-example.yaml:24): no other provider takes its place.
ConfiguredNotReplaced ==
  phase = "running" /\ globalConfig.name # "" => provider = Folded(globalConfig.name)

\* The provider monitored, named or detected, is that of the cloud the process
\* runs on, or its hostname URL is the same: AWS's on Huawei's cloud, and
\* Huawei's on AWS's, where a name or one failed request of AWS's is enough.  Off
\* the clouds there is none but the dummy (IsSupported, main.go:168 and 190).
OnlyServedProviders ==
  phase = "running" /\ provider # "dummy" =>
    /\ provider \in Served
    /\ provider = cloud \/ {provider, cloud} = {"aws", "huawei"}

\* "Detects cloud provider from instance metadata" (README.md:12): what
\* auto-detection finds is the cloud the process runs on.
DetectedIsHere ==
  phase = "running" /\ globalConfig.name = "" => provider = cloud

=============================================================================
