----------------------------- MODULE MCStartup -----------------------------
(* The configurations of Startup: a file that sets handlers, an environment  *)
(* that sets a provider's name or durations (at and beyond each bound), or   *)
(* logging, and a few settings made in both places.                          *)
EXTENDS Startup

Flag(k) == {<<>>, k :> TRUE}
KubernetesSettings ==
  {<<>>} \cup [kubernetes : {TRUE}, inCluster : BOOLEAN, kubeconfig : {"", "path"}]
TelegramSettings ==
  {<<>>} \cup [telegram : {TRUE}, token : {"", Malformed, "set"}, chat : {"", Malformed, "set"}]

FewClouds == {"aws", "huawei", "gcp", "none"}

HandlerFiles == {k @@ t @@ n : k \in KubernetesSettings, t \in TelegramSettings, n \in Flag("nomad")}

\* A name can be empty in the file only: in the environment it then is unset.
Names == [name : {Empty, "aws", "AWS", "huawei", "dummy", "Dummy", "unheard-of"},
          autoDetect : {TRUE, FALSE, Malformed}]
Durations == {d @@ ("name" :> "dummy") :
                d \in [poll : {2, 3, 10, 11, Malformed}, request : {0, 1, 5, 6},
                       processing : {-1, 75, 76, Malformed}]}
Others == {<<>>, "level" :> Malformed, "format" :> "text", "wait" :> Malformed,
           "nomad" :> TRUE, "kubernetes" :> FALSE, "telegram" :> Empty}
SmallEnvs == Names \cup Durations \cup Others
=============================================================================
