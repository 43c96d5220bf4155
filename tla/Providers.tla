----------------------------- MODULE Providers -----------------------------
(***************************************************************************)
(* The cloud providers as the monitoring loop sees them.  The five cloud   *)
(* implementations of the Provider interface share one control structure   *)
(* (module Monitor); this module holds what differs between them: whether  *)
(* a metadata request is preceded by a token request, which bodies of the  *)
(* spot endpoint count as a termination, and whether the instance id is    *)
(* read from the metadata service at all.                                  *)
(***************************************************************************)

\* What one HTTP exchange can come back with.  "unreachable" stands for every
\* error of httpClient.Do or io.ReadAll (refused, client timeout, cancelled
\* context), "denied" for any status but 200; the others are the bodies of a
\* 200 answer of the spot endpoint, by what the code can tell apart.
Failures == {"unreachable", "denied"}
Bodies   == {"stop", "terminate", "hibernate", "garbled", "TRUE", "FALSE", "time"}
Replies  == Failures \cup Bodies
\* Seeded fault: the action is not compared with "stop" and "terminate".
AwsAnyAction == [usesToken |-> TRUE, alarms |-> Bodies, readsId |-> TRUE]

Aws      == [usesToken |-> TRUE,  alarms |-> {"stop", "terminate"}, readsId |-> TRUE]
Alicloud == [usesToken |-> TRUE,  alarms |-> Bodies,                readsId |-> TRUE]
Tencent  == [usesToken |-> FALSE, alarms |-> Bodies,                readsId |-> TRUE]
\* A body of "FALSE" is logged as "no spot termination detected" and then
\* falls through to the same `return true, nil` as every other body.
Gcp      == [usesToken |-> FALSE, alarms |-> Bodies,                readsId |-> TRUE]
Huawei   == [usesToken |-> TRUE,  alarms |-> Bodies,                readsId |-> FALSE]

Profile == [aws |-> Aws, alicloud |-> Alicloud, tencent |-> Tencent,
            gcp |-> Gcp, huawei |-> Huawei]

CloudProviders == DOMAIN Profile
ProviderNames  == CloudProviders \cup {"dummy"}

\* Seeded fault: the status of the answer is not looked at.
doMetadataRequestAnyStatus(p, tokenReply, reply) ==
  IF \/ Profile[p].usesToken /\ tokenReply = "unreachable"
     \/ reply = "unreachable"
  THEN "error" ELSE reply

\* The body a metadata request yields, or "error".  The token answer's status
\* is never looked at: only a failed exchange stops the request there.
doMetadataRequest(p, tokenReply, reply) ==
  IF \/ Profile[p].usesToken /\ tokenReply = "unreachable"
     \/ reply \in Failures
  THEN "error" ELSE reply

\* (bool, error) of isSpotTerminationDetected.  No provider ever returns
\* (false, nil), so every negative verdict reaches the loop as an error.
isSpotTerminationDetected(p, body) ==
  IF body \in Profile[p].alarms THEN "detected" ELSE "error"

-----------------------------------------------------------------------------
\* The metadata services themselves are not part of the repository.  These are
\* the answers the code is written for: what each service can have announced,
\* and what its spot endpoint says then.

Announcements(p) == IF p = "aws" THEN {"stop", "terminate", "hibernate"} ELSE {"terminate"}

\* The announcements a provider implementation undertakes to report.
Reportable == {"stop", "terminate"}

SpotAnswers(p, notice) ==
  CASE p = "gcp"                   -> {IF notice = "none" THEN "FALSE" ELSE "TRUE"}
    [] p = "aws" /\ notice # "none" -> {notice, "garbled"}
    [] p \notin {"aws", "gcp"} /\ notice # "none" -> {"time"}
    [] OTHER                       -> {"denied"}

=============================================================================
