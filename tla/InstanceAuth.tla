---------------------------- MODULE InstanceAuth ----------------------------
(***************************************************************************)
(* The proxy's own credentials, vendored goamz: GetAuth finds them in the  *)
(* environment or asks the real metadata service, main keeps what it found *)
(* at start-up, and every call of AssumeRole works on a copy (sts.New)     *)
(* that Auth.Token renews shortly before it lapses.  RoleForIP's lock lets *)
(* one call run at a time.                                                 *)
(***************************************************************************)
EXTENDS Integers, Sequences

CONSTANTS
    MaxTries,   \* 3: attempts at one request to the real metadata service
    Margin,     \* 30s: credentials are renewed that long before they lapse
    Lifetime,   \* of the credentials the real service issues
    MaxTime,    \* bound: the clock stops here
    OutageEnds  \* bound: the real service and STS may fail before one of these

ASSUME AuthAssumption ==
    /\ MaxTries \in Nat \ {0}
    /\ Margin \in Nat /\ Lifetime \in Nat /\ Margin < Lifetime
    /\ MaxTime \in Nat /\ OutageEnds \subseteq Nat

VARIABLES
    now,
    environ,    \* which halves of a key the AWS variables give
    outageEnd,  \* until when the real service and STS may fail
    issued,     \* when the real service issued its credentials: they are 1, 2, ...
    Auth,       \* main's aws.Auth
    copy,       \* the one inside the sts.STS of the call at hand
    pc,         \* where the program is
    caller,     \* who called GetAuth: "main", or "Token"
    try,        \* attempts made at the request at hand
    checked,    \* when Token last found the copy good, or had it renewed
    signed,     \* the request to STS, as signed
    result      \* of the last AssumeRole

vars == <<now, environ, outageEnd, issued, Auth, copy, pc, caller, try, checked, signed, result>>

world == <<environ, outageEnd>>

NoKey == 0
EnvKey == -1
Keys == {NoKey, EnvKey} \cup (1..(MaxTime + 1))

\* time.Time{}
ZeroTime == -(Margin + 1)

\* Expiry of what the real service issued.
Expiration(key) == issued[key] + Lifetime

\* The secret belongs to secret's access key: a mixture is a useless signature.
AuthRecord == [AccessKey : Keys, SecretKey : Keys, token : Keys,
               expiration : ZeroTime..(MaxTime + Lifetime)]

NoAuth == [AccessKey |-> NoKey, SecretKey |-> NoKey, token |-> NoKey,
           expiration |-> ZeroTime]

NoRequest == [AccessKey |-> NoKey, SecretKey |-> NoKey, token |-> NoKey]

Halves == {"AccessKey", "SecretKey"}

\* EnvAuth fills in what it finds, and reports an error unless it finds both.
EnvAuth == [NoAuth EXCEPT !.AccessKey = IF "AccessKey" \in environ THEN EnvKey ELSE NoKey,
                          !.SecretKey = IF "SecretKey" \in environ THEN EnvKey ELSE NoKey]

Init ==
    /\ now = 0
    /\ environ \in SUBSET Halves
    /\ outageEnd \in OutageEnds
    /\ issued = <<0>>
    /\ Auth = NoAuth
    /\ copy = NoAuth
    /\ pc = "GetAuth"
    /\ caller = "main"
    /\ try = 0
    /\ checked = 0
    /\ signed = NoRequest
    /\ result = "none"

Current == CHOOSE k \in DOMAIN issued : \A j \in DOMAIN issued : j <= k
-----------------------------------------------------------------------------
\* Wrong on purpose, to see OutagePasses fail: the renewed credentials, or the lack
\* of them, are kept for the calls to come.
ReturnAuthKept(a, err) ==
    /\ IF caller = "main"
       THEN IF err THEN pc' = "dead" /\ UNCHANGED <<Auth, copy>>
                   ELSE pc' = "idle" /\ Auth' = a /\ UNCHANGED copy
       ELSE pc' = "sign" /\ copy' = a /\ Auth' = a
    /\ checked' = now
    /\ UNCHANGED <<now, world, issued, caller, signed, result>>

\* What GetAuth returns goes into main's variable, unless main panics, or into the
\* copy, whatever the error.
ReturnAuth(a, err) ==
    /\ IF caller = "main"
       THEN IF err THEN pc' = "dead" /\ UNCHANGED <<Auth, copy>>
                   ELSE pc' = "idle" /\ Auth' = a /\ UNCHANGED copy
       ELSE pc' = "sign" /\ copy' = a /\ UNCHANGED Auth
    /\ checked' = now
    /\ UNCHANGED <<now, world, issued, caller, signed, result>>

\* The environment first, the instance's role then.
GetAuth ==
    /\ pc = "GetAuth"
    /\ \/ environ = Halves /\ try' = 0 /\ ReturnAuth(EnvAuth, FALSE)
       \/ /\ environ # Halves
          /\ pc' = "role"
          /\ try' = 0
          /\ UNCHANGED <<now, world, issued, Auth, copy, caller, checked, signed, result>>

Fetching == {"role", "credentials"}

\* Wrong on purpose, to see TypeOK fail: one attempt more than MaxTries.
RetryOnceMore ==
    /\ pc \in Fetching
    /\ now < outageEnd
    /\ try < MaxTries
    /\ try' = try + 1
    /\ UNCHANGED <<now, world, issued, Auth, copy, pc, caller, checked, signed, result>>

\* A temporary network error or a 5xx status.
awsRetry == now < outageEnd

\* ResilientTransport.tries: another attempt, if there is one left.
Retry ==
    /\ pc \in Fetching
    /\ awsRetry
    /\ try + 1 < MaxTries
    /\ try' = try + 1
    /\ UNCHANGED <<now, world, issued, Auth, copy, pc, caller, checked, signed, result>>

\* Another error or status, or no attempt left: GetAuth's error comes with what
\* EnvAuth had found.
FetchFails ==
    /\ pc \in Fetching
    /\ now < outageEnd
    /\ try' = 0
    /\ ReturnAuth(EnvAuth, TRUE)

FetchRole ==
    /\ pc = "role"
    /\ pc' = "credentials"
    /\ try' = 0
    /\ UNCHANGED <<now, world, issued, Auth, copy, caller, checked, signed, result>>

\* The JSON document, of the credentials the service has just then; an expiry that
\* does not parse is an error that leaves the rest in place.
FetchCredentials ==
    /\ pc = "credentials"
    /\ try' = 0
    /\ LET a == [AccessKey |-> Current, SecretKey |-> Current, token |-> Current,
                 expiration |-> Expiration(Current)]
       IN  \/ ReturnAuth(a, FALSE)
           \/ now < outageEnd /\ ReturnAuth([a EXCEPT !.expiration = ZeroTime], TRUE)
-----------------------------------------------------------------------------
\* role.AssumeRole makes an STS with a copy of main's Auth.
AssumeRole ==
    /\ pc = "idle"
    /\ copy' = Auth
    /\ pc' = "Token"
    /\ UNCHANGED <<now, world, issued, Auth, caller, try, checked, signed, result>>

\* Wrong on purpose, to see ArrivesInTime fail: renewed when it has lapsed only.
LapsingNoMargin(a) == a.token # NoKey /\ now >= a.expiration

\* time.Since(a.expiration) >= -30s, for credentials with a token.
Lapsing(a) == a.token # NoKey /\ now >= a.expiration - Margin

\* query: Token, which may call GetAuth first; then a signer with what is in the
\* copy now, and the request leaves.
Token ==
    /\ pc \in {"Token", "sign"}
    /\ IF pc = "Token" /\ Lapsing(copy)
       THEN pc' = "GetAuth" /\ caller' = "Token" /\ UNCHANGED signed
       ELSE /\ pc' = "sent" /\ UNCHANGED caller
            /\ signed' = [AccessKey |-> copy.AccessKey, SecretKey |-> copy.SecretKey,
                          token |-> copy.token]
    /\ checked' = IF pc = "Token" THEN now ELSE checked
    /\ UNCHANGED <<now, world, issued, Auth, copy, try, result>>

\* STS takes permanent keys, or temporary ones with their token until they lapse.
Valid(s) ==
    /\ s.AccessKey # NoKey /\ s.SecretKey = s.AccessKey
    /\ \/ s.AccessKey = EnvKey
       \/ s.token = s.AccessKey /\ now < Expiration(s.token)

\* STS answers; it may fail, and refuses what is not signed with a whole key.
Answer ==
    /\ pc = "sent"
    /\ \/ Valid(signed) /\ result' = "granted"
       \/ (now < outageEnd \/ ~Valid(signed)) /\ result' = "error"
    /\ pc' = "idle"
    /\ copy' = NoAuth
    /\ signed' = NoRequest
    /\ UNCHANGED <<now, world, issued, Auth, caller, try, checked>>

\* main has panicked: somebody starts the process again.
Restart ==
    /\ pc = "dead"
    /\ pc' = "GetAuth"
    /\ caller' = "main"
    /\ UNCHANGED <<now, world, issued, Auth, copy, try, checked, signed, result>>

\* The clock; the real service has new credentials before the old ones come near
\* their end.
Tick ==
    /\ now < MaxTime
    /\ now' = now + 1
    /\ \/ UNCHANGED issued /\ now' + Margin < Expiration(Current)
       \/ issued' = Append(issued, now')
    /\ UNCHANGED <<world, Auth, copy, pc, caller, try, checked, signed, result>>

Step ==
    \/ GetAuth \/ Retry \/ FetchFails \/ FetchRole \/ FetchCredentials
    \/ Token \/ Answer

Next == AssumeRole \/ Step \/ Restart \/ Tick

Spec == Init /\ [][Next]_vars

\* The program runs on, remote calls end, and time passes.
FairSpec == Spec /\ WF_vars(Step) /\ WF_vars(Tick)
-----------------------------------------------------------------------------
TypeOK ==
    /\ now \in 0..MaxTime
    /\ Auth \in AuthRecord /\ copy \in AuthRecord
    /\ pc \in {"GetAuth", "role", "credentials", "idle", "Token", "sign", "sent", "dead"}
    /\ caller \in {"main", "Token"}
    /\ try \in 0..(MaxTries - 1)
    /\ checked \in 0..MaxTime
    /\ signed \in [AccessKey : Keys, SecretKey : Keys, token : Keys]
    /\ result \in {"none", "granted", "error"}

\* A request that STS gets within the margin of Token's check is not refused because
\* its credentials have lapsed on the way: the margin is what the call may take.
ArrivesInTime ==
    pc = "sent" /\ signed.token # NoKey /\ now - checked <= Margin =>
      now < Expiration(signed.token)

\* Access key, secret and token of a request are of one set of credentials, though
\* a renewal may come between any two readings of them.  Where it failed, the half that
\* the environment has, be it the access key or the secret, is all that the request is
\* signed with: a token goes with the whole of its set only.
SignedByOne ==
    pc = "sent" =>
      /\ signed.SecretKey = signed.AccessKey \/ NoKey \in {signed.AccessKey, signed.SecretKey}
      /\ signed.token # NoKey =>
            signed.AccessKey = signed.token /\ signed.SecretKey = signed.token

\* The proxy never serves without credentials to assume roles with: it has found
\* some at start-up or is not running, and no failure later takes them away.
NeverUncredentialed ==
    pc \in {"idle", "Token", "sign", "sent"} \/ caller = "Token" =>
      Auth.AccessKey # NoKey /\ Auth.SecretKey = Auth.AccessKey

\* What the proxy signs with: one set of credentials, which it always has and which last
\* for the call.
SignsWell == ArrivesInTime /\ SignedByOne /\ NeverUncredentialed

\* Every AssumeRole comes to an end, with an error at the worst, even if the real
\* service never recovers: the attempts are counted.
CallsEnd == pc = "Token" ~> pc = "idle"

\* A failed renewal does no lasting harm: once the real service and STS answer again,
\* and roles are still asked for, roles are granted.
OutagePasses == outageEnd < MaxTime /\ []<>(pc = "Token") => <>[](result = "granted")

\* A call ends, and the calls after an outage are granted.
CallsRecover == CallsEnd /\ OutagePasses
=============================================================================
