------------------------- MODULE InstanceAuthProofs -------------------------
(***************************************************************************)
(* Safety of InstanceAuth for any margin, lifetime and number of attempts, *)
(* however long it runs and whatever fails.                                *)
(***************************************************************************)
EXTENDS InstanceAuth, SequenceTheorems, TLAPS

\* The real service's credentials: the newest outlast the margin.
Issues ==
    /\ issued \in Seq(Nat) /\ Len(issued) \in 1..(now + 1)
    /\ \A k \in 1..Len(issued) : issued[k] <= now
    /\ now + Margin < Expiration(Len(issued))

\* Of one set, which the real service has issued if there is a token.
OneSet(a) ==
    /\ a.SecretKey = a.AccessKey \/ NoKey \in {a.AccessKey, a.SecretKey}
    /\ a.token # NoKey => a.AccessKey = a.token /\ a.SecretKey = a.token
    /\ a.token \in 0..Len(issued)

\* The expiry is that of the token.
Dated(a) == a.token # NoKey => a.expiration = Expiration(a.token)

\* The token was good, with the margin to spare, when that was last looked at.
Lasts(a) == a.token # NoKey => checked + Margin < Expiration(a.token)

\* Auth is never replaced by what was not found whole; the copy is dated when Token
\* looks at its date, and lasts from then on until it is signed with and sent, also
\* where a renewal broke off and left it without its date.
Inv ==
    /\ TypeOK /\ Issues
    /\ OneSet(Auth) /\ Dated(Auth)
    /\ OneSet(copy) /\ (pc = "Token" => Dated(copy))
    /\ (pc = "sign" => Lasts(copy))
    /\ OneSet(signed) /\ (pc = "sent" => Lasts(signed))
    /\ NeverUncredentialed
-----------------------------------------------------------------------------
USE DEF world, NoKey, EnvKey, ZeroTime

\* The zero Auth: no key, no secret, no token.
LEMMA NoAuthIs ==
    /\ NoAuth \in AuthRecord
    /\ NoAuth.AccessKey = NoKey /\ NoAuth.SecretKey = NoKey /\ NoAuth.token = NoKey
BY AuthAssumption DEF NoAuth, AuthRecord, Keys

\* What the environment gives is of one set, without a token, and whole if it gives both.
LEMMA EnvAuthIs ==
    /\ EnvAuth \in AuthRecord /\ EnvAuth.token = NoKey
    /\ EnvAuth.SecretKey = EnvAuth.AccessKey \/ NoKey \in {EnvAuth.AccessKey, EnvAuth.SecretKey}
    /\ environ = Halves => EnvAuth.AccessKey = EnvKey /\ EnvAuth.SecretKey = EnvKey
<1> DEFINE k == IF "AccessKey" \in environ THEN EnvKey ELSE NoKey
           s == IF "SecretKey" \in environ THEN EnvKey ELSE NoKey
           x == [NoAuth EXCEPT !.AccessKey = k]
           y == [x EXCEPT !.SecretKey = s]
<1>1. /\ k \in Keys /\ s \in Keys /\ (s = k \/ NoKey \in {k, s})
      /\ environ = Halves => k = EnvKey /\ s = EnvKey
  BY DEF Keys, Halves
<1>2. EnvAuth = y
  BY DEF EnvAuth
<1> HIDE DEF k, s
<1>3. x \in AuthRecord /\ x.AccessKey = k /\ x.SecretKey = NoKey /\ x.token = NoKey
  BY <1>1, NoAuthIs DEF AuthRecord
<1> HIDE DEF x
<1>4. y \in AuthRecord /\ y.AccessKey = k /\ y.SecretKey = s /\ y.token = NoKey
  BY <1>1, <1>3 DEF AuthRecord
<1> HIDE DEF y
<1> QED  BY <1>1, <1>2, <1>4

\* The newest credentials are the last issued.
LEMMA CurrentIs == ASSUME Issues PROVE Current = Len(issued)
<1>1. DOMAIN issued = 1..Len(issued) /\ Len(issued) \in Nat \ {0}
  BY DEF Issues
<1>2. \A k \in DOMAIN issued : (\A j \in DOMAIN issued : j <= k) <=> k = Len(issued)
  BY <1>1
<1>3. \E k \in DOMAIN issued : \A j \in DOMAIN issued : j <= k
  BY <1>1, <1>2
<1> QED  BY <1>2, <1>3 DEF Current

\* What the real service answers with, with its date or without.
LEMMA FetchedIs ==
    ASSUME TypeOK, Issues, NEW d \in {Expiration(Current), ZeroTime}
    PROVE  LET a == [AccessKey |-> Current, SecretKey |-> Current, token |-> Current,
                     expiration |-> d]
           IN  a \in AuthRecord /\ OneSet(a) /\ a.token = Len(issued)
<1>1. Current = Len(issued) /\ Len(issued) \in 1..(MaxTime + 1)
  BY CurrentIs, AuthAssumption DEF Issues, TypeOK
<1>2. d \in ZeroTime..(MaxTime + Lifetime)
  BY <1>1, AuthAssumption DEF Issues, TypeOK, Expiration
<1> QED  BY <1>1, <1>2 DEF AuthRecord, Keys, OneSet

\* What GetAuth returns is put where Inv allows it: into main's variable only if it is whole,
\* into the copy also if it is what is left of a failure.
LEMMA ReturnAuthKeeps ==
    ASSUME Inv, NEW a \in AuthRecord, OneSet(a), a.token \in {NoKey, Len(issued)},
           try' = 0,
           pc \in {"GetAuth", "role", "credentials"},
           \/ ReturnAuth(a, TRUE)
           \/ ReturnAuth(a, FALSE) /\ Dated(a) /\ a.AccessKey # NoKey /\ a.SecretKey = a.AccessKey
    PROVE  Inv'
<1>1. a.token # NoKey => now + Margin < Expiration(a.token)
  BY DEF Inv, Issues
<1>2. 0 \in 0..(MaxTries - 1)
  BY AuthAssumption
<1>3. /\ checked' = now
      /\ UNCHANGED <<now, world, issued, caller, signed, result>>
  BY DEF ReturnAuth
<1>4. CASE caller = "Token"
  <2>1. pc' = "sign" /\ copy' = a /\ UNCHANGED Auth
    BY <1>4 DEF ReturnAuth
  <2> QED  BY <1>1, <1>2, <1>3, <1>4, <2>1
           DEF Inv, TypeOK, Issues, OneSet, Dated, Lasts, Expiration, NeverUncredentialed
<1>5. CASE caller = "main" /\ ReturnAuth(a, TRUE)
  <2>1. pc' = "dead" /\ UNCHANGED <<Auth, copy>>
    BY <1>5 DEF ReturnAuth
  <2> QED  BY <1>2, <1>3, <1>5, <2>1
           DEF Inv, TypeOK, Issues, OneSet, Dated, Lasts, Expiration, NeverUncredentialed
<1>6. CASE caller = "main" /\ ~ReturnAuth(a, TRUE)
  <2>1. pc' = "idle" /\ Auth' = a /\ UNCHANGED copy
    BY <1>6 DEF ReturnAuth
  <2> QED  BY <1>2, <1>3, <1>6, <2>1
           DEF Inv, TypeOK, Issues, OneSet, Dated, Lasts, Expiration, NeverUncredentialed
<1> QED  BY <1>4, <1>5, <1>6 DEF Inv, TypeOK
-----------------------------------------------------------------------------
\* Before main has looked for credentials there are none anywhere.
LEMMA AuthInit == ASSUME Init PROVE Inv
<1>1. issued \in Seq(Nat) /\ Len(issued) = 1 /\ issued[1] = 0
  BY DEF Init
<1>2. Issues
  BY <1>1, AuthAssumption DEF Init, Issues, Expiration
<1>3. OneSet(NoAuth) /\ Dated(NoAuth)
  BY <1>1, NoAuthIs DEF OneSet, Dated
<1>4. NoRequest \in [AccessKey : Keys, SecretKey : Keys, token : Keys] /\ OneSet(NoRequest)
  BY <1>1 DEF NoRequest, Keys, OneSet
<1>5. 0 \in 0..MaxTime /\ 0 \in 0..(MaxTries - 1)
  BY AuthAssumption
<1> QED  BY <1>2, <1>3, <1>4, <1>5, NoAuthIs DEF Init, Inv, TypeOK, NeverUncredentialed

\* Credentials issued once keep their date.
LEMMA Appended ==
    ASSUME Issues, NEW n \in Nat, issued' = Append(issued, n)
    PROVE  /\ issued' \in Seq(Nat) /\ Len(issued') = Len(issued) + 1
           /\ issued'[Len(issued')] = n
           /\ \A k \in 1..Len(issued) : issued'[k] = issued[k]
BY DEF Issues

\* The invariant through a start, a call, a renewal and its failures, and time.
LEMMA AuthStep == ASSUME Inv, [Next]_vars PROVE Inv'
<1> USE DEF Inv
<1>1. CASE UNCHANGED vars
  BY <1>1 DEF vars, TypeOK, Issues, OneSet, Dated, Lasts, Expiration, NeverUncredentialed
<1>2. CASE GetAuth
  <2>1. EnvAuth \in AuthRecord /\ OneSet(EnvAuth) /\ EnvAuth.token = NoKey
    BY EnvAuthIs DEF OneSet, Issues
  <2>2. CASE environ = Halves
    <3>1. try' = 0 /\ ReturnAuth(EnvAuth, FALSE) /\ pc = "GetAuth"
      BY <1>2, <2>2 DEF GetAuth
    <3>2. Dated(EnvAuth) /\ EnvAuth.AccessKey # NoKey /\ EnvAuth.SecretKey = EnvAuth.AccessKey
      BY <2>1, <2>2, EnvAuthIs DEF Dated
    <3> QED  BY <2>1, <3>1, <3>2, ReturnAuthKeeps
  <2>3. CASE environ # Halves
    <3>1. /\ pc' = "role" /\ try' = 0
          /\ UNCHANGED <<now, world, issued, Auth, copy, caller, checked, signed, result>>
      BY <1>2, <2>3 DEF GetAuth
    <3> QED  BY <3>1, AuthAssumption
       DEF TypeOK, Issues, OneSet, Dated, Lasts, Expiration, NeverUncredentialed
  <2> QED  BY <2>2, <2>3
<1>3. CASE Retry
  BY <1>3, AuthAssumption
     DEF Retry, Fetching, TypeOK, Issues, OneSet, Dated, Lasts, Expiration, NeverUncredentialed
<1>4. CASE FetchFails
  <2>1. EnvAuth \in AuthRecord /\ OneSet(EnvAuth) /\ EnvAuth.token = NoKey
    BY EnvAuthIs DEF OneSet, Issues
  <2>2. try' = 0 /\ ReturnAuth(EnvAuth, TRUE) /\ pc \in {"role", "credentials"}
    BY <1>4 DEF FetchFails, Fetching
  <2> QED  BY <2>1, <2>2, ReturnAuthKeeps
<1>5. CASE FetchRole
  BY <1>5, AuthAssumption
     DEF FetchRole, TypeOK, Issues, OneSet, Dated, Lasts, Expiration, NeverUncredentialed
<1>6. CASE FetchCredentials
  <2> DEFINE a == [AccessKey |-> Current, SecretKey |-> Current, token |-> Current,
                   expiration |-> Expiration(Current)]
             b == [AccessKey |-> Current, SecretKey |-> Current, token |-> Current,
                   expiration |-> ZeroTime]
  <2>1. Current \in Nat \ {0}
    BY CurrentIs DEF TypeOK, Issues
  <2>2. /\ a \in AuthRecord /\ OneSet(a) /\ a.token = Len(issued)
        /\ b \in AuthRecord /\ OneSet(b) /\ b.token = Len(issued)
    BY FetchedIs
  <2>3. Dated(a) /\ a.AccessKey # NoKey /\ a.SecretKey = a.AccessKey
    BY <2>1 DEF Dated
  <2>4. [a EXCEPT !.expiration = ZeroTime] = b
    OBVIOUS
  <2>5. /\ try' = 0 /\ pc = "credentials"
        /\ ReturnAuth(a, FALSE) \/ ReturnAuth([a EXCEPT !.expiration = ZeroTime], TRUE)
    BY <1>6, Zenon DEF FetchCredentials
  <2>6. ReturnAuth(a, FALSE) \/ ReturnAuth(b, TRUE)
    BY <2>4, <2>5, Zenon
  <2> HIDE DEF a, b
  <2> QED  BY <2>2, <2>3, <2>5, <2>6, ReturnAuthKeeps
<1>7. CASE AssumeRole
  BY <1>7 DEF AssumeRole, TypeOK, Issues, OneSet, Dated, Lasts, Expiration, NeverUncredentialed
<1>8. CASE Token
  <2>1. CASE pc = "Token" /\ Lapsing(copy)
    BY <1>8, <2>1
       DEF Token, TypeOK, Issues, OneSet, Dated, Lasts, Expiration, NeverUncredentialed
  <2>2. CASE ~(pc = "Token" /\ Lapsing(copy))
    <3>1. /\ pc' = "sent" /\ pc \in {"Token", "sign"}
          /\ signed' = [AccessKey |-> copy.AccessKey, SecretKey |-> copy.SecretKey,
                        token |-> copy.token]
          /\ checked' = IF pc = "Token" THEN now ELSE checked
          /\ UNCHANGED <<now, world, issued, Auth, copy, caller, try, result>>
      BY <1>8, <2>2 DEF Token
    <3>2. /\ signed' \in [AccessKey : Keys, SecretKey : Keys, token : Keys]
          /\ OneSet(signed)' /\ signed'.token = copy.token
      BY <3>1 DEF TypeOK, AuthRecord, OneSet
    <3>3. copy.token # NoKey => Expiration(copy.token) \in Int
      BY AuthAssumption DEF OneSet, Issues, Expiration, TypeOK
    <3>4. copy.token # NoKey => checked' + Margin < Expiration(copy.token)
      <4>1. CASE pc = "Token"
        BY <2>2, <3>1, <3>3, <4>1, AuthAssumption DEF Lapsing, Dated, TypeOK
      <4>2. CASE pc = "sign"
        BY <3>1, <4>2 DEF Lasts
      <4> QED  BY <3>1, <4>1, <4>2
    <3>5. Lasts(signed)'
      BY <3>1, <3>2, <3>4 DEF Lasts, Expiration
    <3> QED  BY <3>1, <3>2, <3>5
             DEF TypeOK, Issues, OneSet, Dated, Expiration, NeverUncredentialed
  <2> QED  BY <2>1, <2>2
<1>9. CASE Answer
  <2>1. /\ OneSet(NoAuth) /\ OneSet(NoRequest)
        /\ NoRequest \in [AccessKey : Keys, SecretKey : Keys, token : Keys]
    BY NoAuthIs DEF NoRequest, Keys, OneSet, Issues
  <2> QED  BY <1>9, <2>1, NoAuthIs
           DEF Answer, TypeOK, Issues, OneSet, Dated, Lasts, Expiration, NeverUncredentialed
<1>10. CASE Restart
  BY <1>10 DEF Restart, TypeOK, Issues, OneSet, Dated, Lasts, Expiration, NeverUncredentialed
<1>11. CASE Tick
  <2>1. /\ now' = now + 1 /\ now' \in 0..MaxTime
        /\ UNCHANGED <<world, Auth, copy, pc, caller, try, checked, signed, result>>
    BY <1>11, AuthAssumption DEF Tick, TypeOK
  <2>2. /\ Issues' /\ Len(issued') >= Len(issued)
        /\ \A k \in 1..Len(issued) : Expiration(k)' = Expiration(k)
    <3>1. CASE UNCHANGED issued /\ now' + Margin < Expiration(Current)
      BY <2>1, <3>1, CurrentIs, AuthAssumption DEF Issues, Expiration, TypeOK
    <3>2. CASE issued' = Append(issued, now')
      <4>1. /\ issued' \in Seq(Nat) /\ Len(issued') = Len(issued) + 1
            /\ issued'[Len(issued')] = now'
            /\ \A k \in 1..Len(issued) : issued'[k] = issued[k]
        BY <2>1, <3>2, Appended DEF TypeOK
      <4>2. Len(issued) \in 1..(now + 1) /\ now \in Nat
        BY DEF Issues, TypeOK
      <4>3. \A k \in 1..Len(issued') : issued'[k] <= now'
        BY <2>1, <4>1, <4>2 DEF Issues
      <4> QED  BY <2>1, <4>1, <4>2, <4>3, AuthAssumption DEF Issues, Expiration
    <3> QED  BY <1>11, <3>1, <3>2 DEF Tick
  <2>3. OneSet(Auth)' /\ OneSet(copy)' /\ OneSet(signed)'
    BY <2>1, <2>2 DEF OneSet, Issues
  <2>4. /\ Dated(Auth)' /\ (pc' = "Token" => Dated(copy)')
        /\ (pc' = "sign" => Lasts(copy)') /\ (pc' = "sent" => Lasts(signed)')
    BY <2>1, <2>2 DEF OneSet, Dated, Lasts
  <2> QED  BY <2>1, <2>2, <2>3, <2>4 DEF TypeOK, NeverUncredentialed
<1> QED  BY <1>1, <1>2, <1>3, <1>4, <1>5, <1>6, <1>7, <1>8, <1>9, <1>10, <1>11 DEF Next, Step
-----------------------------------------------------------------------------
\* Whose credentials are where, and how long they last, at every step of a call, of a
\* renewal and of its failures.
THEOREM Invariance == Spec => []Inv
<1> QED  BY AuthInit, AuthStep, PTL DEF Spec

\* The variables keep their types and the attempts at a request their bound.
THEOREM TypesCorrect == Spec => []TypeOK
<1>1. Inv => TypeOK
  BY DEF Inv
<1> QED  BY <1>1, Invariance, PTL

\* No request to STS mixes two sets of credentials, whichever halves of a key the
\* environment gives and wherever a renewal broke off, what it is signed with lasts for as
\* long as the margin says, and no failed renewal takes away what the proxy signs with.
THEOREM SignsWellAlways == Spec => []SignsWell
<1>1. Inv => ArrivesInTime
  <2> SUFFICES ASSUME Inv, pc = "sent", signed.token # NoKey, now - checked <= Margin
               PROVE  now < Expiration(signed.token)
    BY DEF ArrivesInTime
  <2>1. Expiration(signed.token) \in Int /\ now \in Int /\ checked \in Int
    BY AuthAssumption DEF Inv, OneSet, Issues, Expiration, TypeOK
  <2> QED  BY <2>1, AuthAssumption DEF Inv, Lasts
<1>2. Inv => SignedByOne
  BY DEF Inv, OneSet, SignedByOne
<1>3. Inv => NeverUncredentialed
  BY DEF Inv
<1> QED  BY <1>1, <1>2, <1>3, Invariance, PTL DEF SignsWell
=============================================================================
