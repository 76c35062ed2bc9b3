----------------------------- MODULE RoleCache -----------------------------
(***************************************************************************)
(* What ContainerService promises to those who call RoleForIP: each call   *)
(* is answered at once from a table of one entry per address.  There is no *)
(* lock, no docker and no STS: a resynchronisation and a renewal are single *)
(* steps, and an answer is what the table says at the moment it is given.  *)
(***************************************************************************)
EXTENDS Integers

CONSTANTS
    Clients,      \* callers of RoleForIP
    IPs,          \* addresses they ask about
    Containers,
    Roles,
    Refusals,     \* reasons to refuse a container any role
    Verdict,      \* per container, the role it is entitled to or a refusal
    Assumable,    \* roles that AssumeRole may succeed for
    Period,       \* a failed renewal is not repeated within it
    Lifetime,     \* of new credentials
    Never,        \* an entry's time of renewal before the first one
    Nil

VARIABLES
    now,
    cache,     \* address -> entry, Nil where none is known
    request,   \* client -> the address it asks about, Nil if it does not ask
    answer     \* client -> the answer it has got, Nil before that

absVars == <<now, cache, request, answer>>

\* Credentials are those of the role the owner is entitled to.
Entry == [owner : Containers, expiration : Nat \cup {Nil}, renewed : Nat \cup {Never}]

FreshEntry == [owner : Containers, expiration : {Nil}, renewed : {Never}]

Due(e) ==
    /\ Verdict[e.owner] \in Roles
    /\ \/ e.expiration = Nil /\ (e.renewed = Never \/ now - e.renewed > Period)
       \/ e.expiration # Nil /\ now > e.expiration

\* A role and the end of its credentials, or an error and none.
Answer(e) ==
    LET v == Verdict[e.owner]
    IN  IF v \in Refusals THEN [what |-> v, expiration |-> Nil]
        ELSE IF e.expiration = Nil THEN [what |-> "assumeRole", expiration |-> Nil]
        ELSE [what |-> v, expiration |-> e.expiration]

Init ==
    /\ now = 0
    /\ cache = [a \in IPs |-> Nil]
    /\ request = [c \in Clients |-> Nil]
    /\ answer = [c \in Clients |-> Nil]

Ask(c, a) ==
    /\ request[c] = Nil
    /\ request' = [request EXCEPT ![c] = a]
    /\ UNCHANGED <<now, cache, answer>>

Waiting(c) == request[c] # Nil /\ answer[c] = Nil

\* A known entry that is not due is the answer.
Serve(c) ==
    /\ Waiting(c)
    /\ LET e == cache[request[c]]
       IN  /\ e # Nil
           /\ ~Due(e)
           /\ answer' = [answer EXCEPT ![c] = Answer(e)]
    /\ UNCHANGED <<now, cache, request>>

\* One that is due is renewed, well or not, and then the answer.
Renew(c) ==
    /\ Waiting(c)
    /\ LET e == cache[request[c]]
       IN  /\ e # Nil
           /\ Due(e)
           /\ \E x \in {Nil} \cup {t \in 0..(now + Lifetime) : Verdict[e.owner] \in Assumable} :
                LET new == [owner |-> e.owner, expiration |-> x, renewed |-> now]
                IN  /\ cache' = [cache EXCEPT ![request[c]] = new]
                    /\ answer' = [answer EXCEPT ![c] = Answer(new)]
    /\ UNCHANGED <<now, request>>

\* Only a caller whose address is not known has the table made anew, of entries
\* that have never been renewed; no container is in it twice.
Resync(c) ==
    /\ Waiting(c)
    /\ cache[request[c]] = Nil
    /\ cache' \in [IPs -> FreshEntry \cup {Nil}]
    /\ \A a, b \in IPs : cache'[a] # Nil /\ cache'[a] = cache'[b] => a = b
    /\ UNCHANGED <<now, request, answer>>

\* Only such a caller is refused without a verdict.
Unknown(c) ==
    /\ Waiting(c)
    /\ cache[request[c]] = Nil
    /\ \E e \in {"notFound", "panic"} :
         answer' = [answer EXCEPT ![c] = [what |-> e, expiration |-> Nil]]
    /\ UNCHANGED <<now, cache, request>>

Take(c) ==
    /\ answer[c] # Nil
    /\ request' = [request EXCEPT ![c] = Nil]
    /\ answer' = [answer EXCEPT ![c] = Nil]
    /\ UNCHANGED <<now, cache>>

\* Everything is lost but the time.
Crash ==
    /\ cache' = [a \in IPs |-> Nil]
    /\ request' = [c \in Clients |-> Nil]
    /\ answer' = [c \in Clients |-> Nil]
    /\ UNCHANGED now

TimePasses == now' = now + 1 /\ UNCHANGED <<cache, request, answer>>

Next ==
    \/ \E c \in Clients : \/ \E a \in IPs : Ask(c, a)
                          \/ Serve(c) \/ Renew(c) \/ Resync(c) \/ Unknown(c) \/ Take(c)
    \/ Crash
    \/ TimePasses

Spec == Init /\ [][Next]_absVars
=============================================================================
