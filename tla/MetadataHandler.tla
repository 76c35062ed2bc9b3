-------------------------- MODULE MetadataHandler --------------------------
(***************************************************************************)
(* The HTTP handler of main.go: logHandler around the function that sends  *)
(* a request for credentials to handleCredentials and forwards every other *)
(* one to the real metadata service.  net/http runs each request in a      *)
(* goroutine of its own; RoleForIP is what RoleCache promises, which       *)
(* ContainerServiceProofs shows the service to keep.                       *)
(***************************************************************************)
EXTENDS Integers

CONSTANTS
    Handlers,        \* goroutines that may be serving requests at once
    IPs, Containers, Roles, Refusals, Verdict, Assumable,
    Period, Lifetime, Never, Nil,      \* of RoleCache
    UpstreamStatus,  \* statuses the real metadata service answers with
    MaxTime          \* bound: the clock stops here

\* The route is what credsRegex decides; a path whose decoded form is no URL any
\* more ("%zz") parses not.  The subpath is a role's name, or Nil where it is
\* empty.
Request == [route : {"credentials", "other"}, parses : BOOLEAN, ip : IPs,
            subpath : Roles \cup {Nil}]

ASSUME HandlerAssumption ==
    /\ UpstreamStatus \subseteq 200..599
    /\ Nil \notin Roles \cup IPs \cup Request
    /\ Verdict \in [Containers -> Roles \cup Refusals]
    /\ Roles \cap (Refusals \cup {"assumeRole", "notFound", "panic"}) = {}
    /\ Lifetime \in Nat /\ MaxTime \in Nat

VARIABLES
    now, cache, request, answer,   \* of RoleCache
    pc,        \* where each goroutine is
    req,       \* its request, Nil before the first
    w,         \* its http.ResponseWriter: what the client has been sent
    Status,    \* LogResponseWriter.Status
    body,      \* is the body of a forwarded response open?
    given,     \* history: did the real service give the length of its last response?
    line       \* the status in the request's log line, 0 before it is written

serviceVars == <<now, cache, request, answer>>
handlerVars == <<pc, req, w, Status, body, given, line>>
vars == <<serviceVars, handlerVars>>

RoleForIP == INSTANCE RoleCache WITH Clients <- Handlers

\* status 0: no header sent yet.  role: whose name or credentials were sent.
\* declared: the response says how long it is.  aborted: the connection was closed in
\* the middle of it.
Writer == [status : 0..599, role : Roles \cup {Nil}, declared : BOOLEAN, aborted : BOOLEAN,
           content : {"none", "text", "name", "credentials", "upstream", "cut"}]

NewWriter == [status |-> 0, role |-> Nil, declared |-> FALSE, aborted |-> FALSE,
              content |-> "none"]

Init ==
    /\ RoleForIP!Init
    /\ pc = [h \in Handlers |-> "idle"]
    /\ req = [h \in Handlers |-> Nil]
    /\ w = [h \in Handlers |-> NewWriter]
    /\ Status = [h \in Handlers |-> 200]
    /\ body = [h \in Handlers |-> FALSE]
    /\ given = [h \in Handlers |-> FALSE]
    /\ line = [h \in Handlers |-> 0]
-----------------------------------------------------------------------------
Goto(h, l) == pc' = [pc EXCEPT ![h] = l]

\* net/http: only the first header counts, and a body brings 200 with it.
Header(rw, s) == IF rw.status = 0 THEN [rw EXCEPT !.status = s] ELSE rw

\* Wrong on purpose, to see LoggedAsSent fail: the wrapper embeds the writer and
\* does not see its headers.
WriteHeaderUnseen(h, s, content) ==
    /\ w' = [w EXCEPT ![h] = [Header(@, s) EXCEPT !.content = content]]
    /\ UNCHANGED Status

\* LogResponseWriter.WriteHeader, with the text that http.Error adds.
WriteHeader(h, s, content) ==
    /\ w' = [w EXCEPT ![h] = [Header(@, s) EXCEPT !.content = content]]
    /\ Status' = [Status EXCEPT ![h] = s]

\* LogResponseWriter.Write: Status stays what it was made with.
Write(h, content, role) ==
    /\ w' = [w EXCEPT ![h] = [Header(@, 200) EXCEPT !.content = content, !.role = role]]
    /\ UNCHANGED Status

\* NewGET panics on a path that does not parse.
NewGET(r) == IF r.parses THEN "precheck" ELSE "panic"

\* logHandler's writer, and where the request goes; the forwarding path answers 500 to a
\* path that does not parse.
Accept(h, r) ==
    /\ pc[h] = "idle"
    /\ req' = [req EXCEPT ![h] = r]
    /\ line' = [line EXCEPT ![h] = 0]
    /\ given' = [given EXCEPT ![h] = FALSE]
    /\ IF ~r.parses /\ r.route = "other"
       THEN /\ Goto(h, "return")
            /\ w' = [w EXCEPT ![h] = [NewWriter EXCEPT !.status = 500, !.content = "text"]]
            /\ Status' = [Status EXCEPT ![h] = 500]
       ELSE /\ Goto(h, IF r.route = "credentials" THEN NewGET(r) ELSE "forward")
            /\ w' = [w EXCEPT ![h] = NewWriter]
            /\ Status' = [Status EXCEPT ![h] = 200]
    /\ UNCHANGED <<serviceVars, body>>

\* handleCredentials asks the real service whether it has credentials at all.
PrecheckFails(h) ==
    /\ pc[h] = "precheck"
    /\ WriteHeader(h, 500, "none")
    /\ Goto(h, "return")
    /\ UNCHANGED <<serviceVars, req, body, given, line>>

PrecheckRefused(h, s) ==
    /\ pc[h] = "precheck"
    /\ s # 200
    /\ WriteHeader(h, s, "none")
    /\ Goto(h, "return")
    /\ UNCHANGED <<serviceVars, req, body, given, line>>

Precheck(h) ==
    /\ pc[h] = "precheck"
    /\ RoleForIP!Ask(h, req[h].ip)
    /\ Goto(h, "role")
    /\ UNCHANGED <<req, w, Status, body, given, line>>

\* RoleForIP goes on, and returns, with an error or a panic or a role.
Resync(h) ==
    /\ pc[h] = "role"
    /\ RoleForIP!Resync(h)
    /\ UNCHANGED handlerVars

Lookup(h) ==
    /\ pc[h] = "role"
    /\ RoleForIP!Serve(h) \/ RoleForIP!Renew(h) \/ RoleForIP!Unknown(h)
    /\ UNCHANGED handlerVars

\* The name of the role, its credentials, or nothing of the kind.
Respond(h, role) ==
    IF req[h].subpath = Nil THEN Write(h, "name", role)
    ELSE IF req[h].subpath = role THEN Write(h, "credentials", role)
    ELSE WriteHeader(h, 404, "none")

\* Wrong on purpose, to see FailureShows fail: the error is logged and nothing
\* returned.
TakeAnswerDropsError(h) ==
    /\ pc[h] = "role"
    /\ answer[h] # Nil
    /\ RoleForIP!Take(h)
    /\ LET what == answer[h].what
       IN  /\ IF what \in Roles THEN Respond(h, what) ELSE UNCHANGED <<w, Status>>
           /\ Goto(h, IF what = "panic" THEN "panic" ELSE "return")
    /\ UNCHANGED <<req, body, given, line>>

TakeAnswer(h) ==
    /\ pc[h] = "role"
    /\ answer[h] # Nil
    /\ RoleForIP!Take(h)
    /\ LET what == answer[h].what
       IN  \/ what = "panic" /\ Goto(h, "panic") /\ UNCHANGED <<w, Status>>
           \/ what \in Roles /\ Goto(h, "return") /\ Respond(h, what)
           \/ /\ what \notin Roles \cup {"panic"}
              /\ Goto(h, "return")
              /\ WriteHeader(h, 500, "text")
    /\ UNCHANGED <<req, body, given, line>>
-----------------------------------------------------------------------------
ForwardFails(h) ==
    /\ pc[h] = "forward"
    /\ WriteHeader(h, 500, "text")
    /\ Goto(h, "return")
    /\ UNCHANGED <<serviceVars, req, body, given, line>>

\* A Content-Length among them, where there is one; net/http sends what is there when the
\* status is written, and no header after it.
copyHeaders(rw, declared) == IF rw.status = 0 THEN [rw EXCEPT !.declared = declared] ELSE rw

\* Wrong on purpose, to see FailureShows fail: the status is copied, then the headers are.
ForwardHeadersLate(h, s, declared) ==
    /\ pc[h] = "forward"
    /\ w' = [w EXCEPT ![h] = copyHeaders(Header(@, s), declared)]
    /\ given' = [given EXCEPT ![h] = declared]
    /\ Status' = [Status EXCEPT ![h] = s]
    /\ body' = [body EXCEPT ![h] = TRUE]
    /\ Goto(h, "copy")
    /\ UNCHANGED <<serviceVars, req, line>>

\* Headers are copied, then the status is.
Forward(h, s, declared) ==
    /\ pc[h] = "forward"
    /\ w' = [w EXCEPT ![h] = Header(copyHeaders(@, declared), s)]
    /\ given' = [given EXCEPT ![h] = declared]
    /\ Status' = [Status EXCEPT ![h] = s]
    /\ body' = [body EXCEPT ![h] = TRUE]
    /\ Goto(h, "copy")
    /\ UNCHANGED <<serviceVars, req, line>>

\* Wrong on purpose, to see TypeOK (BodiesClosed) fail: the body is closed if all went well.
CopyLeaks(h, content) ==
    /\ pc[h] = "copy"
    /\ w' = [w EXCEPT ![h].content = content]
    /\ body' = [body EXCEPT ![h] = content = "cut"]
    /\ Goto(h, "return")
    /\ UNCHANGED <<serviceVars, req, Status, given, line>>

\* io.Copy reaches the end or breaks off, which is only logged; the deferred Close
\* runs either way.
Copy(h, content) ==
    /\ pc[h] = "copy"
    /\ w' = [w EXCEPT ![h].content = content]
    /\ body' = [body EXCEPT ![h] = FALSE]
    /\ Goto(h, "return")
    /\ UNCHANGED <<serviceVars, req, Status, given, line>>

\* Wrong on purpose, to see EveryRequestAnswered fail: a panic is not recovered
\* and its goroutine never gets to an answer.
DeferredNoRecover(h) ==
    /\ pc[h] = "return"
    /\ line' = [line EXCEPT ![h] = Status[h]]
    /\ Goto(h, "written")
    /\ UNCHANGED <<serviceVars, req, w, Status, body, given>>

\* logHandler's deferred function: a panic becomes a 500, and every request gets
\* its line in the log.
Deferred(h) ==
    /\ \/ pc[h] = "panic" /\ WriteHeader(h, 500, "none")
       \/ pc[h] = "return" /\ UNCHANGED <<w, Status>>
    /\ line' = [line EXCEPT ![h] = Status'[h]]
    /\ Goto(h, "written")
    /\ UNCHANGED <<serviceVars, req, body, given>>

\* net/http sends what is left; without a header that is a 200.  It closes the connection
\* if the handler wrote less than it had declared, and ends the response as if it were
\* whole if it had declared nothing.
Ended(rw) == [Header(rw, 200) EXCEPT !.aborted = rw.declared /\ rw.content = "cut"]

Finish(h) ==
    /\ pc[h] = "written"
    /\ w' = [w EXCEPT ![h] = Ended(@)]
    /\ Goto(h, "idle")
    /\ UNCHANGED <<serviceVars, req, Status, body, given, line>>

\* The process dies and is started again: connections are cut, the table is lost.
Restart ==
    /\ RoleForIP!Crash
    /\ pc' = [h \in Handlers |-> "idle"]
    /\ req' = [h \in Handlers |-> Nil]
    /\ w' = [h \in Handlers |-> NewWriter]
    /\ Status' = [h \in Handlers |-> 200]
    /\ body' = [h \in Handlers |-> FALSE]
    /\ given' = [h \in Handlers |-> FALSE]
    /\ line' = [h \in Handlers |-> 0]

Tick ==
    /\ now < MaxTime
    /\ RoleForIP!TimePasses
    /\ UNCHANGED handlerVars

Step(h) ==
    \/ PrecheckFails(h) \/ Precheck(h) \/ Resync(h) \/ Lookup(h) \/ TakeAnswer(h)
    \/ \E s \in UpstreamStatus : \/ PrecheckRefused(h, s)
                                 \/ \E d \in BOOLEAN : Forward(h, s, d)
    \/ ForwardFails(h)
    \/ \E c \in {"upstream", "cut"} : Copy(h, c)
    \/ Deferred(h) \/ Finish(h)

Next ==
    \/ \E h \in Handlers : \/ Step(h)
                           \/ \E r \in Request : Accept(h, r)
    \/ Restart
    \/ Tick

Spec == Init /\ [][Next]_vars

\* A goroutine runs on, and RoleForIP returns (EveryCallReturns of the service).
FairSpec == Spec /\ \A h \in Handlers : WF_vars(Step(h)) /\ WF_vars(Lookup(h))
-----------------------------------------------------------------------------
\* A forwarded response is held while its body is passed on, and given back also where
\* that breaks off.
BodiesClosed == \A h \in Handlers : body[h] => pc[h] = "copy"

TypeOK ==
    /\ pc \in [Handlers -> {"idle", "precheck", "role", "forward", "copy",
                            "panic", "return", "written"}]
    /\ req \in [Handlers -> Request \cup {Nil}]
    /\ w \in [Handlers -> Writer]
    /\ Status \in [Handlers -> 200..599]
    /\ body \in [Handlers -> BOOLEAN] /\ given \in [Handlers -> BOOLEAN]
    /\ line \in [Handlers -> 0..599]
    /\ BodiesClosed

Served(h) == pc[h] = "idle" /\ req[h] # Nil

\* The log is what an operator has: its line for a request shows the status the
\* client got, also where logHandler made one up after a panic, where the handler
\* wrote a body without a header, and where it passed the real service's on.
LoggedAsSent == \A h \in Handlers : Served(h) => line[h] = w[h].status

\* Credentials and role names are sent to those who asked for them by the right
\* path and name, out of RoleForIP's answer and never out of the real service's,
\* which would be the instance's own.
CredentialsAsked ==
    \A h \in Handlers :
      /\ w[h].content \in {"name", "credentials"} =>
           req[h].route = "credentials" /\ w[h].role \in Assumable
      /\ w[h].content = "credentials" => w[h].role = req[h].subpath
      /\ req[h] # Nil /\ req[h].route = "credentials" =>
           w[h].content \notin {"upstream", "cut"}

\* A client that is told 200 gets what it asked for: a failed lookup, a refusal, a
\* panic and an unreachable real service all show.  Of a forwarded body that breaks off
\* the status is out already; it shows by the end of the connection if the real service
\* gave the length.  If it did not, the client takes the part for the whole.
FailureShows ==
    \A h \in Handlers : Served(h) /\ w[h].status = 200 =>
      \/ w[h].content \in {"name", "credentials", "upstream"}
      \/ w[h].content = "cut" /\ (given[h] => w[h].aborted)

\* The right client gets what it asked for, or sees that it failed, but for a forwarded
\* body of no given length.
AnswersFit == CredentialsAsked /\ FailureShows

\* Every request is answered, if remote calls end and the process is not killed
\* for ever: panics included.
EveryRequestAnswered ==
    \A h \in Handlers : pc[h] # "idle" ~> pc[h] = "idle"
=============================================================================
