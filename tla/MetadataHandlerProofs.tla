----------------------- MODULE MetadataHandlerProofs -----------------------
(***************************************************************************)
(* Safety of MetadataHandler for any number of requests at once, any       *)
(* addresses, containers, roles, verdicts and statuses.                    *)
(***************************************************************************)
EXTENDS MetadataHandler, TLAPS

Reply == [what : Roles \cup Refusals \cup {"assumeRole", "notFound", "panic"},
          expiration : Nat \cup {Nil}]

\* The table and the answers out of it: credentials are in the one, and a role in the
\* other, only if AssumeRole granted it.
ServiceInv ==
    /\ now \in Nat
    /\ cache \in [IPs -> RoleForIP!Entry \cup {Nil}]
    /\ request \in [Handlers -> IPs \cup {Nil}]
    /\ answer \in [Handlers -> Reply \cup {Nil}]
    /\ \A a \in IPs : cache[a] # Nil /\ cache[a].expiration # Nil =>
         Verdict[cache[a].owner] \in Assumable
    /\ \A h \in Handlers : answer[h] # Nil /\ answer[h].what \in Roles =>
         answer[h].what \in Assumable

PC == {"idle", "precheck", "role", "forward", "copy", "panic", "return", "written"}

\* What was asked for, or a status that says no.
Telling(rw) ==
    \/ rw.content \in {"name", "credentials", "upstream", "cut"}
    \/ rw.status \notin {0, 200}

Untouched(rw, s) == rw.status = 0 /\ s = 200

\* One goroutine: a request is where its route leads; the wrapper's status is what has been
\* sent, or the 200 that will be; a handler that can still panic has sent nothing; one
\* that is done has told the client, and one that passes a body on has passed its length.
Fits(p, r, rw, s, l, g) ==
    /\ p \in PC /\ r \in Request \cup {Nil} /\ rw \in Writer
    /\ s \in 200..599 /\ l \in 0..599
    /\ p \in {"precheck", "role"} => r # Nil /\ r.route = "credentials"
    /\ p \in {"forward", "copy"} => r # Nil /\ r.route = "other"
    /\ p \in {"precheck", "role", "forward", "panic"} => Untouched(rw, s)
    /\ rw.status = s \/ Untouched(rw, s)
    /\ p = "written" => l = s
    /\ p \in {"return", "written"} \/ (p = "idle" /\ r # Nil) => Telling(rw)
    /\ p = "idle" /\ r # Nil => l = rw.status
    /\ rw.content \in {"name", "credentials"} => r.route = "credentials" /\ rw.role \in Assumable
    /\ rw.content = "credentials" => rw.role = r.subpath
    /\ r # Nil /\ r.route = "credentials" => rw.content \notin {"upstream", "cut"}
    /\ p = "copy" \/ (p # "idle" /\ rw.content = "cut") => (g => rw.declared)
    /\ p = "idle" /\ rw.content = "cut" => (g => rw.aborted)

HandlerInv ==
    /\ pc \in [Handlers -> PC] /\ req \in [Handlers -> Request \cup {Nil}]
    /\ w \in [Handlers -> Writer] /\ Status \in [Handlers -> 200..599]
    /\ body \in [Handlers -> BOOLEAN] /\ line \in [Handlers -> 0..599]
    /\ given \in [Handlers -> BOOLEAN]
    /\ \A h \in Handlers : Fits(pc[h], req[h], w[h], Status[h], line[h], given[h])
    /\ BodiesClosed

Inv == ServiceInv /\ HandlerInv
-----------------------------------------------------------------------------
USE DEF RoleForIP!Waiting, serviceVars, handlerVars

\* The handler calls RoleForIP as its interface allows, and touches the table in no
\* other way.
LEMMA StepUsesService ==
    ASSUME HandlerInv, [Next]_vars
    PROVE  [RoleForIP!Next]_serviceVars
<1> USE DEF RoleForIP!Next
<1>1. CASE UNCHANGED vars
  BY <1>1 DEF vars
<1>2. ASSUME NEW h \in Handlers, NEW r \in Request, Accept(h, r)
      PROVE  UNCHANGED serviceVars
  BY <1>2 DEF Accept
<1>3. ASSUME NEW h \in Handlers, Precheck(h)
      PROVE  RoleForIP!Next
  <2>1. req[h].ip \in IPs
    BY <1>3 DEF HandlerInv, Fits, Precheck, Request
  <2> QED  BY <1>3, <2>1 DEF Precheck
<1>4. ASSUME NEW h \in Handlers, Resync(h) \/ Lookup(h) \/ TakeAnswer(h)
      PROVE  RoleForIP!Next
  BY <1>4 DEF Resync, Lookup, TakeAnswer
<1>5. ASSUME NEW h \in Handlers,
             \/ PrecheckFails(h) \/ ForwardFails(h) \/ Deferred(h) \/ Finish(h)
             \/ \E s \in UpstreamStatus :
                  PrecheckRefused(h, s) \/ \E d \in BOOLEAN : Forward(h, s, d)
             \/ \E c \in {"upstream", "cut"} : Copy(h, c)
      PROVE  UNCHANGED serviceVars
  BY <1>5 DEF PrecheckFails, ForwardFails, Deferred, Finish, PrecheckRefused, Forward, Copy
<1>6. CASE Restart
  BY <1>6 DEF Restart
<1>7. CASE Tick
  BY <1>7 DEF Tick
<1> QED  BY <1>1, <1>2, <1>3, <1>4, <1>5, <1>6, <1>7 DEF Next, Step

\* An empty table answers nobody.
LEMMA ServiceInit == ASSUME RoleForIP!Init PROVE ServiceInv
BY DEF RoleForIP!Init, ServiceInv

\* What an entry gives as an answer is one, and a role only if it was granted.
LEMMA AnswerJustified ==
    ASSUME NEW e \in RoleForIP!Entry,
           e.expiration # Nil => Verdict[e.owner] \in Assumable
    PROVE  /\ RoleForIP!Answer(e) \in Reply
           /\ RoleForIP!Answer(e).what \in Roles => RoleForIP!Answer(e).what \in Assumable
<1>1. Verdict[e.owner] \in Roles \cup Refusals /\ e.expiration \in Nat \cup {Nil}
  BY HandlerAssumption DEF RoleForIP!Entry
<1>2. CASE Verdict[e.owner] \in Refusals
  BY <1>1, <1>2, HandlerAssumption DEF RoleForIP!Answer, Reply
<1>3. CASE Verdict[e.owner] \notin Refusals /\ e.expiration = Nil
  BY <1>1, <1>3, HandlerAssumption DEF RoleForIP!Answer, Reply
<1>4. CASE Verdict[e.owner] \notin Refusals /\ e.expiration # Nil
  BY <1>1, <1>4 DEF RoleForIP!Answer, Reply
<1> QED  BY <1>2, <1>3, <1>4

\* RoleForIP answers with a role only if it was granted, whatever the table goes through.
LEMMA ServiceStep ==
    ASSUME ServiceInv, [RoleForIP!Next]_serviceVars
    PROVE  ServiceInv'
<1> USE DEF ServiceInv
<1>1. CASE UNCHANGED serviceVars
  BY <1>1
<1>2. ASSUME NEW c \in Handlers, NEW a \in IPs, RoleForIP!Ask(c, a)
      PROVE  ServiceInv'
  BY <1>2 DEF RoleForIP!Ask
<1>3. ASSUME NEW c \in Handlers, RoleForIP!Serve(c)
      PROVE  ServiceInv'
  <2> DEFINE e == cache[request[c]]
  <2>1. request[c] \in IPs
    BY <1>3 DEF RoleForIP!Serve
  <2>2. e \in RoleForIP!Entry /\ (e.expiration # Nil => Verdict[e.owner] \in Assumable)
    BY <1>3, <2>1 DEF RoleForIP!Serve
  <2>3. /\ RoleForIP!Answer(e) \in Reply
        /\ RoleForIP!Answer(e).what \in Roles => RoleForIP!Answer(e).what \in Assumable
    BY <2>2, AnswerJustified
  <2>4. /\ answer' = [answer EXCEPT ![c] = RoleForIP!Answer(e)]
        /\ UNCHANGED <<now, cache, request>>
    BY <1>3 DEF RoleForIP!Serve
  <2> QED  BY <2>3, <2>4
<1>4. ASSUME NEW c \in Handlers, RoleForIP!Renew(c)
      PROVE  ServiceInv'
  <2> DEFINE e == cache[request[c]]
  <2>1. request[c] \in IPs
    BY <1>4 DEF RoleForIP!Renew
  <2>2. e \in RoleForIP!Entry
    BY <1>4, <2>1 DEF RoleForIP!Renew
  <2>3. PICK x \in {Nil} \cup {t \in 0..(now + Lifetime) : Verdict[e.owner] \in Assumable} :
          LET new == [owner |-> e.owner, expiration |-> x, renewed |-> now]
          IN  /\ cache' = [cache EXCEPT ![request[c]] = new]
              /\ answer' = [answer EXCEPT ![c] = RoleForIP!Answer(new)]
    BY <1>4 DEF RoleForIP!Renew
  <2> DEFINE new == [owner |-> e.owner, expiration |-> x, renewed |-> now]
  <2>4. new \in RoleForIP!Entry /\ (new.expiration # Nil => Verdict[new.owner] \in Assumable)
    BY <2>2, HandlerAssumption DEF RoleForIP!Entry
  <2>5. /\ RoleForIP!Answer(new) \in Reply
        /\ RoleForIP!Answer(new).what \in Roles => RoleForIP!Answer(new).what \in Assumable
    BY <2>4, AnswerJustified
  <2>6. UNCHANGED <<now, request>>
    BY <1>4 DEF RoleForIP!Renew
  <2> HIDE DEF new
  <2>7. /\ cache' = [cache EXCEPT ![request[c]] = new]
        /\ answer' = [answer EXCEPT ![c] = RoleForIP!Answer(new)]
    BY <2>3 DEF new
  <2> QED  BY <2>1, <2>4, <2>5, <2>6, <2>7
<1>5. ASSUME NEW c \in Handlers, RoleForIP!Resync(c)
      PROVE  ServiceInv'
  BY <1>5 DEF RoleForIP!Resync, RoleForIP!FreshEntry, RoleForIP!Entry
<1>6. ASSUME NEW c \in Handlers, RoleForIP!Unknown(c)
      PROVE  ServiceInv'
  <2>1. PICK e \in {"notFound", "panic"} :
          answer' = [answer EXCEPT ![c] = [what |-> e, expiration |-> Nil]]
    BY <1>6 DEF RoleForIP!Unknown
  <2> DEFINE reply == [what |-> e, expiration |-> Nil]
  <2>2. reply \in Reply /\ reply.what \notin Roles
    BY HandlerAssumption DEF Reply
  <2>3. UNCHANGED <<now, cache, request>>
    BY <1>6 DEF RoleForIP!Unknown
  <2> QED  BY <2>1, <2>2, <2>3
<1>7. ASSUME NEW c \in Handlers, RoleForIP!Take(c)
      PROVE  ServiceInv'
  BY <1>7 DEF RoleForIP!Take
<1>8. CASE RoleForIP!Crash
  BY <1>8 DEF RoleForIP!Crash
<1>9. CASE RoleForIP!TimePasses
  BY <1>9 DEF RoleForIP!TimePasses
<1> QED  BY <1>1, <1>2, <1>3, <1>4, <1>5, <1>6, <1>7, <1>8, <1>9 DEF RoleForIP!Next
-----------------------------------------------------------------------------
\* Idle goroutines have sent nothing.
LEMMA HandlerInit == ASSUME Init PROVE HandlerInv
<1>1. NewWriter \in Writer /\ NewWriter.status = 0 /\ NewWriter.content = "none"
  BY DEF NewWriter, Writer
<1> QED  BY <1>1 DEF Init, HandlerInv, Fits, PC, Untouched, BodiesClosed

\* No goroutine but h moves.
OnlyMoves(h) ==
    /\ pc' = [pc EXCEPT ![h] = pc'[h]] /\ req' = [req EXCEPT ![h] = req'[h]]
    /\ w' = [w EXCEPT ![h] = w'[h]] /\ Status' = [Status EXCEPT ![h] = Status'[h]]
    /\ body' = [body EXCEPT ![h] = body'[h]] /\ line' = [line EXCEPT ![h] = line'[h]]
    /\ given' = [given EXCEPT ![h] = given'[h]]

\* So the invariant is one goroutine's, for each action.
LEMMA OneMoves ==
    ASSUME HandlerInv, NEW h \in Handlers, OnlyMoves(h),
           Fits(pc'[h], req'[h], w'[h], Status'[h], line'[h], given'[h]),
           body'[h] \in BOOLEAN /\ given'[h] \in BOOLEAN, body'[h] => pc'[h] = "copy"
    PROVE  HandlerInv'
<1>1. /\ pc'[h] \in PC /\ req'[h] \in Request \cup {Nil} /\ w'[h] \in Writer
      /\ Status'[h] \in 200..599 /\ line'[h] \in 0..599
  BY DEF Fits
<1>2. \A g \in Handlers \ {h} :
        /\ pc'[g] = pc[g] /\ req'[g] = req[g] /\ w'[g] = w[g]
        /\ Status'[g] = Status[g] /\ body'[g] = body[g] /\ line'[g] = line[g]
        /\ given'[g] = given[g]
  BY DEF HandlerInv, OnlyMoves
<1>3. \A g \in Handlers : Fits(pc'[g], req'[g], w'[g], Status'[g], line'[g], given'[g])
  BY <1>2 DEF HandlerInv
<1>4. body' \in [Handlers -> BOOLEAN] /\ given' \in [Handlers -> BOOLEAN] /\ BodiesClosed'
  BY <1>2 DEF HandlerInv, OnlyMoves, BodiesClosed
<1> QED  BY <1>1, <1>3, <1>4 DEF HandlerInv, OnlyMoves

Contents == {"none", "text", "name", "credentials", "upstream", "cut"}
Sent == 200..599

\* What WriteHeader and Write leave of a writer.
Headed(rw, s, c) == [Header(rw, s) EXCEPT !.content = c]
Bodied(rw, c, role) == [Header(rw, 200) EXCEPT !.content = c, !.role = role]

\* The first header counts, and nothing else changes.
LEMMA HeadedIs ==
    ASSUME NEW rw \in Writer, NEW s \in Sent, NEW c \in Contents, rw.status = 0
    PROVE  /\ Headed(rw, s, c) \in Writer /\ Headed(rw, s, c).content = c
           /\ Headed(rw, s, c).role = rw.role /\ Headed(rw, s, c).status = s
<1> DEFINE y == Header(rw, s)
<1>1. /\ y \in Writer /\ y.role = rw.role
      /\ y.status = IF rw.status = 0 THEN s ELSE rw.status
  BY DEF Header, Writer, Sent
<1>2. Headed(rw, s, c) = [y EXCEPT !.content = c]
  BY DEF Headed
<1> HIDE DEF y
<1> DEFINE z == [y EXCEPT !.content = c]
<1>3. /\ z \in Writer /\ z.content = c /\ z.role = y.role /\ z.status = y.status
  BY <1>1 DEF Writer, Contents
<1> HIDE DEF z
<1>4. Headed(rw, s, c) = z
  BY <1>2 DEF z
<1> QED  BY <1>1, <1>3, <1>4

\* A body brings the header 200 with it.
LEMMA BodiedIs ==
    ASSUME NEW rw \in Writer, NEW c \in Contents, NEW role \in Roles \cup {Nil},
           rw.status = 0
    PROVE  /\ Bodied(rw, c, role) \in Writer /\ Bodied(rw, c, role).content = c
           /\ Bodied(rw, c, role).role = role /\ Bodied(rw, c, role).status = 200
<1> DEFINE y == Headed(rw, 200, c)
<1>1. /\ y \in Writer /\ y.content = c
      /\ y.status = 200
  BY HeadedIs, 200 \in Sent DEF Sent
<1>2. Bodied(rw, c, role) = [y EXCEPT !.role = role]
  BY DEF Headed, Bodied
<1> HIDE DEF y
<1> DEFINE z == [y EXCEPT !.role = role]
<1>3. /\ z \in Writer /\ z.content = y.content /\ z.role = role /\ z.status = y.status
  BY <1>1 DEF Writer
<1> HIDE DEF z
<1>4. Bodied(rw, c, role) = z
  BY <1>2 DEF z
<1> QED  BY <1>1, <1>3, <1>4

\* The invariant through every step of the handler, and a restart.
LEMMA HandlerStep ==
    ASSUME ServiceInv, HandlerInv, [Next]_vars
    PROVE  HandlerInv'
<1> USE DEF Goto, WriteHeader, Write
<1>a. ASSUME NEW h \in Handlers
      PROVE  /\ Fits(pc[h], req[h], w[h], Status[h], line[h], given[h])
             /\ given[h] \in BOOLEAN /\ w[h] \in Writer
  BY DEF HandlerInv
<1>1. CASE UNCHANGED vars
  BY <1>1 DEF vars, HandlerInv, BodiesClosed
<1>2. ASSUME NEW h \in Handlers, NEW r \in Request, Accept(h, r)
      PROVE  HandlerInv'
  <2>1. OnlyMoves(h)
    BY <1>2 DEF HandlerInv, OnlyMoves, Accept
  <2>2. req'[h] = r /\ line'[h] = 0
    BY <1>2, <1>a DEF HandlerInv, Accept, Fits
  <2>3. NewWriter \in Writer /\ NewWriter.status = 0 /\ NewWriter.content = "none"
    BY DEF NewWriter, Writer
  <2>4. ASSUME ~r.parses /\ r.route = "other"
        PROVE  Fits(pc'[h], req'[h], w'[h], Status'[h], line'[h], given'[h])
    <3> DEFINE x == [NewWriter EXCEPT !.status = 500]
    <3>1. x \in Writer /\ x.status = 500
      BY <2>3 DEF Writer
    <3> HIDE DEF x
    <3> DEFINE y == [x EXCEPT !.content = "text"]
    <3>2. y \in Writer /\ y.status = 500 /\ y.content = "text"
      BY <3>1 DEF Writer
    <3>3. y = [NewWriter EXCEPT !.status = 500, !.content = "text"]
      BY DEF x
    <3> HIDE DEF y
    <3>4. pc'[h] = "return" /\ w'[h] = y /\ Status'[h] = 500
      BY <1>2, <2>4, <3>3 DEF HandlerInv, Accept
    <3> QED  BY <2>2, <3>2, <3>4 DEF Fits, PC, Untouched, Telling
  <2>5. ASSUME ~(~r.parses /\ r.route = "other")
        PROVE  Fits(pc'[h], req'[h], w'[h], Status'[h], line'[h], given'[h])
    <3>1. /\ pc'[h] = IF r.route = "credentials" THEN NewGET(r) ELSE "forward"
          /\ w'[h] = NewWriter /\ Status'[h] = 200
      BY <1>2, <2>5 DEF HandlerInv, Accept
    <3>2. r # Nil /\ r.route \in {"credentials", "other"}
      BY HandlerAssumption DEF Request
    <3>3. pc'[h] \in IF r.route = "credentials" THEN {"precheck", "panic"} ELSE {"forward"}
      BY <3>1 DEF NewGET
    <3> QED  BY <2>2, <2>3, <3>1, <3>2, <3>3 DEF Fits, PC, Untouched, Telling
  <2>9. Fits(pc'[h], req'[h], w'[h], Status'[h], line'[h], given'[h])
    BY <2>4, <2>5
  <2>10. body'[h] \in BOOLEAN /\ given'[h] \in BOOLEAN /\ (body'[h] => pc'[h] = "copy")
    BY <1>2, <2>1 DEF HandlerInv, OnlyMoves, BodiesClosed, Accept
  <2> QED  BY <2>1, <2>9, <2>10, OneMoves
<1>3. ASSUME NEW h \in Handlers, PrecheckFails(h)
      PROVE  HandlerInv'
  <2>1. OnlyMoves(h)
    BY <1>3 DEF HandlerInv, OnlyMoves, PrecheckFails
  <2>2. /\ pc'[h] = "return" /\ req'[h] = req[h] /\ Status'[h] = 500
        /\ line'[h] = line[h]
        /\ w'[h] = Headed(w[h], 500, "none")
    BY <1>3 DEF HandlerInv, PrecheckFails, Headed
  <2>3. w'[h] \in Writer /\ w'[h].content = "none" /\ w'[h].status = 500
    <3>1. w[h] \in Writer /\ w[h].status = 0 /\ 500 \in Sent /\ "none" \in Contents
      BY <1>a, <1>3 DEF PrecheckFails, Fits, Untouched, Contents, Sent
    <3> QED  BY <2>2, <3>1, HeadedIs
  <2>9. Fits(pc'[h], req'[h], w'[h], Status'[h], line'[h], given'[h])
    BY <1>3, <1>a, <2>2, <2>3, HandlerAssumption DEF PrecheckFails, Fits, PC, Untouched, Telling
  <2>10. body'[h] \in BOOLEAN /\ given'[h] \in BOOLEAN /\ (body'[h] => pc'[h] = "copy")
    BY <1>3, <2>1 DEF HandlerInv, OnlyMoves, BodiesClosed, PrecheckFails
  <2> QED  BY <2>1, <2>9, <2>10, OneMoves
<1>4. ASSUME NEW h \in Handlers, NEW s \in UpstreamStatus, PrecheckRefused(h, s)
      PROVE  HandlerInv'
  <2>1. OnlyMoves(h)
    BY <1>4 DEF HandlerInv, OnlyMoves, PrecheckRefused
  <2>2. /\ pc'[h] = "return" /\ req'[h] = req[h] /\ Status'[h] = s
        /\ line'[h] = line[h]
        /\ w'[h] = Headed(w[h], s, "none")
    BY <1>4 DEF HandlerInv, PrecheckRefused, Headed
  <2>3. w'[h] \in Writer /\ w'[h].content = "none" /\ w'[h].status = s
    <3>1. w[h] \in Writer /\ w[h].status = 0 /\ s \in Sent /\ "none" \in Contents
      BY <1>a, <1>4, HandlerAssumption DEF PrecheckRefused, Fits, Untouched, Contents, Sent
    <3> QED  BY <2>2, <3>1, HeadedIs
  <2>9. Fits(pc'[h], req'[h], w'[h], Status'[h], line'[h], given'[h])
    BY <1>4, <1>a, <2>2, <2>3, HandlerAssumption DEF PrecheckRefused, Fits, PC, Untouched, Telling
  <2>10. body'[h] \in BOOLEAN /\ given'[h] \in BOOLEAN /\ (body'[h] => pc'[h] = "copy")
    BY <1>4, <2>1 DEF HandlerInv, OnlyMoves, BodiesClosed, PrecheckRefused
  <2> QED  BY <2>1, <2>9, <2>10, OneMoves
<1>5. ASSUME NEW h \in Handlers, Precheck(h)
      PROVE  HandlerInv'
  <2>1. OnlyMoves(h)
    BY <1>5 DEF HandlerInv, OnlyMoves, Precheck
  <2>2. /\ pc'[h] = "role" /\ req'[h] = req[h] /\ Status'[h] = Status[h]
        /\ line'[h] = line[h] /\ w'[h] = w[h] /\ given'[h] = given[h]
    BY <1>5 DEF HandlerInv, Precheck
  <2>9. Fits(pc'[h], req'[h], w'[h], Status'[h], line'[h], given'[h])
    BY <1>5, <1>a, <2>2 DEF Precheck, Fits, PC, Untouched, Telling
  <2>10. body'[h] \in BOOLEAN /\ given'[h] \in BOOLEAN /\ (body'[h] => pc'[h] = "copy")
    BY <1>5, <2>1 DEF HandlerInv, OnlyMoves, BodiesClosed, Precheck
  <2> QED  BY <2>1, <2>9, <2>10, OneMoves
<1>6. ASSUME NEW h \in Handlers, Resync(h) \/ Lookup(h)
      PROVE  HandlerInv'
  <2>1. OnlyMoves(h)
    BY <1>6 DEF HandlerInv, OnlyMoves, Resync, Lookup
  <2>9. Fits(pc'[h], req'[h], w'[h], Status'[h], line'[h], given'[h])
    BY <1>6, <1>a DEF Resync, Lookup
  <2>10. body'[h] \in BOOLEAN /\ given'[h] \in BOOLEAN /\ (body'[h] => pc'[h] = "copy")
    BY <1>6, <2>1 DEF HandlerInv, OnlyMoves, BodiesClosed, Resync, Lookup
  <2> QED  BY <2>1, <2>9, <2>10, OneMoves
<1>7. ASSUME NEW h \in Handlers, TakeAnswer(h)
      PROVE  HandlerInv'
  <2>1. OnlyMoves(h)
    BY <1>7 DEF HandlerInv, OnlyMoves, TakeAnswer, Respond
  <2>2. req'[h] = req[h] /\ line'[h] = line[h]
    BY <1>7 DEF HandlerInv, TakeAnswer
  <2> DEFINE what == answer[h].what
  <2>3. what \in Roles => what \in Assumable /\ what # "panic"
    BY <1>7, HandlerAssumption DEF ServiceInv, TakeAnswer
  <2>4. ASSUME what = "panic"
        PROVE  Fits(pc'[h], req'[h], w'[h], Status'[h], line'[h], given'[h])
    <3>1. /\ pc'[h] = "panic" /\ Status'[h] = Status[h] /\ w'[h] = w[h]
          /\ given'[h] = given[h]
      BY <1>7, <1>a, <2>4, <2>3 DEF HandlerInv, TakeAnswer, Respond
    <3>2. w'[h] \in Writer
      BY <1>a, <3>1
    <3> QED  BY <1>7, <1>a, <2>2, <2>3, <2>4, <3>1, <3>2
                DEF TakeAnswer, Fits, PC, Untouched, Telling
  <2>5. ASSUME what \in Roles /\ req[h].subpath = Nil
        PROVE  Fits(pc'[h], req'[h], w'[h], Status'[h], line'[h], given'[h])
    <3>1. pc'[h] = "return" /\ Status'[h] = Status[h] /\ w'[h] = Bodied(w[h], "name", what)
      BY <1>7, <1>a, <2>5, <2>3 DEF HandlerInv, TakeAnswer, Respond, Bodied
    <3>2. w'[h] \in Writer /\ w'[h].content = "name" /\ w'[h].role = what /\ w'[h].status = 200
      <4>1. /\ w[h] \in Writer /\ w[h].status = 0 /\ 200 \in Sent /\ "name" \in Contents
            /\ what \in Roles \cup {Nil}
        BY <1>a, <1>7, <2>5 DEF TakeAnswer, Fits, Untouched, Contents, Sent
      <4> QED  BY <3>1, <4>1, BodiedIs
    <3> QED  BY <1>7, <1>a, <2>2, <2>3, <2>5, <3>1, <3>2
                DEF TakeAnswer, Fits, PC, Untouched, Telling
  <2>6. ASSUME what \in Roles /\ req[h].subpath # Nil /\ req[h].subpath = what
        PROVE  Fits(pc'[h], req'[h], w'[h], Status'[h], line'[h], given'[h])
    <3>1. pc'[h] = "return" /\ Status'[h] = Status[h] /\ w'[h] = Bodied(w[h], "credentials", what)
      BY <1>7, <1>a, <2>6, <2>3 DEF HandlerInv, TakeAnswer, Respond, Bodied
    <3>2. /\ w'[h] \in Writer /\ w'[h].content = "credentials" /\ w'[h].role = what
          /\ w'[h].status = 200
      <4>1. /\ w[h] \in Writer /\ w[h].status = 0 /\ 200 \in Sent /\ "credentials" \in Contents
            /\ what \in Roles \cup {Nil}
        BY <1>a, <1>7, <2>6 DEF TakeAnswer, Fits, Untouched, Contents, Sent
      <4> QED  BY <3>1, <4>1, BodiedIs
    <3> QED  BY <1>7, <1>a, <2>2, <2>3, <2>6, <3>1, <3>2
                DEF TakeAnswer, Fits, PC, Untouched, Telling
  <2>7. ASSUME what \in Roles /\ req[h].subpath # Nil /\ req[h].subpath # what
        PROVE  Fits(pc'[h], req'[h], w'[h], Status'[h], line'[h], given'[h])
    <3>1. pc'[h] = "return" /\ Status'[h] = 404 /\ w'[h] = Headed(w[h], 404, "none")
      BY <1>7, <1>a, <2>7, <2>3 DEF HandlerInv, TakeAnswer, Respond, Headed
    <3>2. w'[h] \in Writer /\ w'[h].content = "none" /\ w'[h].status = 404
      <4>1. w[h] \in Writer /\ w[h].status = 0 /\ 404 \in Sent /\ "none" \in Contents
        BY <1>a, <1>7, <2>7 DEF TakeAnswer, Fits, Untouched, Contents, Sent
      <4> QED  BY <3>1, <4>1, HeadedIs
    <3> QED  BY <1>7, <1>a, <2>2, <2>3, <2>7, <3>1, <3>2
                DEF TakeAnswer, Fits, PC, Untouched, Telling
  <2>8. ASSUME what \notin Roles \cup {"panic"}
        PROVE  Fits(pc'[h], req'[h], w'[h], Status'[h], line'[h], given'[h])
    <3>1. pc'[h] = "return" /\ Status'[h] = 500 /\ w'[h] = Headed(w[h], 500, "text")
      BY <1>7, <1>a, <2>8, <2>3 DEF HandlerInv, TakeAnswer, Respond, Headed
    <3>2. w'[h] \in Writer /\ w'[h].content = "text" /\ w'[h].status = 500
      <4>1. w[h] \in Writer /\ w[h].status = 0 /\ 500 \in Sent /\ "text" \in Contents
        BY <1>a, <1>7, <2>8 DEF TakeAnswer, Fits, Untouched, Contents, Sent
      <4> QED  BY <3>1, <4>1, HeadedIs
    <3> QED  BY <1>7, <1>a, <2>2, <2>3, <2>8, <3>1, <3>2
                DEF TakeAnswer, Fits, PC, Untouched, Telling
  <2>9. Fits(pc'[h], req'[h], w'[h], Status'[h], line'[h], given'[h])
    BY <2>4, <2>5, <2>6, <2>7, <2>8
  <2>10. body'[h] \in BOOLEAN /\ given'[h] \in BOOLEAN /\ (body'[h] => pc'[h] = "copy")
    BY <1>7, <2>1 DEF HandlerInv, OnlyMoves, BodiesClosed, TakeAnswer, Respond
  <2> QED  BY <2>1, <2>9, <2>10, OneMoves
<1>8. ASSUME NEW h \in Handlers, ForwardFails(h)
      PROVE  HandlerInv'
  <2>1. OnlyMoves(h)
    BY <1>8 DEF HandlerInv, OnlyMoves, ForwardFails
  <2>2. /\ pc'[h] = "return" /\ req'[h] = req[h] /\ Status'[h] = 500
        /\ line'[h] = line[h]
        /\ w'[h] = Headed(w[h], 500, "text")
    BY <1>8 DEF HandlerInv, ForwardFails, Headed
  <2>3. w'[h] \in Writer /\ w'[h].content = "text" /\ w'[h].status = 500
    <3>1. w[h] \in Writer /\ w[h].status = 0 /\ 500 \in Sent /\ "text" \in Contents
      BY <1>a, <1>8 DEF ForwardFails, Fits, Untouched, Contents, Sent
    <3> QED  BY <2>2, <3>1, HeadedIs
  <2>9. Fits(pc'[h], req'[h], w'[h], Status'[h], line'[h], given'[h])
    BY <1>8, <1>a, <2>2, <2>3, HandlerAssumption DEF ForwardFails, Fits, PC, Untouched, Telling
  <2>10. body'[h] \in BOOLEAN /\ given'[h] \in BOOLEAN /\ (body'[h] => pc'[h] = "copy")
    BY <1>8, <2>1 DEF HandlerInv, OnlyMoves, BodiesClosed, ForwardFails
  <2> QED  BY <2>1, <2>9, <2>10, OneMoves
<1>9. ASSUME NEW h \in Handlers, NEW s \in UpstreamStatus, NEW d \in BOOLEAN, Forward(h, s, d)
      PROVE  HandlerInv'
  <2>1. OnlyMoves(h)
    BY <1>9 DEF HandlerInv, OnlyMoves, Forward
  <2>2. /\ pc'[h] = "copy" /\ req'[h] = req[h] /\ Status'[h] = s
        /\ line'[h] = line[h] /\ w'[h] = Header(copyHeaders(w[h], d), s)
        /\ given'[h] = d /\ w[h].status = 0
    BY <1>9, <1>a DEF HandlerInv, Forward, Fits, Untouched
  <2> DEFINE x == copyHeaders(w[h], d)
  <2>3. /\ x \in Writer /\ x.content = w[h].content /\ x.role = w[h].role
        /\ x.status = w[h].status /\ x.declared = d
    BY <1>a, <2>2 DEF copyHeaders, Writer
  <2> HIDE DEF x
  <2>4. w'[h] \in Writer /\ w'[h].content = w[h].content /\ w'[h].role = w[h].role
          /\ w'[h].status = s /\ w'[h].declared = d
    <3>1. w'[h] = Header(x, s)
      BY <2>2 DEF x
    <3>2. LET y == Header(x, s)
          IN  /\ y \in Writer /\ y.content = x.content /\ y.role = x.role
              /\ y.status = IF x.status = 0 THEN s ELSE x.status
              /\ y.declared = x.declared
      BY <2>3, HandlerAssumption DEF Header, Writer
    <3> QED  BY <2>2, <2>3, <3>1, <3>2
  <2>9. Fits(pc'[h], req'[h], w'[h], Status'[h], line'[h], given'[h])
    BY <1>9, <1>a, <2>2, <2>4, HandlerAssumption DEF Forward, Fits, PC, Untouched, Telling
  <2>10. body'[h] \in BOOLEAN /\ given'[h] \in BOOLEAN /\ (body'[h] => pc'[h] = "copy")
    BY <1>9, <2>1 DEF HandlerInv, OnlyMoves, BodiesClosed, Forward
  <2> QED  BY <2>1, <2>9, <2>10, OneMoves
<1>10. ASSUME NEW h \in Handlers, NEW c \in {"upstream", "cut"}, Copy(h, c)
      PROVE  HandlerInv'
  <2>1. OnlyMoves(h)
    BY <1>10 DEF HandlerInv, OnlyMoves, Copy
  <2>2. /\ pc'[h] = "return" /\ req'[h] = req[h] /\ Status'[h] = Status[h]
        /\ line'[h] = line[h] /\ w'[h] = [w[h] EXCEPT !.content = c]
        /\ given'[h] = given[h]
    BY <1>10 DEF HandlerInv, Copy
  <2>3. /\ w'[h] \in Writer /\ w'[h].content = c /\ w'[h].role = w[h].role
        /\ w'[h].status = w[h].status /\ w'[h].declared = w[h].declared
    BY <1>a, <2>2 DEF Writer
  <2>9. Fits(pc'[h], req'[h], w'[h], Status'[h], line'[h], given'[h])
    BY <1>10, <1>a, <2>2, <2>3 DEF Copy, Fits, PC, Untouched, Telling
  <2>10. body'[h] \in BOOLEAN /\ given'[h] \in BOOLEAN /\ (body'[h] => pc'[h] = "copy")
    BY <1>10, <2>1 DEF HandlerInv, OnlyMoves, BodiesClosed, Copy
  <2> QED  BY <2>1, <2>9, <2>10, OneMoves
<1>11. ASSUME NEW h \in Handlers, Deferred(h)
      PROVE  HandlerInv'
  <2>1. OnlyMoves(h)
    BY <1>11 DEF HandlerInv, OnlyMoves, Deferred
  <2>2. pc'[h] = "written" /\ req'[h] = req[h] /\ line'[h] = Status'[h]
    BY <1>11 DEF HandlerInv, Deferred
  <2>3. ASSUME pc[h] = "panic"
        PROVE  Fits(pc'[h], req'[h], w'[h], Status'[h], line'[h], given'[h])
    <3>1. Status'[h] = 500 /\ w'[h] = Headed(w[h], 500, "none")
      BY <1>11, <2>3 DEF HandlerInv, Deferred, Headed
    <3>2. w'[h] \in Writer /\ w'[h].content = "none" /\ w'[h].status = 500
      <4>1. w[h] \in Writer /\ w[h].status = 0 /\ 500 \in Sent /\ "none" \in Contents
        BY <1>a, <1>11, <2>3 DEF Deferred, Fits, Untouched, Contents, Sent
      <4> QED  BY <3>1, <4>1, HeadedIs
    <3> QED  BY <1>a, <2>2, <2>3, <3>1, <3>2 DEF Fits, PC, Untouched, Telling
  <2>4. ASSUME pc[h] = "return"
        PROVE  Fits(pc'[h], req'[h], w'[h], Status'[h], line'[h], given'[h])
    <3>1. Status'[h] = Status[h] /\ w'[h] = w[h] /\ given'[h] = given[h]
      BY <1>11, <2>4 DEF HandlerInv, Deferred
    <3> QED  BY <1>a, <2>2, <2>4, <3>1 DEF Fits, PC, Untouched, Telling
  <2>9. Fits(pc'[h], req'[h], w'[h], Status'[h], line'[h], given'[h])
    BY <1>11, <2>3, <2>4 DEF Deferred
  <2>10. body'[h] \in BOOLEAN /\ given'[h] \in BOOLEAN /\ (body'[h] => pc'[h] = "copy")
    BY <1>11, <2>1 DEF HandlerInv, OnlyMoves, BodiesClosed, Deferred
  <2> QED  BY <2>1, <2>9, <2>10, OneMoves
<1>12. ASSUME NEW h \in Handlers, Finish(h)
      PROVE  HandlerInv'
  <2>1. OnlyMoves(h)
    BY <1>12 DEF HandlerInv, OnlyMoves, Finish
  <2>2. /\ pc'[h] = "idle" /\ req'[h] = req[h] /\ Status'[h] = Status[h]
        /\ line'[h] = line[h] /\ given'[h] = given[h] /\ w'[h] = Ended(w[h])
    BY <1>12 DEF HandlerInv, Finish
  <2> DEFINE x == Header(w[h], 200)
             cut == w[h].declared /\ w[h].content = "cut"
             y == [x EXCEPT !.aborted = cut]
  <2>4. /\ x \in Writer /\ x.content = w[h].content /\ x.role = w[h].role
        /\ x.status = IF w[h].status = 0 THEN 200 ELSE w[h].status
    BY <1>a DEF Header, Writer
  <2>5. cut \in BOOLEAN
    OBVIOUS
  <2>6. w'[h] = y
    BY <2>2, Zenon DEF Ended
  <2> HIDE DEF x, cut
  <2>7. /\ y \in Writer /\ y.content = x.content /\ y.role = x.role
        /\ y.status = x.status /\ y.aborted = cut
    BY <2>4, <2>5 DEF Writer
  <2>3. /\ w'[h] \in Writer /\ w'[h].content = w[h].content /\ w'[h].role = w[h].role
        /\ w'[h].status = IF w[h].status = 0 THEN 200 ELSE w[h].status
        /\ w[h].declared /\ w[h].content = "cut" => w'[h].aborted
    BY <2>4, <2>6, <2>7 DEF cut
  <2>9. Fits(pc'[h], req'[h], w'[h], Status'[h], line'[h], given'[h])
    BY <1>12, <1>a, <2>2, <2>3 DEF Finish, Fits, PC, Untouched, Telling
  <2>10. body'[h] \in BOOLEAN /\ given'[h] \in BOOLEAN /\ (body'[h] => pc'[h] = "copy")
    BY <1>12, <2>1 DEF HandlerInv, OnlyMoves, BodiesClosed, Finish
  <2> QED  BY <2>1, <2>9, <2>10, OneMoves
<1>13. CASE Restart
  <2>1. NewWriter \in Writer /\ NewWriter.status = 0 /\ NewWriter.content = "none"
    BY DEF NewWriter, Writer
  <2> QED  BY <1>13, <2>1 DEF Restart, HandlerInv, Fits, PC, Untouched, BodiesClosed
<1>14. CASE Tick
  BY <1>14 DEF Tick, HandlerInv, BodiesClosed
<1> QED  BY <1>1, <1>2, <1>3, <1>4, <1>5, <1>6, <1>7, <1>8, <1>9, <1>10, <1>11, <1>12, <1>13, <1>14
            DEF Next, Step
-----------------------------------------------------------------------------
\* For any number of goroutines: the answers of RoleForIP are granted ones, and what
\* each goroutine has sent, recorded and still has to do fit together.
THEOREM Invariance == Spec => []Inv
<1>1. Init => Inv
  BY ServiceInit, HandlerInit DEF Init, Inv
<1>2. Inv /\ [Next]_vars => Inv'
  BY StepUsesService, ServiceStep, HandlerStep DEF Inv
<1> QED  BY <1>1, <1>2, PTL DEF Spec

\* handleCredentials uses the role cache through its interface and in no other way: what is
\* shown of RoleCache, and of the service that implements it, holds under the handler.
THEOREM UsesService == Spec => RoleForIP!Spec
<1>1. Init => RoleForIP!Init
  BY DEF Init
<1>2. Inv /\ [Next]_vars => [RoleForIP!Next]_serviceVars
  BY StepUsesService DEF Inv
<1> QED  BY <1>1, <1>2, Invariance, PTL DEF Spec, RoleForIP!Spec, RoleForIP!absVars

\* The handler's variables keep their types, and the body of a forwarded response is
\* open only while it is passed on.
THEOREM TypesCorrect == Spec => []TypeOK
<1>1. Inv => TypeOK
  BY DEF Inv, HandlerInv, PC, TypeOK
<1> QED  BY <1>1, Invariance, PTL

\* The status in a request's log line is the one its client got, whatever the
\* handler did and however it ended.
THEOREM LogsAsSent == Spec => []LoggedAsSent
<1>1. Inv => LoggedAsSent
  BY DEF Inv, HandlerInv, Fits, LoggedAsSent, Served
<1> QED  BY <1>1, Invariance, PTL

\* Names and credentials go to those who asked for them and come from AssumeRole's grant;
\* a failure looks like a success only if it is a forwarded body that breaks off and whose
\* length the real service had not given.
THEOREM AnswersAreFit == Spec => []AnswersFit
<1>1. Inv => CredentialsAsked
  BY DEF Inv, HandlerInv, Fits, CredentialsAsked
<1>2. Inv => FailureShows
  BY DEF Inv, HandlerInv, Fits, FailureShows, Served, Telling
<1> QED  BY <1>1, <1>2, Invariance, PTL DEF AnswersFit
=============================================================================
