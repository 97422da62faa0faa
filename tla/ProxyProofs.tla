----------------------------- MODULE ProxyProofs -----------------------------
(***************************************************************************)
(* Theorems about the request handlers, for any connections, tenants,      *)
(* hosts, lengths of bodies and limits of inspection.                      *)
(***************************************************************************)
EXTENDS Proxy, SequenceTheorems, TLAPS

\* One connection.
Connection ==
    [pc : {"idle", "done", "mcp", "identify", "decide", "inspect", "forward", "hello",
           "handshake", "loop", "tinspect", "tforward", "tresponse", "twrite"},
     stage : {"new", "http", "connect", "sni"},
     token : Tokens, host : Hosts \cup {NoHost}, sni : Hosts \cup {NoHost},
     mcpHeader : BOOLEAN, sent : Bodies, body : Readers,
     tenant : Tenants \cup {NoTenant},
     answer : {"none", "400", "403", "502", "200", "upstream"},
     reason : {"none", "mcp", "tenant", "load", "policy", "inspection", "dlp", "upstream"},
     audits : {<<>>, <<"allowed">>, <<"blocked">>},
     granted : SUBSET (Tenants \X Hosts),
     unread : BOOLEAN, genuine : BOOLEAN]

InTunnel == {"tinspect", "tforward", "tresponse", "twrite"}
Evaluating == {"identify", "decide", "inspect"}

\* Which steps each kind of request is at.
StageFits(r) ==
    /\ r.pc \in {"mcp", "forward"} => r.stage = "http"
    /\ r.pc \in Evaluating => r.stage \in {"http", "connect", "sni"}
    /\ r.pc = "hello" => r.stage = "connect"
    /\ r.pc \in {"handshake", "loop"} \cup InTunnel => r.stage = "sni"
    /\ r.pc \in {"mcp", "hello", "handshake", "loop"} \cup Evaluating \cup InTunnel =>
         r.host \in Hosts

\* A request that is under way has neither an answer from upstream nor an audit record.
NotYetAudited(r) ==
    r.pc \in {"idle", "mcp", "forward", "hello", "handshake"} \cup Evaluating \cup InTunnel =>
        r.audits = <<>> /\ r.reason = "none" /\ r.answer \in {"none", "200"}

\* The tenant a request is decided for is one that its token speaks for.
DecidedForEntitled(r) ==
    r.pc = "decide" /\ r.tenant \in Tenants => r.tenant \in Entitled(r.token)

\* What is past Decide was allowed.
WasAllowed(r) ==
    r.pc \in {"inspect", "forward", "hello", "handshake", "loop"} \cup InTunnel =>
        \E t \in Entitled(r.token) : <<t, r.host>> \in r.granted

\* extractMCPInfo met an error in a plain request's body and left nothing of it.
Emptied(r) ==
    /\ r.stage = "http" /\ r.body.chunks = <<>>
    /\ r.sent.end = "short" \/ (r.sent.end = "error" /\ r.body.end = "error")

\* The body is the one that was sent, or emptied, until the response takes its place; what
\* goes on has been inspected.
BodyKept(r) ==
    /\ r.pc \in {"mcp", "tinspect", "tforward"} => r.body = ReaderOf(r.sent)
    /\ r.pc \in {"forward", "hello"} \cup Evaluating => r.body = ReaderOf(r.sent) \/ Emptied(r)
    /\ r.pc = "forward" => ~ReadFails(r.body)
    /\ r.pc \in {"forward", "tforward", "twrite"} => ~Violates(r.body.chunks)

\* What AuditMatchesAnswer says of one connection.
Audited(r) ==
    /\ r.pc = "done" /\ r.stage = "http" =>
         r.audits = <<IF r.answer = "upstream" THEN "allowed" ELSE "blocked">>
    /\ r.reason \in {"tenant", "load", "policy", "dlp"} => r.audits = <<"blocked">>
    /\ r.pc = "loop" => r.audits = CASE r.answer = "upstream" -> <<"allowed">>
                                     [] r.answer = "403" -> <<"blocked">>
                                     [] OTHER -> <<>>

Good(r) ==
    StageFits(r) /\ NotYetAudited(r) /\ DecidedForEntitled(r) /\ WasAllowed(r) /\ BodyKept(r)
    /\ Audited(r)

ProxyInv == \A c \in Conns : Good(conn[c])

-----------------------------------------------------------------------------
(* Bodies *)

Chunk == {"plain", "secret"}

LEMMA ChunksAreSeqs ==
    /\ \A s \in Chunks : s \in Seq(Chunk) /\ Len(s) \in 0 .. MaxBody
    /\ <<>> \in Chunks
  <1>1. ASSUME NEW s \in Chunks PROVE s \in Seq(Chunk) /\ Len(s) \in 0 .. MaxBody
    <2>1. PICK n \in 0 .. MaxBody : s \in [1 .. n -> Chunk]
      BY DEF Chunks, Chunk
    <2>2. n \in Nat
      BY ProxyBoundsAssumption
    <2> QED
      BY <2>1, <2>2
  <1>2. <<>> \in [1 .. 0 -> Chunk] /\ 0 \in 0 .. MaxBody
    BY ProxyBoundsAssumption
  <1> QED
    BY <1>1, <1>2 DEF Chunks, Chunk

\* inspectAndPreserve: head and rest together are the body again.
LEMMA RestoredIsIntact ==
    ASSUME NEW s \in Chunks PROVE restored(s) = s
  <1>1. s \in Seq(Chunk) /\ Len(s) \in Nat /\ MaxInspect \in Nat
    BY ChunksAreSeqs, ProxyBoundsAssumption
  <1>2. CASE Len(s) < MaxInspect
    <2>1. Inspected(s) = s
      BY <1>1, <1>2, SubSeqFull DEF Inspected
    <2>2. Rest(s) = <<>>
      BY <1>1, <1>2 DEF Rest
    <2> QED
      BY <1>1, <2>1, <2>2, ConcatEmptySeq DEF restored
  <1>3. CASE ~(Len(s) < MaxInspect)
    <2>1. Inspected(s) = SubSeq(s, 1, MaxInspect)
      BY <1>3 DEF Inspected
    <2>2. SubSeq(s, 1, MaxInspect) \o SubSeq(s, MaxInspect + 1, Len(s)) = SubSeq(s, 1, Len(s))
      <3>1. 1 \in 1 .. Len(s) + 1 /\ MaxInspect \in 1 - 1 .. Len(s) /\ Len(s) \in MaxInspect .. Len(s)
        BY <1>1, <1>3
      <3> QED
        BY <1>1, <3>1, ConcatAdjacentSubSeq
    <2> QED
      BY <1>1, <2>1, <2>2, SubSeqFull DEF restored, Rest
  <1> QED
    BY <1>2, <1>3

LEMMA BodyReaders ==
    /\ Exhausted \in Readers /\ NoBody \in Bodies /\ Exhausted = ReaderOf(NoBody)
    /\ \A b \in Bodies : ReaderOf(b) \in Readers
    /\ \A b \in Readers : b.chunks \in Chunks /\ b.end \in Ending /\ extractMCPInfo(b) \in Readers
  BY ChunksAreSeqs DEF Readers, Bodies, Exhausted, NoBody, ReaderOf, extractMCPInfo, Ending, Kinds

\* extractMCPInfo leaves the body as it was sent, or empties it.
LEMMA ScreenedBody ==
    ASSUME NEW b \in Readers
    PROVE  \/ extractMCPInfo(b) = b
           \/ /\ extractMCPInfo(b).chunks = <<>>
              /\ b.end = "short" \/ (b.end = "error" /\ extractMCPInfo(b).end = "error")
  BY DEF Readers, Ending, Exhausted, extractMCPInfo

\* A reader whose chunks are put back is the same reader.
LEMMA RestoredReader ==
    ASSUME NEW b \in Readers PROVE [b EXCEPT !.chunks = restored(b.chunks)] = b
  BY RestoredIsIntact, BodyReaders DEF Readers

-----------------------------------------------------------------------------
(* One connection at a time *)

LEMMA ConnType == ProxyTypeOK <=>
    /\ strict \in BOOLEAN
    /\ served \in [Tenants -> SUBSET Hosts \cup {LoadFails}]
    /\ exists \subseteq Tenants
    /\ conn \in [Conns -> Connection]
  BY DEF ProxyTypeOK, Connection

LEMMA GenuineField ==
    ASSUME NEW r \in Connection, NEW g \in BOOLEAN
    PROVE  [r EXCEPT !.genuine = g] \in Connection
  <1>1. CASE g = TRUE
    BY <1>1, ZenonT(40) DEF Connection
  <1>2. CASE g = FALSE
    BY <1>2 DEF Connection
  <1> QED
    BY <1>1, <1>2

LEMMA AnswerFields ==
    ASSUME NEW r \in Connection, NEW pc \in {"loop", "tinspect"},
           NEW answer \in {"none", "400", "403", "502", "upstream"},
           NEW reason \in {"none", "inspection", "dlp", "upstream"},
           NEW audits \in {<<>>, <<"allowed">>, <<"blocked">>}
    PROVE  [r EXCEPT !.pc = pc, !.answer = answer, !.reason = reason, !.audits = audits]
               \in Connection
  <1>1. PICK f : f = [r EXCEPT !.audits = audits]
    OBVIOUS
  <1>2. f \in Connection
    BY <1>1 DEF Connection
  <1>3. PICK g : g = [f EXCEPT !.answer = answer, !.reason = reason]
    OBVIOUS
  <1>4. g \in Connection
    BY <1>2, <1>3, ZenonT(40) DEF Connection
  <1>5. [g EXCEPT !.pc = pc] \in Connection
    BY <1>4 DEF Connection
  <1> QED
    BY <1>1, <1>3, <1>5

\* Of the variables, only strict tells whether a connection's state is in order.
LEMMA GoodByStrict ==
    ASSUME strict' = strict
    PROVE  \A s : Good(s)' <=> Good(s)
  <1>1. \A s : Entitled(s)' = Entitled(s)
    BY DEF Entitled
  <1>2. \A s : StageFits(s)' <=> StageFits(s)
    BY DEF StageFits
  <1>3. \A s : NotYetAudited(s)' <=> NotYetAudited(s)
    BY DEF NotYetAudited
  <1>4. \A s : DecidedForEntitled(s)' <=> DecidedForEntitled(s)
    BY <1>1 DEF DecidedForEntitled
  <1>5. \A s : WasAllowed(s)' <=> WasAllowed(s)
    BY <1>1 DEF WasAllowed
  <1>6. \A s : BodyKept(s)' <=> BodyKept(s)
    BY DEF BodyKept, Emptied, ReadFails, Violates, Inspected
  <1>7. \A s : Audited(s)' <=> Audited(s)
    BY DEF Audited
  <1> QED
    BY <1>2, <1>3, <1>4, <1>5, <1>6, <1>7 DEF Good

\* A step of one connection is in order when its new state is.
LEMMA OneConnection ==
    ASSUME ProxyTypeOK, ProxyInv, Env, NEW c \in Conns, NEW r \in Connection, Good(r),
           conn' = [conn EXCEPT ![c] = r]
    PROVE  ProxyTypeOK' /\ ProxyInv'
  <1>1. conn \in [Conns -> Connection] /\ UNCHANGED <<strict, served, exists>>
    BY ConnType DEF Env
  <1>2. conn' \in [Conns -> Connection]
    BY <1>1
  <1>3. ProxyTypeOK'
    BY <1>1, <1>2 DEF ProxyTypeOK, Connection
  <1>5. \A s : Good(s)' <=> Good(s)
    BY <1>1, GoodByStrict
  <1>6. \A d \in Conns : conn'[d] = r \/ conn'[d] = conn[d]
    BY <1>1
  <1> QED
    BY <1>3, <1>5, <1>6 DEF ProxyInv

LEMMA FreshIsGood == Fresh \in Connection /\ Good(Fresh)
  <1>1. Fresh \in Connection
    <2>1. NoBody \in Bodies /\ Exhausted \in Readers
      BY BodyReaders
    <2> QED
      BY <2>1 DEF Fresh, Connection, Tokens
  <1>2. Fresh.pc = "idle" /\ Fresh.audits = <<>> /\ Fresh.reason = "none" /\ Fresh.answer = "none"
    BY DEF Fresh
  <1> QED
    BY <1>1, <1>2 DEF Good, StageFits, NotYetAudited, DecidedForEntitled, WasAllowed, BodyKept, Audited,
                      Evaluating, InTunnel

LEMMA ProxyInitial == ProxyInit => ProxyTypeOK /\ ProxyInv
  BY FreshIsGood DEF ProxyInit, ProxyTypeOK, ProxyInv, Connection

LEMMA ServedStep ==
    ASSUME ProxyTypeOK, ProxyInv, NEW c \in Conns, Served(c)
    PROVE  ProxyTypeOK' /\ ProxyInv'
  BY FreshIsGood, OneConnection DEF Served

LEMMA ServeHTTPStep ==
    ASSUME ProxyTypeOK, ProxyInv, NEW c \in Conns, ServeHTTP(c)
    PROVE  ProxyTypeOK' /\ ProxyInv'
  <1>1. PICK token \in Tokens, host \in Hosts :
            \/ \E h \in BOOLEAN, b \in SentBodies :
                 conn' = [conn EXCEPT ![c] =
                           [Fresh EXCEPT !.pc = "mcp", !.stage = "http", !.token = token,
                                         !.host = host, !.mcpHeader = h, !.sent = b,
                                         !.body = ReaderOf(b)]]
            \/ conn' = [conn EXCEPT ![c] =
                          [Fresh EXCEPT !.pc = "identify", !.stage = "connect", !.token = token,
                                        !.host = host, !.answer = "200"]]
            \/ conn' = [conn EXCEPT ![c] = [Fresh EXCEPT !.pc = "done", !.stage = "connect"]]
    BY DEF ServeHTTP
  <1>2. ASSUME NEW h \in BOOLEAN, NEW b \in SentBodies, NEW r,
               r = [Fresh EXCEPT !.pc = "mcp", !.stage = "http", !.token = token,
                                 !.host = host, !.mcpHeader = h, !.sent = b,
                                 !.body = ReaderOf(b)]
        PROVE  r \in Connection /\ Good(r)
    <2>1. b \in Bodies /\ ReaderOf(b) \in Readers
      BY BodyReaders DEF SentBodies
    <2>2. r \in Connection
      <3>1. PICK f : f = [Fresh EXCEPT !.pc = "mcp", !.stage = "http", !.token = token, !.host = host]
        OBVIOUS
      <3>2. f \in Connection
        BY <3>1, FreshIsGood, ZenonT(40) DEF Connection
      <3>3. r = [f EXCEPT !.mcpHeader = h, !.sent = b, !.body = ReaderOf(b)]
        BY <1>2, <3>1
      <3> QED
        BY <2>1, <3>2, <3>3, ZenonT(40) DEF Connection
    <2>3. /\ r.pc = "mcp" /\ r.stage = "http" /\ r.audits = <<>> /\ r.reason = "none"
          /\ r.answer = "none" /\ r.body = ReaderOf(r.sent) /\ r.host \in Hosts
      BY <1>2 DEF Fresh
    <2> QED
      BY <2>2, <2>3 DEF Good, StageFits, NotYetAudited, DecidedForEntitled, WasAllowed,
                        BodyKept, Emptied, Audited, Evaluating, InTunnel
  <1>3. ASSUME NEW r,
               r = [Fresh EXCEPT !.pc = "identify", !.stage = "connect", !.token = token,
                                 !.host = host, !.answer = "200"]
        PROVE  r \in Connection /\ Good(r)
    <2>1. r \in Connection
      BY <1>3, FreshIsGood, ZenonT(40) DEF Connection
    <2>2. /\ r.pc = "identify" /\ r.stage = "connect" /\ r.audits = <<>> /\ r.reason = "none"
          /\ r.answer = "200" /\ r.body = ReaderOf(r.sent) /\ r.host \in Hosts
      BY <1>3, BodyReaders DEF Fresh
    <2> QED
      BY <2>1, <2>2 DEF Good, StageFits, NotYetAudited, DecidedForEntitled, WasAllowed,
                        BodyKept, Emptied, Audited, Evaluating, InTunnel
  <1>4. ASSUME NEW r, r = [Fresh EXCEPT !.pc = "done", !.stage = "connect"]
        PROVE  r \in Connection /\ Good(r)
    <2>1. r \in Connection
      BY <1>4, FreshIsGood, ZenonT(40) DEF Connection
    <2>2. r.pc = "done" /\ r.stage = "connect" /\ r.reason = "none"
      BY <1>4 DEF Fresh
    <2> QED
      BY <2>1, <2>2 DEF Good, StageFits, NotYetAudited, DecidedForEntitled, WasAllowed,
                        BodyKept, Emptied, Audited, Evaluating, InTunnel
  <1>5. PICK r \in Connection : Good(r) /\ conn' = [conn EXCEPT ![c] = r]
    BY <1>1, <1>2, <1>3, <1>4
  <1> QED
    BY <1>5, OneConnection DEF ServeHTTP

\* A request that is under way ends with an answer and one audit record.
LEMMA EndsStep ==
    ASSUME ProxyTypeOK, ProxyInv, Env, NEW c \in Conns,
           conn[c].pc \in {"mcp", "forward"} \cup Evaluating,
           NEW answer \in {"400", "403", "502", "200", "upstream"},
           NEW reason \in {"none", "mcp", "tenant", "load", "policy", "inspection", "dlp", "upstream"},
           NEW action \in {"allowed", "blocked"},
           action = "allowed" <=> answer = "upstream",
           action = "allowed" => reason = "none",
           Ends(c, answer, reason, action)
    PROVE  ProxyTypeOK' /\ ProxyInv'
  <1>1. PICK o \in Connection : o = conn[c] /\ Good(o)
    BY ConnType DEF ProxyInv
  <1>2. PICK r : r = [o EXCEPT !.pc = "done", !.answer = answer, !.reason = reason,
                               !.audits = <<action>>, !.sent = NoBody, !.body = Exhausted]
    OBVIOUS
  <1>3. o.audits = <<>>
    BY <1>1 DEF Good, NotYetAudited
  <1>4. conn' = [conn EXCEPT ![c] = r]
    <2>1. Append(conn[c].audits, action) = <<action>>
      BY <1>1, <1>3
    <2>2. conn' = [conn EXCEPT ![c].pc = "done", ![c].answer = answer, ![c].reason = reason,
                               ![c].audits = <<action>>,
                               ![c].sent = NoBody, ![c].body = Exhausted]
      BY <2>1 DEF Ends
    <2> QED
      BY <1>1, <1>2, <2>2, ConnType
  <1>5. r \in Connection
    <2>1. PICK f : f = [o EXCEPT !.sent = NoBody, !.body = Exhausted]
      OBVIOUS
    <2>2. f \in Connection
      BY <2>1, BodyReaders DEF Connection
    <2>3. r = [f EXCEPT !.pc = "done", !.answer = answer, !.reason = reason, !.audits = <<action>>]
      BY <1>2, <2>1
    <2> QED
      BY <2>2, <2>3, ZenonT(40) DEF Connection
  <1>6. r.pc = "done" /\ r.answer = answer /\ r.reason = reason /\ r.audits = <<action>>
    BY <1>2 DEF Connection
  <1>7. Good(r)
    BY <1>6 DEF Good, StageFits, NotYetAudited, DecidedForEntitled, WasAllowed,
                BodyKept, Emptied, Audited, Evaluating, InTunnel
  <1> QED
    BY <1>4, <1>5, <1>7, OneConnection

LEMMA DenyStep ==
    ASSUME ProxyTypeOK, ProxyInv, Env, NEW c \in Conns, conn[c].pc \in Evaluating,
           NEW reason \in {"tenant", "load", "policy", "inspection", "dlp"}, Deny(c, reason)
    PROVE  ProxyTypeOK' /\ ProxyInv'
  <1>1. PICK answer \in {"403", "200"} : Ends(c, answer, reason, "blocked")
    BY DEF Deny
  <1> QED
    BY <1>1, EndsStep

-----------------------------------------------------------------------------
(* evaluate and handleHTTP *)

\* A connection goes on to another step with nothing else changed.
LEMMA GotoEffect ==
    ASSUME ProxyTypeOK, NEW c \in Conns, NEW o \in Connection, o = conn[c], NEW s, Goto(c, s)
    PROVE  conn' = [conn EXCEPT ![c] = [o EXCEPT !.pc = s]]
  BY ConnType DEF Goto

LEMMA ScreenMCPStep ==
    ASSUME ProxyTypeOK, ProxyInv, NEW c \in Conns, ScreenMCP(c)
    PROVE  ProxyTypeOK' /\ ProxyInv'
  <1>1. conn[c].pc = "mcp" /\ Env
    BY DEF ScreenMCP
  <1>2. CASE Ends(c, "400", "mcp", "blocked")
    BY <1>1, <1>2, EndsStep
  <1>3. CASE conn' = [conn EXCEPT ![c].pc = "identify", ![c].body = extractMCPInfo(@)]
    <2>1. PICK o \in Connection : o = conn[c] /\ Good(o)
      BY ConnType DEF ProxyInv
    <2>2. PICK left : left = extractMCPInfo(o.body)
      OBVIOUS
    <2>3. PICK r : r = [o EXCEPT !.pc = "identify", !.body = left]
      OBVIOUS
    <2>4. conn' = [conn EXCEPT ![c] = r]
      BY <1>3, <2>1, <2>2, <2>3, ConnType
    <2>5. o.body \in Readers /\ left \in Readers /\ o.body = ReaderOf(o.sent) /\ o.stage = "http"
      BY <1>1, <2>1, <2>2, BodyReaders DEF Connection, Good, BodyKept, StageFits
    <2>6. /\ r \in Connection /\ r.pc = "identify" /\ r.stage = o.stage /\ r.host = o.host
          /\ r.audits = o.audits /\ r.reason = o.reason /\ r.answer = o.answer
          /\ r.body = left /\ r.sent = o.sent
      BY <2>3, <2>5, ZenonT(40) DEF Connection
    <2>7. r.body = ReaderOf(r.sent) \/ Emptied(r)
      <3>1. o.body.end = r.sent.end
        BY <2>5, <2>6 DEF ReaderOf
      <3> QED
        BY <2>2, <2>5, <2>6, <3>1, ScreenedBody DEF Emptied
    <2>8. Good(r)
      BY <1>1, <2>1, <2>6, <2>7 DEF Good, StageFits, NotYetAudited, DecidedForEntitled, WasAllowed,
                BodyKept, Emptied, Audited, Evaluating, InTunnel
    <2> QED
      BY <1>1, <2>4, <2>6, <2>8, OneConnection
  <1> QED
    BY <1>2, <1>3 DEF ScreenMCP

\* resolveTenantID: the tenant that evaluate goes on with is one that the token speaks for.
LEMMA TenantOfEntitled ==
    ASSUME NEW token \in Tokens, ~TenantRefused(token), TenantOf(token) \in Tenants
    PROVE  TenantOf(token) \in Entitled(token)
  <1>1. CASE token \in Tenants /\ TenantOf(token) = token
    BY <1>1 DEF Entitled
  <1>2. CASE token = "noclaim" /\ TenantOf(token) = DefaultTenant
    BY <1>2 DEF Entitled, TenantRefused
  <1>3. CASE TenantOf(token) = NoTenant
    BY <1>3, ProxyNamesAssumption
  <1> QED
    BY <1>1, <1>2, <1>3 DEF TenantOf

LEMMA IdentifyStep ==
    ASSUME ProxyTypeOK, ProxyInv, NEW c \in Conns, Identify(c)
    PROVE  ProxyTypeOK' /\ ProxyInv'
  <1>1. conn[c].pc = "identify" /\ Env
    BY DEF Identify
  <1>2. CASE TenantRefused(conn[c].token)
    BY <1>1, <1>2, DenyStep DEF Identify, Evaluating
  <1>3. CASE ~TenantRefused(conn[c].token)
    <2>1. PICK o \in Connection : o = conn[c] /\ Good(o)
      BY ConnType DEF ProxyInv
    <2>2. PICK t : t = TenantOf(o.token)
      OBVIOUS
    <2>3. PICK r : r = [o EXCEPT !.pc = "decide", !.tenant = t]
      OBVIOUS
    <2>4. conn' = [conn EXCEPT ![c] = r]
      BY <1>3, <2>1, <2>2, <2>3, ConnType DEF Identify
    <2>5. o.token \in Tokens
      BY DEF Connection
    <2>6. t \in Tenants \cup {NoTenant}
      BY <2>2, ProxyNamesAssumption DEF TenantOf
    <2>7. /\ r \in Connection /\ r.pc = "decide" /\ r.stage = o.stage /\ r.host = o.host
          /\ r.audits = o.audits /\ r.reason = o.reason /\ r.answer = o.answer
          /\ r.body = o.body /\ r.sent = o.sent /\ r.tenant = t /\ r.token = o.token
      BY <2>3, <2>6, ZenonT(40) DEF Connection
    <2>8. r.tenant \in Tenants => r.tenant \in Entitled(r.token)
      BY <1>3, <2>1, <2>2, <2>5, <2>7, TenantOfEntitled
    <2>9. Good(r)
      BY <1>1, <2>1, <2>7, <2>8 DEF Good, StageFits, NotYetAudited, DecidedForEntitled, WasAllowed,
                BodyKept, Emptied, Audited, Evaluating, InTunnel
    <2> QED
      BY <1>1, <2>4, <2>7, <2>9, OneConnection
  <1> QED
    BY <1>2, <1>3

LEMMA DecideStep ==
    ASSUME ProxyTypeOK, ProxyInv, NEW c \in Conns, Decide(c)
    PROVE  ProxyTypeOK' /\ ProxyInv'
  <1>1. conn[c].pc = "decide" /\ Env
    BY DEF Decide
  <1>2. CASE Deny(c, "load") \/ Deny(c, "policy")
    BY <1>1, <1>2, DenyStep DEF Evaluating
  <1>3. CASE ~(Deny(c, "load") \/ Deny(c, "policy"))
    <2>1. PICK o \in Connection : o = conn[c] /\ Good(o)
      BY ConnType DEF ProxyInv
    <2>2. PICK r : r = [o EXCEPT !.pc = "inspect", !.granted = o.granted \cup {<<o.tenant, o.host>>}]
      OBVIOUS
    <2>3. /\ o.tenant \in Loadable
          /\ conn' = [conn EXCEPT ![c].pc = "inspect",
                                  ![c].granted = @ \cup {<<o.tenant, o.host>>}]
      BY <1>3, <2>1 DEF Decide, targetDomain
    <2>4. conn' = [conn EXCEPT ![c] = r]
      BY <2>1, <2>2, <2>3, ConnType
    <2>5. o.tenant \in Tenants /\ o.host \in Hosts
      BY <1>1, <2>1, <2>3 DEF Loadable, Good, StageFits, Evaluating
    <2>6. o.granted \cup {<<o.tenant, o.host>>} \in SUBSET (Tenants \X Hosts)
      BY <2>5 DEF Connection
    <2>7. /\ r \in Connection /\ r.pc = "inspect" /\ r.stage = o.stage /\ r.host = o.host
          /\ r.audits = o.audits /\ r.reason = o.reason /\ r.answer = o.answer
          /\ r.body = o.body /\ r.sent = o.sent /\ r.token = o.token
          /\ r.granted = o.granted \cup {<<o.tenant, o.host>>}
      BY <2>2, <2>6, ZenonT(40) DEF Connection
    <2>8. o.tenant \in Entitled(r.token)
      BY <1>1, <2>1, <2>5, <2>7 DEF Good, DecidedForEntitled
    <2>9. \E t \in Entitled(r.token) : <<t, r.host>> \in r.granted
      BY <2>7, <2>8
    <2>10. Good(r)
      BY <1>1, <2>1, <2>7, <2>9 DEF Good, StageFits, NotYetAudited, DecidedForEntitled, WasAllowed,
                BodyKept, Emptied, Audited, Evaluating, InTunnel
    <2> QED
      BY <1>1, <2>4, <2>7, <2>10, OneConnection
  <1> QED
    BY <1>2, <1>3

LEMMA InspectRequestStep ==
    ASSUME ProxyTypeOK, ProxyInv, NEW c \in Conns, InspectRequest(c)
    PROVE  ProxyTypeOK' /\ ProxyInv'
  <1>1. conn[c].pc = "inspect" /\ Env
    BY DEF InspectRequest
  <1>2. CASE Deny(c, "inspection") \/ Deny(c, "dlp")
    BY <1>1, <1>2, DenyStep DEF Evaluating
  <1>3. CASE ~(Deny(c, "inspection") \/ Deny(c, "dlp"))
    <2>1. PICK o \in Connection : o = conn[c] /\ Good(o)
      BY ConnType DEF ProxyInv
    <2>2. PICK s : s = NextStage(c)
      OBVIOUS
    <2>3. PICK r : r = [o EXCEPT !.pc = s]
      OBVIOUS
    <2>4. o.body \in Readers /\ o.stage \in {"http", "connect", "sni"}
      BY <1>1, <2>1 DEF Connection, Good, StageFits, Evaluating
    <2>5. /\ ~Violates(o.body.chunks) /\ ~ReadFails(o.body)
          /\ conn' = [conn EXCEPT ![c].pc = s, ![c].body.chunks = restored(@)]
      BY <1>3, <2>1, <2>2 DEF InspectRequest
    <2>6. [o.body EXCEPT !.chunks = restored(o.body.chunks)] = o.body
      BY <2>4, RestoredReader
    <2>7. conn' = [conn EXCEPT ![c].pc = s, ![c].body = o.body]
      BY <2>1, <2>5, <2>6, ConnType DEF Connection
    <2>8. conn' = [conn EXCEPT ![c] = r]
      BY <2>1, <2>3, <2>7, ConnType DEF Connection
    <2>9. /\ o.stage = "http" => s = "forward"
          /\ o.stage = "connect" => s = "hello"
          /\ o.stage = "sni" => s = "handshake"
      BY <2>1, <2>2 DEF NextStage
    <2>10. /\ r \in Connection /\ r.pc = s /\ r.stage = o.stage /\ r.host = o.host
           /\ r.audits = o.audits /\ r.reason = o.reason /\ r.answer = o.answer
           /\ r.body = o.body /\ r.sent = o.sent /\ r.token = o.token
           /\ r.granted = o.granted
      BY <2>3, <2>4, <2>9 DEF Connection
    <2>11. Good(r)
      BY <1>1, <2>1, <2>4, <2>5, <2>9, <2>10 DEF Good, StageFits, NotYetAudited, DecidedForEntitled, WasAllowed,
                BodyKept, Emptied, Audited, Evaluating, InTunnel
    <2> QED
      BY <1>1, <2>8, <2>10, <2>11, OneConnection
  <1> QED
    BY <1>2, <1>3

LEMMA ForwardStep ==
    ASSUME ProxyTypeOK, ProxyInv, NEW c \in Conns, Forward(c)
    PROVE  ProxyTypeOK' /\ ProxyInv'
  <1>1. conn[c].pc = "forward" /\ Env
    BY DEF Forward
  <1>2. CASE Ends(c, "upstream", "none", "allowed")
    BY <1>1, <1>2, EndsStep
  <1>3. CASE Ends(c, "502", "upstream", "blocked")
    BY <1>1, <1>3, EndsStep
  <1> QED
    BY <1>2, <1>3 DEF Forward

-----------------------------------------------------------------------------
(* The CONNECT tunnel *)

\* A connection that goes on, and keeps what was sent and granted, is in order.
LEMMA GoesTo ==
    ASSUME ProxyTypeOK, ProxyInv, Env, NEW c \in Conns, NEW s \in {"loop", "done"},
           conn[c].pc = "handshake" \/ (conn[c].pc \in {"loop", "twrite"} /\ s = "done"),
           Goto(c, s)
    PROVE  ProxyTypeOK' /\ ProxyInv'
  <1>1. PICK o \in Connection : o = conn[c] /\ Good(o)
    BY ConnType DEF ProxyInv
  <1>2. PICK r : r = [o EXCEPT !.pc = s]
    OBVIOUS
  <1>3. conn' = [conn EXCEPT ![c] = r]
    BY <1>1, <1>2, GotoEffect
  <1>4. /\ r \in Connection /\ r.pc = s /\ r.stage = o.stage /\ r.host = o.host
        /\ r.audits = o.audits /\ r.reason = o.reason /\ r.answer = o.answer
        /\ r.token = o.token /\ r.granted = o.granted
    BY <1>2 DEF Connection
  <1>5. /\ o.stage = "sni" /\ o.host \in Hosts
        /\ \E t \in Entitled(o.token) : <<t, o.host>> \in o.granted
        /\ o.reason = "dlp" => o.audits = <<"blocked">>
        /\ o.reason \notin {"tenant", "load", "policy"} \/ o.audits = <<"blocked">>
    BY <1>1 DEF Good, StageFits, WasAllowed, Audited, InTunnel
  <1>6. s = "loop" => o.audits = <<>> /\ o.reason = "none" /\ o.answer \in {"none", "200"}
    BY <1>1 DEF Good, NotYetAudited
  <1>7. ASSUME s = "done" PROVE Good(r)
    BY <1>4, <1>5, <1>7 DEF Good, StageFits, NotYetAudited, DecidedForEntitled,
                      WasAllowed, BodyKept, Emptied, Audited, Evaluating, InTunnel
  <1>8. ASSUME s = "loop" PROVE Good(r)
    <2>1. Audited(r)
      <3>1. <<>> # <<"allowed">>
        OBVIOUS
      <3> QED
        BY <1>4, <1>6, <1>8, <3>1 DEF Audited
    <2> QED
      BY <1>4, <1>5, <1>8, <2>1 DEF Good, StageFits, NotYetAudited, DecidedForEntitled,
                      WasAllowed, BodyKept, Evaluating, InTunnel
  <1> QED
    BY <1>3, <1>4, <1>7, <1>8, OneConnection

LEMMA PeekSNIStep ==
    ASSUME ProxyTypeOK, ProxyInv, NEW c \in Conns, PeekSNI(c)
    PROVE  ProxyTypeOK' /\ ProxyInv'
  <1>1. conn[c].pc = "hello" /\ Env
    BY DEF PeekSNI
  <1>2. PICK sni \in Hosts \cup {NoHost} :
            conn' = [conn EXCEPT ![c].pc = "identify", ![c].stage = "sni", ![c].sni = sni]
    BY DEF PeekSNI
  <1>3. PICK o \in Connection : o = conn[c] /\ Good(o)
    BY ConnType DEF ProxyInv
  <1>4. PICK r : r = [o EXCEPT !.pc = "identify", !.stage = "sni", !.sni = sni]
    OBVIOUS
  <1>5. conn' = [conn EXCEPT ![c] = r]
    BY <1>2, <1>3, <1>4, ConnType
  <1>6. /\ r \in Connection /\ r.pc = "identify" /\ r.stage = "sni" /\ r.host = o.host
        /\ r.audits = o.audits /\ r.reason = o.reason /\ r.answer = o.answer
        /\ r.body = o.body /\ r.sent = o.sent
    BY <1>4, ZenonT(40) DEF Connection
  <1>7. Good(r)
    BY <1>1, <1>3, <1>6 DEF Good, StageFits, NotYetAudited, DecidedForEntitled,
                      WasAllowed, BodyKept, Emptied, Audited, Evaluating, InTunnel
  <1> QED
    BY <1>1, <1>5, <1>6, <1>7, OneConnection

LEMMA HandshakeStep ==
    ASSUME ProxyTypeOK, ProxyInv, NEW c \in Conns, Handshake(c)
    PROVE  ProxyTypeOK' /\ ProxyInv'
  BY GoesTo DEF Handshake

LEMMA ReadRequestStep ==
    ASSUME ProxyTypeOK, ProxyInv, NEW c \in Conns, ReadRequest(c)
    PROVE  ProxyTypeOK' /\ ProxyInv'
  <1>1. conn[c].pc = "loop" /\ Env
    BY DEF ReadRequest
  <1>2. CASE Goto(c, "done")
    BY <1>1, <1>2, GoesTo
  <1>3. PICK o \in Connection : o = conn[c] /\ Good(o)
    BY ConnType DEF ProxyInv
  <1>4. CASE conn' = [conn EXCEPT ![c].pc = "done", ![c].audits = <<"blocked">>]
    <2>1. PICK r : r = [o EXCEPT !.pc = "done", !.audits = <<"blocked">>]
      OBVIOUS
    <2>2. conn' = [conn EXCEPT ![c] = r]
      BY <1>3, <1>4, <2>1, ConnType
    <2>3. /\ r \in Connection /\ r.pc = "done" /\ r.stage = o.stage
          /\ r.audits = <<"blocked">> /\ r.reason = o.reason /\ r.answer = o.answer
      BY <2>1, ZenonT(40) DEF Connection
    <2>4. Good(r)
      BY <1>1, <1>3, <2>3 DEF Good, StageFits, NotYetAudited, DecidedForEntitled,
                      WasAllowed, BodyKept, Emptied, Audited, Evaluating, InTunnel
    <2> QED
      BY <1>1, <2>2, <2>3, <2>4, OneConnection
  <1>5. ASSUME NEW b \in SentBodies,
               conn' = [conn EXCEPT ![c].pc = "tinspect", ![c].sent = b, ![c].body = ReaderOf(b),
                                    ![c].answer = "none", ![c].audits = <<>>,
                                    ![c].reason = "none",
                                    ![c].genuine = ~conn[c].unread, ![c].unread = FALSE]
        PROVE  ProxyTypeOK' /\ ProxyInv'
    <2>1. b \in Bodies /\ ReaderOf(b) \in Readers
      BY BodyReaders DEF SentBodies
    <2>2. PICK f : f = [o EXCEPT !.sent = b, !.body = ReaderOf(b)]
      OBVIOUS
    <2>3. PICK g \in BOOLEAN : g = ~o.unread
      OBVIOUS
    <2>4. PICK h : h = [f EXCEPT !.pc = "tinspect", !.answer = "none", !.audits = <<>>,
                                 !.reason = "none"]
      OBVIOUS
    <2>5. PICK r : r = [h EXCEPT !.genuine = g, !.unread = FALSE]
      OBVIOUS
    <2>6. /\ f \in Connection /\ f.stage = o.stage /\ f.host = o.host /\ f.body = ReaderOf(b)
          /\ f.sent = b /\ f.token = o.token /\ f.granted = o.granted
      BY <2>1, <2>2 DEF Connection
    <2>7. /\ h \in Connection /\ h.pc = "tinspect" /\ h.stage = o.stage /\ h.host = o.host
          /\ h.audits = <<>> /\ h.reason = "none" /\ h.answer = "none"
          /\ h.body = ReaderOf(b) /\ h.sent = b /\ h.token = o.token /\ h.granted = o.granted
      <3>1. PICK pc \in {"loop", "tinspect"}, answer \in {"none", "400", "403", "502", "upstream"},
                 reason \in {"none", "inspection", "dlp", "upstream"},
                 audits \in {<<>>, <<"allowed">>, <<"blocked">>} :
              pc = "tinspect" /\ answer = "none" /\ reason = "none" /\ audits = <<>>
        OBVIOUS
      <3>2. [f EXCEPT !.pc = pc, !.answer = answer, !.reason = reason, !.audits = audits]
                \in Connection
        BY <2>6, <3>1, AnswerFields
      <3>3. h \in Connection
        BY <2>4, <3>1, <3>2
      <3> QED
        BY <2>4, <2>6, <3>3 DEF Connection
    <2>8. /\ r \in Connection /\ r.pc = "tinspect" /\ r.stage = o.stage /\ r.host = o.host
          /\ r.audits = <<>> /\ r.reason = "none" /\ r.answer = "none"
          /\ r.body = ReaderOf(b) /\ r.sent = b /\ r.token = o.token /\ r.granted = o.granted
      <3>1. PICK k : k = [h EXCEPT !.unread = FALSE]
        OBVIOUS
      <3>2. /\ k \in Connection /\ k.pc = "tinspect" /\ k.stage = o.stage /\ k.host = o.host
            /\ k.audits = <<>> /\ k.reason = "none" /\ k.answer = "none"
            /\ k.body = ReaderOf(b) /\ k.sent = b /\ k.token = o.token /\ k.granted = o.granted
        BY <2>7, <3>1, ZenonT(40) DEF Connection
      <3>3. r = [k EXCEPT !.genuine = g]
        BY <2>5, <3>1
      <3>4. r \in Connection
        BY <3>2, <3>3, GenuineField
      <3> QED
        BY <3>2, <3>3, <3>4 DEF Connection
    <2>9. conn' = [conn EXCEPT ![c] = r]
      <3>1. r = [o EXCEPT !.pc = "tinspect", !.sent = b, !.body = ReaderOf(b),
                          !.answer = "none", !.audits = <<>>, !.reason = "none",
                          !.genuine = g, !.unread = FALSE]
        BY <2>2, <2>4, <2>5
      <3> QED
        BY <1>3, <1>5, <2>3, <3>1, ConnType
    <2>10. Good(r)
      BY <1>1, <1>3, <2>8 DEF Good, StageFits, NotYetAudited, DecidedForEntitled,
                      WasAllowed, BodyKept, Emptied, Audited, Evaluating, InTunnel
    <2> QED
      BY <1>1, <2>8, <2>9, <2>10, OneConnection
  <1> QED
    BY <1>2, <1>4, <1>5 DEF ReadRequest

\* An answer inside the tunnel is in order when its audit record fits it.
LEMMA ReplyStep ==
    ASSUME ProxyTypeOK, ProxyInv, Env, NEW c \in Conns, conn[c].pc \in InTunnel,
           NEW answer \in {"400", "403", "502", "upstream"},
           NEW reason \in {"none", "inspection", "dlp", "upstream"},
           NEW audits \in {<<>>, <<"allowed">>, <<"blocked">>},
           NEW unread \in BOOLEAN,
           answer = "upstream" => audits = <<"allowed">>,
           answer = "403" => audits = <<"blocked">>,
           answer \in {"400", "502"} => audits = <<>>,
           reason = "dlp" => answer = "403",
           Reply(c, answer, reason, audits, unread)
    PROVE  ProxyTypeOK' /\ ProxyInv'
  <1>1. PICK o \in Connection : o = conn[c] /\ Good(o)
    BY ConnType DEF ProxyInv
  <1>2. PICK r : r = [o EXCEPT !.pc = "loop", !.answer = answer, !.reason = reason,
                               !.audits = audits, !.unread = unread, !.sent = NoBody,
                               !.body = Exhausted]
    OBVIOUS
  <1>3. conn' = [conn EXCEPT ![c] = r]
    BY <1>1, <1>2, ConnType DEF Reply
  <1>4. /\ r \in Connection /\ r.pc = "loop" /\ r.stage = o.stage /\ r.host = o.host
        /\ r.audits = audits /\ r.reason = reason /\ r.answer = answer
        /\ r.token = o.token /\ r.granted = o.granted
    <2>1. PICK f : f = [o EXCEPT !.sent = NoBody, !.body = Exhausted]
      OBVIOUS
    <2>2. /\ f \in Connection /\ f.stage = o.stage /\ f.host = o.host
          /\ f.token = o.token /\ f.granted = o.granted
      BY <2>1, BodyReaders, ZenonT(40) DEF Connection
    <2>3. PICK h : h = [f EXCEPT !.pc = "loop", !.answer = answer, !.reason = reason,
                                 !.audits = audits]
      OBVIOUS
    <2>4. /\ h \in Connection /\ h.pc = "loop" /\ h.stage = o.stage /\ h.host = o.host
          /\ h.audits = audits /\ h.reason = reason /\ h.answer = answer
          /\ h.token = o.token /\ h.granted = o.granted
      <3>1. h \in Connection
        BY <2>2, <2>3, AnswerFields, ZenonT(40)
      <3> QED
        BY <2>2, <2>3, <3>1 DEF Connection
    <2>5. r = [h EXCEPT !.unread = unread]
      BY <1>2, <2>1, <2>3
    <2>6. r \in Connection
      BY <2>4, <2>5 DEF Connection
    <2> QED
      BY <2>4, <2>5, <2>6 DEF Connection
  <1>5. Good(r)
    BY <1>1, <1>4 DEF Good, StageFits, NotYetAudited, DecidedForEntitled,
                      WasAllowed, BodyKept, Emptied, Audited, Evaluating, InTunnel
  <1> QED
    BY <1>3, <1>4, <1>5, OneConnection

\* inspectAndPreserve found nothing: the body goes on as it was.
LEMMA PassesInspection ==
    ASSUME ProxyTypeOK, ProxyInv, Env, NEW c \in Conns, NEW s,
           \/ conn[c].pc = "tinspect" /\ s = "tforward"
           \/ conn[c].pc = "tresponse" /\ s = "twrite",
           ~Violates(conn[c].body.chunks),
           conn' = [conn EXCEPT ![c].pc = s, ![c].body.chunks = restored(@)]
    PROVE  ProxyTypeOK' /\ ProxyInv'
  <1>1. PICK o \in Connection : o = conn[c] /\ Good(o)
    BY ConnType DEF ProxyInv
  <1>2. PICK r : r = [o EXCEPT !.pc = s]
    OBVIOUS
  <1>3. o.body \in Readers
    BY DEF Connection
  <1>4. [o.body EXCEPT !.chunks = restored(o.body.chunks)] = o.body
    BY <1>3, RestoredReader
  <1>5. conn' = [conn EXCEPT ![c].pc = s, ![c].body = o.body]
    BY <1>1, <1>4, ConnType DEF Connection
  <1>6. conn' = [conn EXCEPT ![c] = r]
    <2>1. r = [o EXCEPT !.pc = s, !.body = o.body]
      BY <1>2 DEF Connection
    <2> QED
      BY <1>1, <1>5, <2>1, ConnType
  <1>7. /\ r \in Connection /\ r.pc = s /\ r.stage = o.stage /\ r.host = o.host
        /\ r.audits = o.audits /\ r.reason = o.reason /\ r.answer = o.answer
        /\ r.body = o.body /\ r.sent = o.sent /\ r.token = o.token
        /\ r.granted = o.granted
    BY <1>2 DEF Connection
  <1>8. ~Violates(r.body.chunks)
    BY <1>1, <1>7
  <1>9. Good(r)
    BY <1>1, <1>7, <1>8 DEF Good, StageFits, NotYetAudited, DecidedForEntitled,
                      WasAllowed, BodyKept, Emptied, Audited, Evaluating, InTunnel
  <1> QED
    BY <1>6, <1>7, <1>9, OneConnection

LEMMA TunnelInspectStep ==
    ASSUME ProxyTypeOK, ProxyInv, NEW c \in Conns, TunnelInspect(c)
    PROVE  ProxyTypeOK' /\ ProxyInv'
  <1>1. conn[c].pc = "tinspect" /\ Env /\ conn[c].pc \in InTunnel
    BY DEF TunnelInspect, InTunnel
  <1>2. CASE Reply(c, "400", "inspection", <<>>, FALSE)
    BY <1>1, <1>2, ReplyStep
  <1>3. CASE Reply(c, "403", "dlp", <<"blocked">>, Uninspected(c))
    <2>1. PICK unread : unread = Uninspected(c)
      OBVIOUS
    <2>2. unread \in BOOLEAN /\ Reply(c, "403", "dlp", <<"blocked">>, unread)
      BY <1>3, <2>1 DEF Uninspected
    <2> QED
      BY <1>1, <2>2, ReplyStep
  <1>4. CASE /\ ~Violates(conn[c].body.chunks)
             /\ conn' = [conn EXCEPT ![c].pc = "tforward", ![c].body.chunks = restored(@)]
    BY <1>1, <1>4, PassesInspection
  <1> QED
    BY <1>2, <1>3, <1>4 DEF TunnelInspect

LEMMA TunnelForwardStep ==
    ASSUME ProxyTypeOK, ProxyInv, NEW c \in Conns, TunnelForward(c)
    PROVE  ProxyTypeOK' /\ ProxyInv'
  <1>1. conn[c].pc = "tforward" /\ Env /\ conn[c].pc \in InTunnel
    BY DEF TunnelForward, InTunnel
  <1>2. CASE Reply(c, "502", "upstream", <<>>, FALSE)
    BY <1>1, <1>2, ReplyStep
  <1>3. CASE \E response \in [chunks : Chunks, end : {"eof", "error"}],
                unread \in {FALSE, Uninspected(c)} :
                conn' = [conn EXCEPT ![c].pc = "tresponse", ![c].sent = NoBody,
                                     ![c].body = response, ![c].unread = unread]
    <2>1. PICK response \in Readers, unread \in BOOLEAN :
              conn' = [conn EXCEPT ![c].pc = "tresponse", ![c].sent = NoBody,
                                   ![c].body = response, ![c].unread = unread]
      BY <1>3 DEF Readers, Ending, Uninspected
    <2>2. PICK o \in Connection : o = conn[c] /\ Good(o)
      BY ConnType DEF ProxyInv
    <2>3. PICK r : r = [o EXCEPT !.pc = "tresponse", !.sent = NoBody, !.body = response,
                                 !.unread = unread]
      OBVIOUS
    <2>4. conn' = [conn EXCEPT ![c] = r]
      BY <2>1, <2>2, <2>3, ConnType
    <2>5. /\ r \in Connection /\ r.pc = "tresponse" /\ r.stage = o.stage /\ r.host = o.host
          /\ r.audits = o.audits /\ r.reason = o.reason /\ r.answer = o.answer
          /\ r.token = o.token /\ r.granted = o.granted
      BY <2>3, BodyReaders, ZenonT(40) DEF Connection
    <2>6. Good(r)
      BY <1>1, <2>2, <2>5 DEF Good, StageFits, NotYetAudited, DecidedForEntitled,
                      WasAllowed, BodyKept, Emptied, Audited, Evaluating, InTunnel
    <2> QED
      BY <1>1, <2>4, <2>5, <2>6, OneConnection
  <1> QED
    BY <1>2, <1>3 DEF TunnelForward

LEMMA TunnelResponseStep ==
    ASSUME ProxyTypeOK, ProxyInv, NEW c \in Conns, TunnelResponse(c)
    PROVE  ProxyTypeOK' /\ ProxyInv'
  <1>1. conn[c].pc = "tresponse" /\ Env /\ conn[c].pc \in InTunnel
    BY DEF TunnelResponse, InTunnel
  <1>2. PICK u \in BOOLEAN : u = conn[c].unread
    BY ConnType DEF Connection
  <1>3. CASE Reply(c, "502", "inspection", <<>>, u)
    BY <1>1, <1>3, ReplyStep
  <1>4. CASE Reply(c, "403", "dlp", <<"blocked">>, u)
    BY <1>1, <1>4, ReplyStep
  <1>5. CASE /\ ~Violates(conn[c].body.chunks)
             /\ conn' = [conn EXCEPT ![c].pc = "twrite", ![c].body.chunks = restored(@)]
    BY <1>1, <1>5, PassesInspection
  <1> QED
    BY <1>2, <1>3, <1>4, <1>5 DEF TunnelResponse

LEMMA TunnelWriteStep ==
    ASSUME ProxyTypeOK, ProxyInv, NEW c \in Conns, TunnelWrite(c)
    PROVE  ProxyTypeOK' /\ ProxyInv'
  <1>1. conn[c].pc = "twrite" /\ Env /\ conn[c].pc \in InTunnel
    BY DEF TunnelWrite, InTunnel
  <1>2. PICK u \in BOOLEAN : u = conn[c].unread
    BY ConnType DEF Connection
  <1>3. CASE Reply(c, "upstream", "none", <<"allowed">>, u)
    BY <1>1, <1>3, ReplyStep
  <1>4. CASE Goto(c, "done")
    BY <1>1, <1>4, GoesTo
  <1> QED
    BY <1>2, <1>3, <1>4 DEF TunnelWrite

-----------------------------------------------------------------------------
(* The theorems *)

\* Connections that stay as they are stay in order while the policies change.
LEMMA ConnectionsKept ==
    ASSUME ProxyTypeOK, ProxyInv, UNCHANGED <<strict, conn>>
    PROVE  ProxyInv'
  <1>1. \A s : Good(s)' <=> Good(s)
    BY GoodByStrict
  <1> QED
    BY <1>1 DEF ProxyInv

LEMMA PolicyChangesStep ==
    ASSUME ProxyTypeOK, ProxyInv, NEW t \in Tenants, PolicyChanges(t)
    PROVE  ProxyTypeOK' /\ ProxyInv'
  <1>1. strict' \in BOOLEAN /\ conn' \in [Conns -> Connection]
    BY ConnType DEF PolicyChanges
  <1>2. served' \in [Tenants -> SUBSET Hosts \cup {LoadFails}] /\ exists' \subseteq Tenants
    BY ConnType DEF PolicyChanges
  <1> QED
    BY <1>1, <1>2, ConnectionsKept DEF PolicyChanges, ProxyTypeOK, Connection

LEMMA ProxyStep == ProxyTypeOK /\ ProxyInv /\ [ProxyNext]_proxyVars => ProxyTypeOK' /\ ProxyInv'
  <1> SUFFICES ASSUME ProxyTypeOK, ProxyInv, [ProxyNext]_proxyVars
               PROVE  ProxyTypeOK' /\ ProxyInv'
    OBVIOUS
  <1>1. ASSUME NEW c \in Conns,
               Served(c) \/ ServeHTTP(c) \/ evaluate(c) \/ handleHTTP(c)
        PROVE  ProxyTypeOK' /\ ProxyInv'
    BY <1>1, ServedStep, ServeHTTPStep, IdentifyStep, DecideStep, InspectRequestStep,
       ScreenMCPStep, ForwardStep DEF evaluate, handleHTTP
  <1>2. ASSUME NEW c \in Conns, handleHTTPS(c)
        PROVE  ProxyTypeOK' /\ ProxyInv'
    BY <1>2, PeekSNIStep, HandshakeStep, ReadRequestStep, TunnelInspectStep, TunnelForwardStep,
       TunnelResponseStep, TunnelWriteStep DEF handleHTTPS
  <1>3. CASE UNCHANGED proxyVars
    BY <1>3, ConnectionsKept DEF proxyVars, ProxyTypeOK
  <1> QED
    BY <1>1, <1>2, <1>3, PolicyChangesStep DEF ProxyNext

\* The handlers keep their types and the inductive invariant.
THEOREM ProxyTypeCorrect == ProxySpec => [](ProxyTypeOK /\ ProxyInv)
  BY ProxyInitial, ProxyStep, PTL DEF ProxySpec

\* evaluate fails closed: whatever the policies do meanwhile, a request leaves only for a
\* host that a policy of a tenant its token speaks for allowed to this connection.
THEOREM OnlyAllowedLeaves == ProxySpec => []ForwardedWasAllowed
  <1>1. ProxyInv => ForwardedWasAllowed
    BY DEF ProxyInv, Good, WasAllowed, ForwardedWasAllowed, Leaving, InTunnel
  <1> QED
    BY <1>1, ProxyTypeCorrect, PTL

\* extractMCPInfo, inspectAndPreserve: what leaves was inspected up to the limit and is what
\* was sent, but for a plain request that lost its failing body in extractMCPInfo.
THEOREM LeavesIntact == ProxySpec => []InspectedAndIntact
  <1>1. ASSUME NEW r, r.pc = "forward", Good(r)
        PROVE  \/ r.body = ReaderOf(r.sent)
               \/ /\ r.stage = "http" /\ r.body.chunks = <<>>
                  /\ r.sent.end = "short" \/ (r.sent.end = "error" /\ MaxInspect = 0)
    <2>1. r.body = ReaderOf(r.sent) \/ (Emptied(r) /\ ~ReadFails(r.body))
      BY <1>1 DEF Good, BodyKept
    <2>2. Len(<<>>) = 0
      OBVIOUS
    <2> QED
      BY <2>1, <2>2, ProxyBoundsAssumption DEF Emptied, ReadFails
  <1>2. ProxyInv => InspectedAndIntact
    BY <1>1 DEF ProxyInv, Good, BodyKept, InspectedAndIntact, Leaving
  <1> QED
    BY <1>2, ProxyTypeCorrect, PTL

\* logAudit: a plain request's one record agrees with its answer, every denial has one that
\* says "blocked", and in a tunnel what was passed on or refused for DLP has one each.
THEOREM AuditIsTrue == ProxySpec => []AuditMatchesAnswer
  <1>1. ProxyInv => AuditMatchesAnswer
    BY DEF ProxyInv, Good, Audited, AuditMatchesAnswer
  <1> QED
    BY <1>1, ProxyTypeCorrect, PTL
=============================================================================
