------------------------------- MODULE Proxy --------------------------------
(***************************************************************************)
(* The proxy's request handlers: handleHTTP, handleHTTPS with its request  *)
(* loop, evaluate, the MCP screen and the DLP inspector (proxy/server.go,  *)
(* https_interceptor.go, mcp.go, inspector/dlp.go, auth/auth.go).          *)
(*                                                                         *)
(* Each connection is served by a goroutine of its own.  They meet in the  *)
(* tenants' policies only, which change under them at any time: what the   *)
(* registry serves for a tenant is a set of blocked hosts or a failed load.*)
(*                                                                         *)
(* A body is a reader over chunks, plain or with sensitive data; the       *)
(* inspector sees the first MaxInspect of them.  What is read from it is   *)
(* gone unless the code puts it back.  Its end is clean, or an error: a    *)
(* body cut short of its Content-Length fails once and is at its end from  *)
(* then on (net/http has seen EOF), malformed chunks or a failing          *)
(* connection fail every reader.                                           *)
(***************************************************************************)
EXTENDS Integers, Sequences, FiniteSets

CONSTANTS
    Conns,          \* client connections
    Tenants, NoTenant,
    Hosts, NoHost,
    DefaultTenant,  \* default_tenant_id, or NoTenant
    MaxInspect,     \* max_inspect_body_bytes, in chunks
    MaxBody         \* bound: chunks of a body

ASSUME ProxyBoundsAssumption == MaxInspect \in Nat /\ MaxBody \in Nat
ASSUME ProxyNamesAssumption ==
    NoTenant \notin Tenants /\ NoHost \notin Hosts /\ DefaultTenant \in Tenants \cup {NoTenant}

VARIABLES
    strict,   \* tenant_mode is "strict", read once from the configuration
    served,   \* tenant -> blocked hosts of the policy the registry serves, or LoadFails
    exists,   \* tenants whose policy.db is on disk
    conn      \* the connections

proxyVars == <<strict, served, exists, conn>>

LoadFails == Hosts \cup {NoHost}

\* What a client can send: its token, and a body of some kind.
Tokens == {"missing", "invalid", "noclaim"} \cup Tenants
Chunks == UNION {[1 .. n -> {"plain", "secret"}] : n \in 0 .. MaxBody}
Ending == {"eof", "short", "error"}
Readers == [chunks : Chunks, end : Ending]
Exhausted == [chunks |-> <<>>, end |-> "eof"]
Kinds == {"none", "other", "rpc"}  \* "rpc" is a JSON-RPC call of a known MCP method
Bodies == [kind : Kinds, chunks : Chunks, end : Ending]
NoBody == [kind |-> "none", chunks |-> <<>>, end |-> "eof"]
ReaderOf(b) == [chunks |-> b.chunks, end |-> b.end]

\* Any body can fail, after any part of it.
SentBodies ==
    {b \in Bodies : IF b.end = "eof" THEN b.kind = "none" <=> b.chunks = <<>>
                                     ELSE b.kind = "other"}

Fresh == [pc |-> "idle", stage |-> "new", token |-> "missing", host |-> NoHost,
          sni |-> NoHost, mcpHeader |-> FALSE, sent |-> NoBody, body |-> Exhausted,
          tenant |-> NoTenant, answer |-> "none", reason |-> "none", audits |-> <<>>,
          granted |-> {}, unread |-> FALSE, genuine |-> TRUE]

ProxyTypeOK ==
    /\ strict \in BOOLEAN
    /\ served \in [Tenants -> SUBSET Hosts \cup {LoadFails}]
    /\ exists \subseteq Tenants
    /\ conn \in [Conns ->
         [pc : {"idle", "done", "mcp", "identify", "decide", "inspect", "forward", "hello",
                "handshake", "loop", "tinspect", "tforward", "tresponse", "twrite"},
          stage : {"new", "http", "connect", "sni"},
          token : Tokens, host : Hosts \cup {NoHost}, sni : Hosts \cup {NoHost},
          mcpHeader : BOOLEAN, sent : Bodies, body : Readers,
          tenant : Tenants \cup {NoTenant},
          answer : {"none", "400", "403", "502", "200", "upstream"},
          reason : {"none", "mcp", "tenant", "load", "policy", "inspection", "dlp", "upstream"},
          audits : {<<>>, <<"allowed">>, <<"blocked">>},
          granted : SUBSET (Tenants \X Hosts),
          unread : BOOLEAN, genuine : BOOLEAN]]

-----------------------------------------------------------------------------
(* Identity, MCP and DLP *)

\* Mutant: strict mode falls back on the default tenant.
TenantRefusedLenient(token) ==
    \/ token = "noclaim" /\ DefaultTenant = NoTenant
    \/ token \in Tenants /\ strict /\ token \notin exists

\* ExtractAuthorizationnHeader and resolveTenantID: the errors evaluate blocks on.
TenantRefused(token) ==
    \/ token = "noclaim" /\ (strict \/ DefaultTenant = NoTenant)
    \/ token \in Tenants /\ strict /\ token \notin exists

\* The tenant evaluate goes on with; after any other error that is tenant 0.
TenantOf(token) == CASE token \in Tenants -> token
                     [] token = "noclaim" -> DefaultTenant
                     [] OTHER -> NoTenant

\* extractMCPInfo, as far as handleHTTP refuses the request for it.  A body that cannot be
\* read is Invalid too, but not IsMCP, and handleHTTP refuses only what is both.
MCPInvalid(c) ==
    conn[c].mcpHeader /\ conn[c].sent.end = "eof" /\ conn[c].sent.kind # "rpc"

\* Mutant: the body is not put back.
extractMCPInfoKeeps(body) ==
    [chunks |-> <<>>, end |-> IF body.end = "error" THEN "error" ELSE "eof"]

\* The body extractMCPInfo leaves behind.  It reads all of it and puts it back, unless
\* reading fails: then what was read is gone, and a body that was short is at its end.
extractMCPInfo(body) ==
    CASE body.end = "eof" -> body
      [] body.end = "short" -> Exhausted
      [] body.end = "error" -> [chunks |-> <<>>, end |-> "error"]

\* What the LimitedReader takes of a body, and what it leaves in it.
Inspected(chunks) ==
    SubSeq(chunks, 1, IF Len(chunks) < MaxInspect THEN Len(chunks) ELSE MaxInspect)
Rest(chunks) == SubSeq(chunks, MaxInspect + 1, Len(chunks))

\* io.ReadAll through the LimitedReader meets the error at the body's end.
ReadFails(body) == body.end # "eof" /\ Len(body.chunks) < MaxInspect

\* Mutant: what was inspected is not put back.
restoredForgotten(chunks) == Rest(chunks)

\* inspectAndPreserve: the inspected head is put back before the rest.
restored(chunks) == Inspected(chunks) \o Rest(chunks)

Violates(chunks) == \E i \in DOMAIN Inspected(chunks) : chunks[i] = "secret"

-----------------------------------------------------------------------------
(* Both handlers *)

Goto(c, pc) == conn' = [conn EXCEPT ![c].pc = pc]
Env == UNCHANGED <<strict, served, exists>>

\* The handler answers, writes its audit record and is done with the request.
Ends(c, answer, reason, action) ==
    conn' = [conn EXCEPT ![c].pc = "done", ![c].answer = answer, ![c].reason = reason,
                         ![c].audits = Append(@, action),
                         ![c].sent = NoBody, ![c].body = Exhausted]

\* Mutant: CONNECT is allowed to end unaudited.
DenyUnaudited(c, reason) ==
    conn' = [conn EXCEPT ![c].pc = "done", ![c].answer = "403", ![c].reason = reason]

\* evaluate said blocked.  A CONNECT has had its 200 by then, and http.Error on a hijacked
\* connection writes nothing.
Deny(c, reason) ==
    Ends(c, IF conn[c].stage = "http" THEN "403" ELSE "200", reason, "blocked")

\* net/http is ready for the connection's next request, or the next connection.
Served(c) ==
    /\ conn[c].pc = "done"
    /\ conn' = [conn EXCEPT ![c] = Fresh]
    /\ Env

\* ServeHTTP: a plain request, or a CONNECT, which is hijacked and answered at once unless
\* the hijack fails.
ServeHTTP(c) ==
    /\ conn[c].pc = "idle"
    /\ \E token \in Tokens, host \in Hosts :
         \/ \E h \in BOOLEAN, b \in SentBodies :
              conn' = [conn EXCEPT ![c] =
                        [Fresh EXCEPT !.pc = "mcp", !.stage = "http", !.token = token,
                                      !.host = host, !.mcpHeader = h, !.sent = b,
                                      !.body = ReaderOf(b)]]
         \/ conn' = [conn EXCEPT ![c] =
                       [Fresh EXCEPT !.pc = "identify", !.stage = "connect", !.token = token,
                                     !.host = host, !.answer = "200"]]
         \/ conn' = [conn EXCEPT ![c] = [Fresh EXCEPT !.pc = "done", !.stage = "connect"]]
    /\ Env

\* handleHTTP: extractMCPInfo, and a malformed MCP request is refused.
ScreenMCP(c) ==
    /\ conn[c].pc = "mcp"
    /\ IF MCPInvalid(c)
       THEN Ends(c, "400", "mcp", "blocked")
       ELSE conn' = [conn EXCEPT ![c].pc = "identify", ![c].body = extractMCPInfo(@)]
    /\ Env

\* evaluate: identity.
Identify(c) ==
    /\ conn[c].pc = "identify"
    /\ IF TenantRefused(conn[c].token)
       THEN Deny(c, "tenant")
       ELSE conn' = [conn EXCEPT ![c].pc = "decide", ![c].tenant = TenantOf(conn[c].token)]
    /\ Env

\* evaluate judges targetDomain(r).  That prefers the URL's host, which a CONNECT to an
\* authority (host:port) has, so the SNI put into r.Host is not looked at.
targetDomain(c) == conn[c].host

\* The tenants whose policy the registry can serve; tenant 0 is not one.
Loadable == {t \in Tenants : served[t] # LoadFails}

\* Mutant: an error of Decide lets the request pass.
DecideFailOpen(c) ==
    LET t == conn[c].tenant
    IN  /\ conn[c].pc = "decide"
        /\ \/ /\ t \notin Loadable
              /\ Goto(c, "inspect")
           \/ /\ t \in Loadable
              /\ IF targetDomain(c) \in served[t]
                 THEN Deny(c, "policy")
                 ELSE conn' = [conn EXCEPT ![c].pc = "inspect",
                                           ![c].granted = @ \cup {<<t, targetDomain(c)>>}]
        /\ Env

\* evaluate: Policy.Decide.  Every error blocks, whatever action Decide returned with it.
Decide(c) ==
    LET t == conn[c].tenant
    IN  /\ conn[c].pc = "decide"
        /\ \/ /\ t \notin Loadable
              /\ Deny(c, "load")
           \/ /\ t \in Loadable
              /\ IF targetDomain(c) \in served[t]
                 THEN Deny(c, "policy")
                 ELSE conn' = [conn EXCEPT ![c].pc = "inspect",
                                           ![c].granted = @ \cup {<<t, targetDomain(c)>>}]
        /\ Env

\* Where evaluate returns to.
NextStage(c) == CASE conn[c].stage = "http" -> "forward"
                  [] conn[c].stage = "connect" -> "hello"
                  [] conn[c].stage = "sni" -> "handshake"

\* evaluate: what extractMCPInfo left of the request's body.
InspectRequest(c) ==
    /\ conn[c].pc = "inspect"
    /\ \/ /\ ReadFails(conn[c].body)
          /\ Deny(c, "inspection")
       \/ /\ ~ReadFails(conn[c].body)
          /\ IF Violates(conn[c].body.chunks)
             THEN Deny(c, "dlp")
             ELSE conn' = [conn EXCEPT ![c].pc = NextStage(c), ![c].body.chunks = restored(@)]
    /\ Env

\* Mutant: handleHTTP goes on after the 502.
ForwardGoesOn(c) ==
    /\ conn[c].pc = "forward"
    /\ \/ Ends(c, "upstream", "none", "allowed")
       \/ conn' = [conn EXCEPT ![c].pc = "done", ![c].answer = "502",
                               ![c].audits = <<"blocked", "allowed">>]
    /\ Env

\* handleHTTP: RoundTrip, and its answer or 502.
Forward(c) ==
    /\ conn[c].pc = "forward"
    /\ \/ Ends(c, "upstream", "none", "allowed")
       \/ Ends(c, "502", "upstream", "blocked")
    /\ Env

-----------------------------------------------------------------------------
(* The CONNECT tunnel *)

\* The ClientHello is looked at, and has a name or none that can be found; then evaluate
\* a second time.
PeekSNI(c) ==
    /\ conn[c].pc = "hello"
    /\ \E sni \in Hosts \cup {NoHost} :
         conn' = [conn EXCEPT ![c].pc = "identify", ![c].stage = "sni", ![c].sni = sni]
    /\ Env

Handshake(c) ==
    /\ conn[c].pc = "handshake"
    /\ Goto(c, "loop") \/ Goto(c, "done")
    /\ Env

\* One request is read from the tunnel, or it ends: at EOF, or with an audited error.
\* Whatever is left of the last request's body is read as the next request.
ReadRequest(c) ==
    /\ conn[c].pc = "loop"
    /\ \/ Goto(c, "done")
       \/ conn' = [conn EXCEPT ![c].pc = "done", ![c].audits = <<"blocked">>]
       \/ \E b \in SentBodies :
            conn' = [conn EXCEPT ![c].pc = "tinspect", ![c].sent = b, ![c].body = ReaderOf(b),
                                 ![c].answer = "none", ![c].audits = <<>>,
                                 ![c].reason = "none",
                                 ![c].genuine = ~conn[c].unread, ![c].unread = FALSE]
    /\ Env

\* An answer inside the tunnel, after which the loop is done with the request.
Reply(c, answer, reason, audits, unread) ==
    conn' = [conn EXCEPT ![c].pc = "loop", ![c].answer = answer, ![c].reason = reason,
                         ![c].audits = audits, ![c].unread = unread,
                         ![c].sent = NoBody, ![c].body = Exhausted]

\* Part of the request's body is still to be read from the tunnel.
Uninspected(c) == Rest(conn[c].body.chunks) # <<>>

\* The loop's DLP check of a request.  A failed read closes the body and leaves nothing of a
\* request in the tunnel that was whole; a violation leaves what was not inspected.
TunnelInspect(c) ==
    /\ conn[c].pc = "tinspect"
    /\ \/ /\ ReadFails(conn[c].body)
          /\ Reply(c, "400", "inspection", <<>>, FALSE)
       \/ /\ ~ReadFails(conn[c].body)
          /\ IF Violates(conn[c].body.chunks)
             THEN Reply(c, "403", "dlp", <<"blocked">>, Uninspected(c))
             ELSE conn' = [conn EXCEPT ![c].pc = "tforward", ![c].body.chunks = restored(@)]
    /\ Env

\* RoundTrip to the CONNECT's host.  A failure closes the body, is answered and not
\* audited; a response may come before the transport has read all of the body.  The
\* response's body may fail too.
TunnelForward(c) ==
    /\ conn[c].pc = "tforward"
    /\ \/ Reply(c, "502", "upstream", <<>>, FALSE)
       \/ \E response \in [chunks : Chunks, end : {"eof", "error"}],
             unread \in {FALSE, Uninspected(c)} :
            conn' = [conn EXCEPT ![c].pc = "tresponse", ![c].sent = NoBody,
                                 ![c].body = response, ![c].unread = unread]
    /\ Env

\* The DLP check of the upstream's response.
TunnelResponse(c) ==
    /\ conn[c].pc = "tresponse"
    /\ \/ /\ ReadFails(conn[c].body)
          /\ Reply(c, "502", "inspection", <<>>, conn[c].unread)
       \/ /\ ~ReadFails(conn[c].body)
          /\ IF Violates(conn[c].body.chunks)
             THEN Reply(c, "403", "dlp", <<"blocked">>, conn[c].unread)
             ELSE conn' = [conn EXCEPT ![c].pc = "twrite", ![c].body.chunks = restored(@)]
    /\ Env

\* The response goes into the tunnel; the client may be gone, or its rest fail.
TunnelWrite(c) ==
    /\ conn[c].pc = "twrite"
    /\ \/ /\ conn[c].body.end = "eof"
          /\ Reply(c, "upstream", "none", <<"allowed">>, conn[c].unread)
       \/ Goto(c, "done")
    /\ Env

-----------------------------------------------------------------------------
\* The registry serves another policy of t from now on, or fails to load it; policy.db
\* comes and goes.
PolicyChanges(t) ==
    /\ \/ /\ \E p \in SUBSET Hosts \cup {LoadFails} : served' = [served EXCEPT ![t] = p]
          /\ UNCHANGED exists
       \/ exists' \in {exists \cup {t}, exists \ {t}} /\ UNCHANGED served
    /\ UNCHANGED <<strict, conn>>

ProxyInit ==
    /\ strict \in BOOLEAN
    /\ served \in [Tenants -> SUBSET Hosts \cup {LoadFails}]
    /\ exists \in SUBSET Tenants
    /\ conn = [c \in Conns |-> Fresh]

evaluate(c) == Identify(c) \/ Decide(c) \/ InspectRequest(c)
handleHTTP(c) == ScreenMCP(c) \/ Forward(c)
handleHTTPS(c) ==
    \/ PeekSNI(c) \/ Handshake(c) \/ ReadRequest(c) \/ TunnelInspect(c)
    \/ TunnelForward(c) \/ TunnelResponse(c) \/ TunnelWrite(c)

ProxyNext ==
    \/ \E c \in Conns :
         Served(c) \/ ServeHTTP(c) \/ evaluate(c) \/ handleHTTP(c) \/ handleHTTPS(c)
    \/ \E t \in Tenants : PolicyChanges(t)

ProxySpec == ProxyInit /\ [][ProxyNext]_proxyVars

-----------------------------------------------------------------------------
(* Properties *)

\* A request is about to leave for the upstream.
Leaving(c) == conn[c].pc \in {"forward", "tforward"}

\* The tenants a token speaks for: the one it names and, outside strict mode, the default
\* for a valid token that names none.
Entitled(token) ==
    {t \in Tenants : t = token \/ (token = "noclaim" /\ ~strict /\ t = DefaultTenant)}

\* evaluate, handleHTTP, handleHTTPS: nothing is sent upstream unless a policy of a tenant
\* the token speaks for allowed that host to this connection.  evaluate goes on after an
\* authentication error, so this rests on every error of Decide blocking.
ForwardedWasAllowed ==
    \A c \in Conns : Leaving(c) =>
        \E t \in Entitled(conn[c].token) : <<t, conn[c].host>> \in conn[c].granted

\* extractMCPInfo and then inspectAndPreserve read and put back one body: a request leaves
\* inspected as far as the limit goes and as the client sent it, with one exception.  A
\* plain request whose body fails while extractMCPInfo reads it may leave without any of
\* it (a body cut short does; one that fails again is refused, unless the limit is 0).
\* It never leaves with a part that was not inspected.  A response put into a tunnel has
\* been inspected likewise.
InspectedAndIntact ==
    \A c \in Conns :
        /\ Leaving(c) =>
             /\ ~Violates(conn[c].body.chunks)
             /\ \/ conn[c].body = ReaderOf(conn[c].sent)
                \/ /\ conn[c].stage = "http" /\ conn[c].body.chunks = <<>>
                   /\ conn[c].sent.end = "short" \/ (conn[c].sent.end = "error" /\ MaxInspect = 0)
        /\ conn[c].pc = "twrite" => ~Violates(conn[c].body.chunks)

\* logAudit: a plain request has one audit record when it is over, which says "allowed"
\* just when the upstream's answer was passed on.  A CONNECT that evaluate denies has one
\* that says "blocked", though its client was answered 200.  In a tunnel an answer passed
\* on and one refused for DLP have one record each, the loop's own 400 and 502 none.
AuditMatchesAnswer ==
    \A c \in Conns :
        /\ conn[c].pc = "done" /\ conn[c].stage = "http" =>
             conn[c].audits = <<IF conn[c].answer = "upstream" THEN "allowed" ELSE "blocked">>
        /\ conn[c].reason \in {"tenant", "load", "policy", "dlp"} =>
             conn[c].audits = <<"blocked">>
        /\ conn[c].pc = "loop" =>
             conn[c].audits = CASE conn[c].answer = "upstream" -> <<"allowed">>
                                [] conn[c].answer = "403" -> <<"blocked">>
                                [] OTHER -> <<>>

\* "Re-evaluate policy using SNI-derived host to catch host-specific block rules": a
\* tunnel is set up only when the SNI's host was allowed too.
SNIWasAllowed ==
    \A c \in Conns : conn[c].pc = "handshake" /\ conn[c].sni # NoHost =>
        <<conn[c].tenant, conn[c].sni>> \in conn[c].granted

\* "Read one decrypted HTTP request from intercepted TLS stream": what the loop handles
\* as a request was sent as one.
ReadsWholeRequests == \A c \in Conns : conn[c].pc = "tinspect" => conn[c].genuine
=============================================================================
