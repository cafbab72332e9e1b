----------------------------- MODULE RequestGate -----------------------------
(***************************************************************************)
(* What a request passes before its handler runs: SecureLocalHandler and   *)
(* requireSession with what they call.  A request is a record              *)
(*                                                                         *)
(*   method   "GET", "POST", "PUT", "PATCH", "DELETE", ...                 *)
(*   api      the path is under /api/, other than /api/health              *)
(*   host     the Host header: [name, port], port NoPort when it has none  *)
(*   origin   the Origin header: NoOrigin, BadOrigin, or [scheme, host]    *)
(*   remote   the peer: "loopback", "unknown" (in process) or "other"      *)
(*   cookie   the value of rc_session, or NoToken                          *)
(*                                                                         *)
(* and a server is [bind, port, token], set by SetRuntimeAddress and       *)
(* SetLocalToken.                                                          *)
(***************************************************************************)
EXTENDS Naturals, Sequences

CONSTANTS NoPort, NoOrigin, BadOrigin, NoToken

Loopback == {"localhost", "127.0.0.1", "::1"}

\* allowedHost: a named port must be the server's own.
AllowedHost(server, host) ==
  /\ host.name # ""
  /\ host.port \in {NoPort, server.port}
  /\ host.name \in Loopback \cup {server.bind}

IsStateChanging(method) == method \in {"POST", "PUT", "PATCH", "DELETE"}

ValidOrigin(server, origin) ==
  \/ origin = NoOrigin
  \/ /\ origin # BadOrigin
     /\ origin.scheme = "http"
     /\ AllowedHost(server, origin.host)

\* requireLoopbackRemote: an empty address is a call inside the process.
LoopbackRemote(remote) == remote \in {"loopback", "unknown"}

\* validateSessionToken: without a token everything passes.
ValidToken(server, cookie) == server.token = NoToken \/ cookie = server.token

\* withSession looks at requests that change something only.
WithSession(server, r) ==
  IsStateChanging(r.method) =>
    ValidOrigin(server, r.origin) /\ LoopbackRemote(r.remote)

\* The status of a request, 200 standing for what its handler answers.
Gate(server, r) ==
  IF ~AllowedHost(server, r.host) THEN 403
  ELSE IF ~r.api THEN 200
  ELSE IF ~ValidToken(server, r.cookie) THEN 401
  ELSE IF ~WithSession(server, r) THEN 403
  ELSE 200

-------------------------------------------------------------------------------
(* The port: listenWithFallback takes the first candidate that is free *)

Fallbacks == <<3001, 3010, 3000, 3002, 3003, 8080, 9999, 7897>>

Candidates(preferred) ==
  (IF preferred > 0 THEN <<preferred>> ELSE <<>>)
    \o Fallbacks \o [i \in 1..19 |-> 3010 + i]

\* NoPort when every candidate is taken.
ListenPort(preferred, busy) ==
  LET free(p) == p \notin busy
      left    == SelectSeq(Candidates(preferred), free)
  IN  IF left = <<>> THEN NoPort ELSE Head(left)

\* envInt: what RELAYCHECK_PORT asks for, 0 standing for what is not a positive number.
PreferredPort(env) == IF env <= 0 THEN 3001 ELSE env
===============================================================================
