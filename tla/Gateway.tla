------------------------------ MODULE Gateway ------------------------------
(***************************************************************************)
(* What every request to the web process passes before its handler: the    *)
(* rate limiter, the origin check of a hosted application, and the session *)
(* or the token that says who is calling.  Sessions and counts live in the *)
(* memory of one process; a restart forgets both.  The middlewares run on  *)
(* one event loop and the store takes a lock, so each is one step.         *)
(***************************************************************************)
EXTENDS Startup, Sequences, SequencesExt

CONSTANTS Client, Cookie, Settings, MaxClock

Limit  == IF Settings.RATE_LIMIT_REQUESTS < 1 THEN 1 ELSE Settings.RATE_LIMIT_REQUESTS
Window == IF Settings.RATE_LIMIT_WINDOW_SECONDS < 1 THEN 1 ELSE Settings.RATE_LIMIT_WINDOW_SECONDS
Ttl    == Settings.SESSION_TTL_SECONDS

Role == {"admin", "uploader", "reviewer"}

VARIABLES
  clock, hits,      \* the times of each client's requests the limiter still holds
  sessions,         \* cookie -> role and expiry
  served,           \* history: the times of each client's served requests
  issued,           \* history: what each cookie was issued for, and if it was ended
  reply             \* history: the last answer since the clock moved

gateway == <<clock, hits, sessions, served, issued, reply>>

NoCookie == "no cookie"
Never == [role |-> Nobody, at |-> 0, over |-> TRUE]
Quiet == [kind |-> "quiet"]

Init ==
  /\ clock = 0 /\ reply = Quiet
  /\ hits = [c \in Client |-> << >>] /\ served = [c \in Client |-> << >>]
  /\ sessions = << >> /\ issued = [k \in Cookie |-> Never]

\* The times are dropped from the front, up to the first within the window.
Recent(times) ==
  LET kept == {i \in DOMAIN times : times[i] > clock - Window}
  IN IF kept = {} THEN << >> ELSE SubSeq(times, Min(kept), Len(times))

\* The request is let through and counted, whatever becomes of it.
Count(client) ==
  /\ Len(Recent(hits[client])) < Limit
  /\ hits' = [hits EXCEPT ![client] = Append(Recent(@), clock)]
  /\ served' = [served EXCEPT ![client] = Append(@, clock)]

TooMany(client) ==
  /\ Len(Recent(hits[client])) >= Limit
  /\ hits' = [hits EXCEPT ![client] = Recent(@)]
  /\ reply' = [kind |-> "too many", client |-> client]
  /\ UNCHANGED <<clock, sessions, served, issued>>

\* A hosted application refuses a change that carries a cookie and another origin.
OriginAccepted(cookie, foreign) == ~IsHosted(Settings) \/ cookie = NoCookie \/ ~foreign

Live(cookie) == cookie \in DOMAIN sessions /\ sessions[cookie].expires > clock

\* Reading a session that has expired removes it.
Touch(cookie) ==
  sessions' = RestrictDomain(sessions, LAMBDA k : k # cookie \/ Live(k))

SignIn(client, token) ==
  LET role == Authenticate(token, Settings) IN
  /\ Count(client)
  /\ \/ /\ role # Nobody
        /\ \E cookie \in Cookie :
             /\ issued[cookie] = Never
             /\ sessions' = [k \in DOMAIN sessions \union {cookie} |->
                             IF k = cookie THEN [role |-> role, expires |-> clock + Ttl] ELSE sessions[k]]
             /\ issued' = [issued EXCEPT ![cookie] = [role |-> role, at |-> clock, over |-> FALSE]]
        /\ reply' = [kind |-> "signed in"]
     \/ /\ role = Nobody
        /\ reply' = [kind |-> "unauthorized", cookie |-> NoCookie, token |-> token]
        /\ UNCHANGED <<sessions, issued>>
  /\ UNCHANGED clock

SignOut(client, cookie, foreign) ==
  /\ Count(client)
  /\ IF OriginAccepted(cookie, foreign)
     THEN /\ sessions' = Restrict(sessions, DOMAIN sessions \ {cookie})
          /\ issued' = [k \in Cookie |-> IF k = cookie THEN [issued[k] EXCEPT !.over = TRUE] ELSE issued[k]]
          /\ reply' = Quiet
     ELSE /\ reply' = [kind |-> "not from here"]
          /\ UNCHANGED <<sessions, issued>>
  /\ UNCHANGED clock

\* A live session says who is calling; without one the token of the header does.
Caller(cookie, token) == IF Live(cookie) THEN sessions[cookie].role ELSE Authenticate(token, Settings)

Outcome(role, allowed) ==
  IF role = Nobody THEN "unauthorized" ELSE IF role \in allowed THEN "done" ELSE "forbidden"

Call(client, cookie, token, allowed, foreign) ==
  /\ Count(client)
  /\ IF OriginAccepted(cookie, foreign)
     THEN /\ Touch(cookie)
          /\ reply' = [kind |-> Outcome(Caller(cookie, token), allowed), cookie |-> cookie,
                        token |-> token, role |-> Caller(cookie, token), allowed |-> allowed]
     ELSE /\ reply' = [kind |-> "not from here"]
          /\ UNCHANGED sessions
  /\ UNCHANGED <<clock, issued>>

Tick ==
  /\ clock < MaxClock
  /\ clock' = clock + 1 /\ reply' = Quiet
  /\ UNCHANGED <<hits, sessions, served, issued>>

RestartGateway ==
  /\ sessions # << >>
  /\ hits' = [c \in Client |-> << >>] /\ served' = [c \in Client |-> << >>]
  /\ sessions' = << >> /\ reply' = Quiet
  /\ issued' = [k \in Cookie |-> IF issued[k] = Never THEN Never ELSE [issued[k] EXCEPT !.over = TRUE]]
  /\ UNCHANGED clock

\* Who may read a batch, review and administer.
Doors == {Role, {"admin", "reviewer"}, {"admin"}}
Tokens == {Unset, Settings.APP_ADMIN_TOKEN, Settings.APP_REVIEWER_TOKEN, Settings.APP_METRICS_TOKEN}

Next ==
  \/ \E client \in Client :
       \/ TooMany(client)
       \/ \E token \in Tokens : SignIn(client, token)
       \/ \E cookie \in Cookie, foreign \in BOOLEAN : SignOut(client, cookie, foreign)
       \/ \E cookie \in Cookie \union {NoCookie}, token \in Tokens, allowed \in Doors, foreign \in BOOLEAN :
            Call(client, cookie, token, allowed, foreign)
  \/ Tick \/ RestartGateway
-----------------------------------------------------------------------------
ServedWithin(client, from) == Cardinality({i \in DOMAIN served[client] : served[client][i] > from})

InForce(cookie, role) ==
  /\ cookie \in Cookie /\ ~issued[cookie].over
  /\ issued[cookie].role = role /\ clock < issued[cookie].at + Ttl

\* While a process runs, no client is served more often than the limit within any
\* window, and none is turned away that was not. A call is answered as the
\* principal its session was issued to, within the session's time and not after
\* it was ended; otherwise as the one the token names; and it is refused only when
\* it has neither. A session neither outlives a sign-out nor vanishes before.
CallersAreKnown ==
  /\ \A c \in Client : ServedWithin(c, clock - Window) <= Limit
  /\ reply.kind = "too many" => ServedWithin(reply.client, clock - Window) = Limit
  /\ reply.kind = "done" =>
       /\ reply.role \in reply.allowed
       /\ \/ InForce(reply.cookie, reply.role)
          \/ /\ ~\E role \in Role : InForce(reply.cookie, role)
             /\ Matches(reply.token, reply.role, Settings)
  /\ reply.kind = "unauthorized" =>
       \A role \in Role : ~InForce(reply.cookie, role) /\ ~Matches(reply.token, role, Settings)
  /\ \A k \in Cookie : ~issued[k].over /\ clock < issued[k].at + Ttl =>
       k \in DOMAIN sessions /\ sessions[k].role = issued[k].role
=============================================================================
